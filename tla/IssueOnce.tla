----------------------------- MODULE IssueOnce -----------------------------
(***************************************************************************)
(* What the acquirer promises to a merchant who asks for an invoice under  *)
(* an idempotency key: the key is given one invoice, by one of the         *)
(* requests made with it; whoever asks for the same gets that invoice,     *)
(* whoever asks for something else is refused, and a request may always    *)
(* fail without telling whether its invoice was issued.                    *)
(***************************************************************************)
CONSTANTS Calls, Keys, Terms, Nothing, IdOf(_)

VARIABLES asked, issued, answered

vars == <<asked, issued, answered>>

None == [kind |-> "none", artifact |-> Nothing]
Asks == [key : Keys, terms : Terms]

Init ==
    /\ asked    = [c \in Calls |-> Nothing]
    /\ issued   = [k \in Keys |-> Nothing]
    /\ answered = [c \in Calls |-> None]

Ask(c, a) ==
    /\ asked[c] = Nothing
    /\ asked' = [asked EXCEPT ![c] = a]
    /\ UNCHANGED <<issued, answered>>

\* The invoice may be issued after its request was given up.  Nothing is said
\* of it but that its identifier is its own.
Issue(c) ==
    LET k == asked[c].key  new == issued'[k] IN
    /\ asked[c] # Nothing /\ answered[c].kind \in {"none", "failed"}
    /\ issued[k] = Nothing /\ new # Nothing
    /\ new.terms = asked[c].terms
    /\ \A j \in Keys : issued[j] # Nothing => IdOf(issued[j].artifact) # IdOf(new.artifact)
    /\ issued' = [issued EXCEPT ![k] = new]
    /\ UNCHANGED <<asked, answered>>

Answer(c) ==
    /\ asked[c] # Nothing /\ answered[c] = None
    /\ LET i == issued[asked[c].key] IN
       /\ i # Nothing
       /\ answered' = [answered EXCEPT ![c] = IF i.terms = asked[c].terms
                                              THEN [kind |-> "issued", artifact |-> i.artifact]
                                              ELSE [kind |-> "conflict", artifact |-> Nothing]]
    /\ UNCHANGED <<asked, issued>>

\* A reader, who did not ask for an invoice, sees an issued one as it was issued.
Read(c) ==
    /\ asked[c] = Nothing /\ answered[c] = None
    /\ \E k \in Keys : issued[k] # Nothing
                      /\ answered' = [answered EXCEPT ![c] =
                                       [kind |-> "issued", artifact |-> issued[k].artifact]]
    /\ UNCHANGED <<asked, issued>>

Fail(c) ==
    /\ asked[c] # Nothing /\ answered[c] = None
    /\ answered' = [answered EXCEPT ![c] = [kind |-> "failed", artifact |-> Nothing]]
    /\ UNCHANGED <<asked, issued>>

Next ==
    \E c \in Calls :
        \/ \E a \in Asks : Ask(c, a)
        \/ Issue(c) \/ Answer(c) \/ Read(c) \/ Fail(c)

Spec == Init /\ [][Next]_vars

=============================================================================
