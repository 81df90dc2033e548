-------------------------- MODULE StellarDeposits --------------------------
(***************************************************************************)
(* The deposits of the mint's payment processor: concurrent checks of mint *)
(* quotes page through the payments Horizon lists for the deposit account, *)
(* claim each exact one for the quote its memo names, and move one durable *)
(* cursor.                                                                 *)
(*                                                                         *)
(* A payment is its position in Horizon's list, which only grows; paging   *)
(* tokens are those positions.  What makes a payment exact for its quote   *)
(* (network, success, destination, asset, amount, closed in time) depends  *)
(* on nothing that changes later, so it is one attribute of the payment.   *)
(* The journal is written as in StellarSettlement, and its other writes,   *)
(* crashes and dropped calls are here too.                                 *)
(*                                                                         *)
(* A definition that stands directly before the one it resembles and is    *)
(* used nowhere is a defect of it; the runs show that a property sees it.  *)
(***************************************************************************)
EXTENDS Integers, Sequences

CONSTANTS
    Calls,         \* concurrent check_incoming_payment_status calls
    Quotes,        \* mint quotes
    NoQuote,       \* "no quote"
    PageSize,      \* payments Horizon lists at a time
    MaxPayments    \* payments ever made to the account

ASSUME DepositsAssumption ==
    NoQuote \notin Quotes /\ PageSize \in Nat \ {0} /\ MaxPayments \in Nat

VARIABLES
    ledger,        \* the account's payments, in Horizon's order
    mem,           \* the state in memory, StateStore::state
    disk,          \* the state in the journal file
    call,          \* the local state of each call
    offered,       \* quotes whose payment request was answered (history)
    paid           \* quotes that were answered as paid (history)

vars == <<ledger, mem, disk, call, offered, paid>>

Positions == 1..MaxPayments
Nowhere   == 0        \* the absent cursor, and the claim of an unpaid quote

\* "exact" funds the quote of its memo, "wrong" is rejected for it, and
\* "other" is no direct payment of a credit asset: the adapter leaves it out.
Kinds   == {"exact", "wrong", "other"}
Payment == [memo : Quotes \cup {NoQuote}, tx : Positions, kind : Kinds]
Store ==
    [quotes : SUBSET Quotes,
     claim : [Quotes -> Positions \cup {Nowhere}],
     operations : [Positions -> Quotes \cup {NoQuote}],
     transactions : [Positions -> Quotes \cup {NoQuote}],
     cursor : Positions \cup {Nowhere}]

EmptyStore ==
    [quotes |-> {}, claim |-> [q \in Quotes |-> Nowhere],
     operations |-> [n \in Positions |-> NoQuote],
     transactions |-> [n \in Positions |-> NoQuote], cursor |-> Nowhere]
Idle == [pc |-> "idle", q |-> NoQuote, at |-> Nowhere, to |-> Nowhere]
Answering(q) == [Idle EXCEPT !.pc = "answering", !.q = q]

Init ==
    /\ ledger = <<>>
    /\ mem = EmptyStore /\ disk = EmptyStore
    /\ call = [c \in Calls |-> Idle]
    /\ offered = {} /\ paid = {}

-----------------------------------------------------------------------------
(* The operations of the state                                             *)

Claimable(s, n) ==
    LET p == ledger[n] IN
    /\ p.memo \in s.quotes /\ p.kind = "exact"
    /\ s.claim[p.memo] = Nowhere
    /\ s.operations[n] = NoQuote /\ s.transactions[p.tx] = NoQuote

ClaimAgain(s, n) == IF Claimable([s EXCEPT !.claim = EmptyStore.claim], n)
                    THEN [s EXCEPT !.claim[ledger[n].memo] = n,
                                   !.operations[n] = ledger[n].memo,
                                   !.transactions[ledger[n].tx] = ledger[n].memo]
                    ELSE s
EvaluatePayment(s, n) ==
    IF Claimable(s, n)
    THEN [s EXCEPT !.claim[ledger[n].memo] = n,
                   !.operations[n] = ledger[n].memo,
                   !.transactions[ledger[n].tx] = ledger[n].memo]
    ELSE s

\* Claim and cursor move together; what the cursor has passed is not looked at.
ObservePayment(s, n) ==
    IF n <= s.cursor THEN s ELSE [EvaluatePayment(s, n) EXCEPT !.cursor = n]

KeepCursor(s, n)    == s
SetCursor(s, n)     == [s EXCEPT !.cursor = n]
AdvanceCursor(s, n) == IF n > s.cursor THEN [s EXCEPT !.cursor = n] ELSE s

\* A journal update by a call that goes on to l, or fails: before the rename,
\* or after it.
MemoryFirst(c, s, l) == mem' = s /\ disk' \in {disk, s} /\ call' = [call EXCEPT ![c] = l]
Update(c, s, l) ==
    \/ mem' = s /\ disk' = s /\ call' = [call EXCEPT ![c] = l]
    \/ mem' = mem /\ disk' \in {disk, s} /\ call' = [call EXCEPT ![c] = Idle]

-----------------------------------------------------------------------------
(* Quotes and the checks of their payment                                  *)

\* create_incoming_payment_request: the quote is in the journal before its
\* request is answered.  An unclaimed quote may be created again; a claimed one
\* is in conflict with the new record.
CreateQuote(q) ==
    LET s == [mem EXCEPT !.quotes = @ \cup {q}] IN
    /\ mem.claim[q] = Nowhere
    /\ \/ mem' = s /\ disk' = s /\ offered' = offered \cup {q}
       \/ mem' = mem /\ disk' \in {disk, s} /\ offered' = offered
    /\ UNCHANGED <<ledger, call, paid>>

Check(c, q) ==
    /\ call[c].pc = "idle" /\ q \in mem.quotes
    /\ call' = [call EXCEPT ![c] = IF mem.claim[q] = Nowhere
                                   THEN [Idle EXCEPT !.pc = "reading", !.q = q]
                                   ELSE Answering(q)]
    /\ UNCHANGED <<ledger, mem, disk, offered, paid>>

\* scan_deposits: the cursor is read, and the page after it is awaited.
ReadCursor(c) ==
    /\ call[c].pc = "reading"
    /\ call' = [call EXCEPT ![c].pc = "fetching", ![c].at = mem.cursor]
    /\ UNCHANGED <<ledger, mem, disk, offered, paid>>

PageFull(n) == n + PageSize
PageEnd(n)  == IF n + PageSize < Len(ledger) THEN n + PageSize ELSE Len(ledger)

Fetch(c) ==
    LET l == call[c] IN
    /\ l.pc = "fetching"
    /\ call' = [call EXCEPT ![c] =
                   IF PageEnd(l.at) = l.at THEN Answering(l.q)
                   ELSE [l EXCEPT !.pc = "observing", !.to = PageEnd(l.at)]]
    /\ UNCHANGED <<ledger, mem, disk, offered, paid>>

\* One observation after the other, each an update of its own; a failed one
\* ends the scan.
SkipFailed(c) ==
    LET n == call[c].at + 1 IN
    /\ call[c].pc = "observing" /\ call[c].at < call[c].to
    /\ \E s \in {mem, IF ledger[n].kind = "other" THEN mem ELSE ObservePayment(mem, n)} :
          mem' = s /\ disk' = s
    /\ call' = [call EXCEPT ![c].at = n]
    /\ UNCHANGED <<ledger, offered, paid>>
Observe(c) ==
    LET n == call[c].at + 1 IN
    /\ call[c].pc = "observing" /\ call[c].at < call[c].to
    /\ IF ledger[n].kind = "other"
       THEN call' = [call EXCEPT ![c].at = n] /\ UNCHANGED <<mem, disk>>
       ELSE Update(c, ObservePayment(mem, n), [call[c] EXCEPT !.at = n])
    /\ UNCHANGED <<ledger, offered, paid>>

\* The end of the page moves the cursor over what the adapter left out.
FinishPage(c) ==
    LET l == call[c] IN
    /\ l.pc = "observing" /\ l.at = l.to
    /\ Update(c, AdvanceCursor(mem, l.to), Answering(l.q))
    /\ UNCHANGED <<ledger, offered, paid>>

Answer(c) ==
    /\ call[c].pc = "answering"
    /\ paid' = IF mem.claim[call[c].q] = Nowhere THEN paid ELSE paid \cup {call[c].q}
    /\ call' = [call EXCEPT ![c] = Idle]
    /\ UNCHANGED <<ledger, mem, disk, offered>>

\* The caller goes away, or Horizon fails.
Drop(c) ==
    /\ call[c].pc # "idle"
    /\ call' = [call EXCEPT ![c] = Idle]
    /\ UNCHANGED <<ledger, mem, disk, offered, paid>>

-----------------------------------------------------------------------------
(* The surroundings                                                        *)

\* Payers know the memo of a quote from its payment request.  The operations
\* of one transaction share its memo.
Pay(memo, kind, tx) ==
    /\ Len(ledger) < MaxPayments
    /\ memo # NoQuote => memo \in offered
    /\ kind = "exact" => memo # NoQuote
    /\ \/ tx = Len(ledger) + 1
       \/ ledger # <<>> /\ tx = ledger[Len(ledger)].tx /\ memo = ledger[Len(ledger)].memo
    /\ ledger' = Append(ledger, [memo |-> memo, tx |-> tx, kind |-> kind])
    /\ UNCHANGED <<mem, disk, call, offered, paid>>

\* The journal is written for a melt quote.
OtherWrite == disk' = mem /\ UNCHANGED <<ledger, mem, call, offered, paid>>

Crash ==
    /\ mem' = disk
    /\ call' = [c \in Calls |-> Idle]
    /\ UNCHANGED <<ledger, disk, offered, paid>>

Next ==
    \/ \E q \in Quotes : CreateQuote(q)
    \/ \E c \in Calls :
          \/ \E q \in Quotes : Check(c, q)
          \/ ReadCursor(c) \/ Fetch(c) \/ Observe(c) \/ FinishPage(c) \/ Answer(c) \/ Drop(c)
    \/ \E memo \in Quotes \cup {NoQuote}, kind \in Kinds, tx \in Positions : Pay(memo, kind, tx)
    \/ OtherWrite \/ Crash

Spec == Init /\ [][Next]_vars

\* The mint polls its quotes, and what is tried again and again, by whichever
\* call, succeeds some time.  Calls may still be dropped and writes fail, and
\* the processor may crash, again and again.
Succeeds(c) == call'[c].pc # "idle"

Fairness ==
    /\ SF_vars(\E c \in Calls : ReadCursor(c))
    /\ SF_vars(\E c \in Calls : Fetch(c))
    /\ SF_vars(\E c \in Calls : Observe(c) /\ Succeeds(c))
    /\ SF_vars(\E c \in Calls : FinishPage(c) /\ Succeeds(c))
    /\ \A q \in Quotes :
          /\ SF_vars(\E c \in Calls : Check(c, q))
          /\ SF_vars(\E c \in Calls : Answer(c) /\ call[c].q = q)

FairSpec == Spec /\ Fairness

-----------------------------------------------------------------------------
(* Properties                                                              *)

\* Every variable holds a value of its type, and a page is a part of the list.
TypeOK ==
    /\ ledger \in Seq(Payment) /\ \A c \in Calls : call[c].to <= Len(ledger)
    /\ {mem, disk} \subseteq Store
    /\ call \in [Calls -> [pc : {"idle", "reading", "fetching", "observing", "answering"},
                           q : Quotes \cup {NoQuote},
                           at : Positions \cup {Nowhere}, to : Positions \cup {Nowhere}]]
    /\ offered \subseteq Quotes /\ paid \subseteq Quotes

\* docs/security-model.md: "An exact deposit can fund at most one mint quote",
\* and a quote is funded by one.  In memory and in the journal the quotes'
\* claims and the two replay indexes say the same.
OneDepositPerQuote ==
    \A s \in {mem, disk} :
        /\ \A n \in Positions :
              s.operations[n] # NoQuote =>
                  /\ n <= Len(ledger) /\ ledger[n].kind = "exact"
                  /\ s.claim[s.operations[n]] = n
                  /\ s.transactions[ledger[n].tx] = s.operations[n]
        /\ \A q \in Quotes :
              s.claim[q] # Nowhere => s.operations[s.claim[q]] = q
        /\ \A t \in Positions :
              s.transactions[t] # NoQuote =>
                  \E n \in Positions : s.operations[n] = s.transactions[t] /\ ledger[n].tx = t

\* The cursor never passes a deposit: whatever pages several scans hold, stale
\* or not, and wherever they fail, every exact payment at or below the cursor
\* has its quote funded.
NothingSkipped ==
    \A s \in {mem, disk}, n \in Positions :
        n <= s.cursor =>
            /\ n <= Len(ledger)
            /\ ledger[n].kind = "exact" => s.claim[ledger[n].memo] # Nowhere

\* What the mint was told survives a crash and a failed write: a quote whose
\* request was answered, and a quote that was answered as paid.
AnswersAreDurable ==
    \A s \in {mem, disk} :
        offered \subseteq s.quotes /\ \A q \in paid : s.claim[q] # Nowhere

\* Neither the cursor nor a claim ever goes back, over restarts too: a restart
\* finds the journal at or ahead of the memory that was lost.
OnlyForward ==
    [][/\ mem.cursor <= mem'.cursor
       /\ \A q \in Quotes : mem.claim[q] # Nowhere => mem'.claim[q] = mem.claim[q]]_vars

\* A deposit in time is eventually answered as paid, behind whole pages of
\* payments that fund nothing.
DepositIsCredited ==
    \A q \in Quotes :
        (\E n \in Positions : n <= Len(ledger) /\ ledger[n].memo = q /\ ledger[n].kind = "exact")
            ~> q \in paid

=============================================================================
