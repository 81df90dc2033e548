--------------------------- MODULE KeysetEvidence ---------------------------
(***************************************************************************)
(* What the acquirer knows of a mint's keysets: observers that read them   *)
(* from the mint while it rotates and reprices them, and the append-only   *)
(* record of the observations, which concurrent transactions write.        *)
(*                                                                         *)
(* One operator with one mint and one unit.  The keys of a keyset follow   *)
(* from its identifier, which is verified; of a keyset of version 00 the   *)
(* fee and the expiry do not, so the mint may change them.  A hash is the  *)
(* record it covers.  What a call has not committed keeps others waiting;  *)
(* it may end at any time without an answer, and the database then ends    *)
(* its transaction, with the commit if that was asked for.                 *)
(*                                                                         *)
(* Calls are slots for requests: one that ended may begin another.         *)
(***************************************************************************)
EXTENDS Integers, Sequences, FiniteSets

CONSTANTS
    Calls,          \* slots for concurrent requests
    Keysets,        \* keyset identifiers, numbered in their order
    Versions,       \* what the mint may publish: functions from some Keysets
    Times,          \* readings of the processes' clocks
    Nothing         \* no row

\* What the fingerprint of a keyset's identity covers, besides its keys.
Material == [fee : Nat, expiry : Nat]

Keyset == [active : BOOLEAN, of : Material]

\* A snapshot has no keyset twice: it is a function from identifiers.
IsSnapshot(s) ==
    /\ DOMAIN s \subseteq Keysets /\ DOMAIN s # {}
    /\ s \in [DOMAIN s -> Keyset]

\* The mint publishes metadata that are valid and of the unit.
ASSUME KeysetAssumption ==
    /\ Keysets \subseteq Nat /\ IsFiniteSet(Keysets) /\ Times \subseteq Nat
    /\ \A v \in Versions : IsSnapshot(v)
    /\ IsFiniteSet(Calls)

VARIABLES
    mint,           \* what the mint publishes
    keysets,        \* cashu_keysets: the material first observed of an id
    observations,   \* cashu_keyset_observations with their entries, by time
    call            \* the state of each call

evidence == <<keysets, observations>>

EvidenceInit ==
    /\ keysets = [k \in Keysets |-> Nothing]
    /\ observations = [t \in Times |-> Nothing]

-----------------------------------------------------------------------------
(* Calls                                                                   *)

\* Of an answer it is remembered whether the call met a stored record that it
\* must reject; a call that was done, refused or failed is over.  current is a history variable: the
\* call's metadata has been what the mint published at some time since its
\* last read of keys.
Idle ==
    [pc |-> "idle", answer |-> "over", at |-> Nothing, meta |-> Nothing, got |-> {},
     current |-> FALSE, time |-> Nothing, held |-> {}, done |-> 0,
     payment |-> Nothing, terms |-> Nothing, tx |-> "none"]

To(c, l) == call' = [call EXCEPT ![c] = l]

Ends(c, a)  == To(c, [Idle EXCEPT !.answer = IF a = "invalid" THEN a ELSE "over"])

\* A transaction whose caller is gone is ended by the database.  Unless its
\* commit was asked for, only what it holds still matters.
GivesUp(c)  ==
    LET l == call[c] IN
    IF l.tx = "none" THEN Ends(c, "refused")
    ELSE To(c, IF l.tx = "commit" THEN [l EXCEPT !.pc = "gone"]
               ELSE [Idle EXCEPT !.pc = "gone", !.tx = "open", !.payment = l.payment, !.got = l.got,
                                 !.held = l.held])
Free(c)     == call[c].pc = "idle"
InTx(c)     == call[c].tx \in {"open", "commit"}

\* The n-th identifier of a set, in their order.
Nth(S, n) == CHOOSE k \in S : Cardinality({j \in S : j < k}) = n

-----------------------------------------------------------------------------
(* The rows of an observation                                              *)

\* What a snapshot says of keysets is their activity, written with the
\* observation, and their material, written once for all observations.
Entries(snapshot) == [k \in DOMAIN snapshot |-> snapshot[k].active]

ObservationRow(snapshot) == [fingerprint |-> snapshot, active |-> Entries(snapshot)]

ASSUME RowsAssumption ==
    /\ Nothing \notin Material \cup Times \cup Versions
    /\ \A v \in Versions : ObservationRow(v) # Nothing

Observed == {k \in Keysets : keysets[k] # Nothing}

\* The entries of a row joined with the keysets they refer to.
Rebuilt(row) ==
    [k \in DOMAIN row.active \cap Observed |-> [active |-> row.active[k], of |-> keysets[k]]]

\* mapObservation fails on a row that is not rebuilt as it was observed.
Readable(row) == IsSnapshot(Rebuilt(row)) /\ Rebuilt(row) = row.fingerprint

\* The latest observation within the bounds, or Nothing.
LatestWithin(after, before) ==
    LET fit == {t \in Times : t >= after /\ t <= before /\ observations[t] # Nothing}
    IN  IF fit = {} THEN Nothing ELSE CHOOSE t \in fit : \A u \in fit : u <= t

-----------------------------------------------------------------------------
(* An observation                                                          *)

Observe(c, t) ==
    /\ Free(c)
    /\ To(c, [Idle EXCEPT !.pc = "metadata", !.at = t])
    /\ UNCHANGED <<mint, evidence>>

ReadMetadata(c) ==
    /\ call[c].pc = "metadata"
    /\ To(c, [call[c] EXCEPT !.pc = "keys", !.meta = mint])
    /\ UNCHANGED <<mint, evidence>>

\* The answer need not repeat the metadata; where it does, it must agree.
Matches(k, expected, complete) == k \in DOMAIN mint /\ (complete => mint[k] = expected)

\* The keys of the identifiers, read concurrently, in any order.
ReadKeys(c, k, complete) ==
    LET l == call[c]  got == l.got \cup {k} IN
    /\ l.pc = "keys" /\ k \in DOMAIN l.meta \ l.got
    /\ IF ~Matches(k, l.meta[k], complete) THEN Ends(c, "refused")
       ELSE To(c, IF got = DOMAIN l.meta
                  THEN [l EXCEPT !.pc = "again", !.got = {}, !.current = (mint = l.meta)]
                  ELSE [l EXCEPT !.got = got])
    /\ UNCHANGED <<mint, evidence>>

ReadMetadataAgain(c) ==
    /\ call[c].pc = "again"
    /\ IF mint = call[c].meta THEN To(c, [call[c] EXCEPT !.pc = "stamp"]) ELSE Ends(c, "refused")
    /\ UNCHANGED <<mint, evidence>>

\* The snapshot's time; its caller goes on to persist it.
Stamp(c, t) ==
    /\ call[c].pc = "stamp"
    /\ IF t >= call[c].at
       THEN To(c, [call[c] EXCEPT !.pc = "persist", !.time = t, !.at = Nothing])
       ELSE Ends(c, "refused")
    /\ UNCHANGED <<mint, evidence>>

-----------------------------------------------------------------------------
(* The transaction that stores it                                          *)

\* An uncommitted identity.
HoldsKeyset(d, k) == InTx(d) /\ call[d].payment = Nothing /\ k \in call[d].held

\* INSERT ... ON CONFLICT DO NOTHING waits for an uncommitted row of the id;
\* then the stored material is compared.
PersistKeysetIdentity(c) ==
    LET l == call[c]  k == Nth(DOMAIN l.meta, l.done) IN
    /\ l.pc = "persist" /\ l.done < Cardinality(DOMAIN l.meta)
    /\ \A d \in Calls \ {c} : ~HoldsKeyset(d, k)
    /\ IF keysets[k] = Nothing \/ keysets[k] = l.meta[k].of
       THEN To(c, [l EXCEPT !.tx = "open", !.done = @ + 1, !.current = FALSE,
                            !.held = IF keysets[k] = Nothing THEN @ \cup {k} ELSE @])
       ELSE Ends(c, "refused")
    /\ UNCHANGED <<mint, evidence>>

\* An uncommitted observation of the same time.
HoldsTime(d, t) == InTx(d) /\ call[d].tx = "commit" /\ call[d].time = t /\ call[d].payment = Nothing

\* The same observation may be stored already, or another one of its time.
InsertObservation(c) ==
    LET l == call[c]  row == observations[l.time] IN
    /\ l.pc = "persist" /\ l.done = Cardinality(DOMAIN l.meta)
    /\ \A d \in Calls \ {c} : ~HoldsTime(d, l.time)
    /\ IF row = Nothing THEN To(c, [l EXCEPT !.pc = "committing", !.tx = "commit"])
       ELSE IF row.fingerprint # l.meta THEN Ends(c, "refused")
       ELSE Ends(c, IF Readable(row) THEN "done" ELSE "invalid")
    /\ UNCHANGED <<mint, evidence>>

\* The commit of the database, whether or not the call still waits for it.
CommitObservation(c) ==
    LET l == call[c] IN
    /\ l.tx = "commit" /\ l.payment = Nothing
    /\ keysets' = [k \in Keysets |-> IF k \in l.held THEN l.meta[k].of ELSE keysets[k]]
    /\ observations' = [observations EXCEPT ![l.time] = ObservationRow(l.meta)]
    /\ Ends(c, IF l.pc = "gone" THEN "refused" ELSE "done")
    /\ UNCHANGED mint

-----------------------------------------------------------------------------
(* What may happen to every call, and the mint                             *)

\* A failing statement, a timeout, a lost connection, the end of the process.
GiveUp(c) ==
    /\ call[c].pc \notin {"idle", "gone"}
    /\ GivesUp(c)
    /\ UNCHANGED <<mint, evidence>>

Abort(c) ==
    /\ call[c].pc = "gone"
    /\ Ends(c, "refused")
    /\ UNCHANGED <<mint, evidence>>

Publish(v) ==
    /\ mint # v
    /\ mint' = v
    /\ call' = [c \in Calls |-> IF call[c].pc = "again" /\ call[c].meta = v
                                THEN [call[c] EXCEPT !.current = TRUE] ELSE call[c]]
    /\ UNCHANGED evidence

\* Whom a call waits for.
WaitsForObserver(c) ==
    LET l == call[c] IN
    {d \in Calls \ {c} :
        /\ l.pc = "persist"
        /\ IF l.done < Cardinality(DOMAIN l.meta)
           THEN HoldsKeyset(d, Nth(DOMAIN l.meta, l.done))
           ELSE HoldsTime(d, l.time)}

ObserverStep(c) ==
    \/ ReadMetadata(c)
    \/ \E k \in Keysets, complete \in BOOLEAN : ReadKeys(c, k, complete)
    \/ ReadMetadataAgain(c)
    \/ \E t \in Times : Stamp(c, t)
    \/ PersistKeysetIdentity(c) \/ InsertObservation(c) \/ CommitObservation(c)

-----------------------------------------------------------------------------
(* Properties                                                              *)

EvidenceTypeOK ==
    /\ mint \in Versions
    /\ keysets \in [Keysets -> Material \cup {Nothing}]
    /\ \A t \in Times : observations[t] # Nothing =>
          DOMAIN observations[t].active \subseteq Observed
    /\ \A c \in Calls : call[c].tx \in {"none", "open", "commit"}

\* docs/cashu-payment-requests.md, keyset observation: a snapshot is what the
\* mint published when its keys had been read, not a mixture of what it
\* published before and after a rotation.
SnapshotsAreCurrent == \A c \in Calls : call[c].pc = "stamp" => call[c].current

\* Every stored observation is read back as it was made, whatever has been
\* observed of the same keysets before and since.
ObservationsStand == \A t \in Times : observations[t] # Nothing => Readable(observations[t])

=============================================================================
