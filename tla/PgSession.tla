------------------------------ MODULE PgSession -------------------------------
(****************************************************************************)
(* The one PostgreSQL connection a server shares between its requests       *)
(* (with_reconnect in src/src/postgres_store.rs), from the request the CLI  *)
(* sends (src/src/client.rs) to the COMMIT the database may or may not have *)
(* applied when the connection dies.                                        *)
(*                                                                          *)
(* A slot holds the connection; its mutex is held while a statement runs    *)
(* (some pc is "op" or "again") and never while a replacement is dialed.    *)
(* What the transactions write is PostgresStore's subject: here a request   *)
(* has been applied some number of times.  `verdict` is what the caller is  *)
(* told: 2xx, a refusal (4xx), or unavailable (5xx or no answer in time).   *)
(****************************************************************************)
EXTENDS Integers, FiniteSets

CONSTANTS
    Writers,    \* requests that run one transaction
    ReadsBack,  \* those whose store call then reads the row again: update, close
    Probes,     \* callers of /healthz
    MaxFaults   \* bound: broken connections, failed dials, panics and late answers

ASSUME CallersAssumption == ReadsBack \subseteq Writers /\ Writers \cap Probes = {}
ASSUME FaultsAssumption == MaxFaults \in Nat

Callers == Writers \cup Probes

VARIABLES
    up,             \* PostgreSQL accepts connections
    slot,           \* SlotState.client: "none", or a "live" or "dead" connection
    reconnecting,   \* SlotState.reconnecting
    pc,             \* where each caller is in with_reconnect
    part,           \* what it runs there: its transaction "tx" or a "read"
    hand,           \* the connection it has taken out of the slot
    tx,             \* its transaction, as the database sees it
    applied,        \* how many times the database has applied it
    verdict,        \* what the caller was told
    faults          \* faults so far

sessionVars == <<up, slot, reconnecting, pc, part, hand, tx, applied, verdict, faults>>

Handle == {"none", "live", "dead"}

SessionTypeOK ==
    /\ up \in BOOLEAN
    /\ slot \in Handle
    /\ reconnecting \in BOOLEAN
    /\ pc \in [Callers -> {"idle", "lock", "dial", "op", "redial", "again", "done"}]
    /\ part \in [Callers -> {"tx", "read"}]
    /\ hand \in [Callers -> Handle]
    /\ tx \in [Callers -> {"none", "open", "sent", "applied", "lost"}]
    /\ applied \in [Callers -> Nat]
    /\ verdict \in [Callers -> {"none", "ok", "rejected", "unavailable"}]
    /\ faults \in 0..MaxFaults

SessionInit ==
    /\ up = TRUE
    /\ slot = "live"
    /\ reconnecting = FALSE
    /\ pc = [c \in Callers |-> "idle"]
    /\ part = [c \in Callers |-> IF c \in Writers THEN "tx" ELSE "read"]
    /\ hand = [c \in Callers |-> "none"]
    /\ tx = [c \in Callers |-> "none"]
    /\ applied = [c \in Callers |-> 0]
    /\ verdict = [c \in Callers |-> "none"]
    /\ faults = 0

Fault == faults < MaxFaults /\ faults' = faults + 1
Locked == \E c \in Callers : pc[c] \in {"op", "again"}

\* with_reconnect returns, and with it the handler.  A caller that has given up waiting
\* no longer listens.
Answer(c, v) ==
    /\ pc' = [pc EXCEPT ![c] = IF c \in Probes THEN "idle" ELSE "done"]
    /\ verdict' = [verdict EXCEPT ![c] = IF @ = "none" THEN v ELSE @]

----------------------------------------------------------------------------
(* Taking the connection *)

Enter(c) ==
    /\ pc[c] = "idle"
    /\ pc' = [pc EXCEPT ![c] = "lock"]
    /\ verdict' = [verdict EXCEPT ![c] = "none"]
    /\ UNCHANGED <<up, slot, reconnecting, part, hand, tx, applied, faults>>

\* Another caller is dialing: an error at once (Error::Bad, a 422), not a wait.
FailFast(c) ==
    /\ pc[c] = "lock" /\ ~Locked
    /\ reconnecting
    /\ Answer(c, "rejected")
    /\ UNCHANGED <<up, slot, reconnecting, part, hand, tx, applied, faults>>

Take(c) ==
    /\ pc[c] = "lock" /\ ~Locked
    /\ ~reconnecting /\ slot # "none"
    /\ hand' = [hand EXCEPT ![c] = slot]
    /\ slot' = "none"
    /\ pc' = [pc EXCEPT ![c] = "op"]
    /\ UNCHANGED <<up, reconnecting, part, tx, applied, verdict, faults>>

Dial(c) ==
    /\ pc[c] = "lock" /\ ~Locked
    /\ ~reconnecting /\ slot = "none"
    /\ reconnecting' = TRUE
    /\ pc' = [pc EXCEPT ![c] = "dial"]
    /\ UNCHANGED <<up, slot, part, hand, tx, applied, verdict, faults>>

Connected(c) ==
    /\ pc[c] \in {"dial", "redial"}
    /\ up
    /\ reconnecting' = FALSE
    /\ hand' = [hand EXCEPT ![c] = "live"]
    /\ pc' = [pc EXCEPT ![c] = IF @ = "dial" THEN "op" ELSE "again"]
    /\ UNCHANGED <<up, slot, part, tx, applied, verdict, faults>>

DialError(c) ==
    /\ pc[c] \in {"dial", "redial"}
    /\ \/ ~up /\ UNCHANGED faults
       \/ Fault
    /\ \E v \in {"unavailable", "rejected"} : Answer(c, v)

\* Mutant: the early return of a failed dial leaves the flag raised.
ConnectFails_KeepsFlag(c) ==
    /\ DialError(c)
    /\ UNCHANGED <<up, slot, reconnecting, part, hand, tx, applied>>

\* The dial was refused (a 500) or ran into DIAL_DEADLINE (Error::Bad, a 422).
ConnectFails(c) ==
    /\ DialError(c)
    /\ reconnecting' = FALSE
    /\ UNCHANGED <<up, slot, part, hand, tx, applied>>

----------------------------------------------------------------------------
(* Running op under the lock *)

Running(c) == pc[c] \in {"op", "again"}
CommitAttempted(c) == part[c] = "tx" /\ tx[c] \in {"sent", "applied", "lost"}

BeginTx(c) ==
    /\ Running(c) /\ part[c] = "tx" /\ hand[c] = "live" /\ tx[c] = "none"
    /\ tx' = [tx EXCEPT ![c] = "open"]
    /\ UNCHANGED <<up, slot, reconnecting, pc, part, hand, applied, verdict, faults>>

SendCommit(c) ==
    /\ Running(c) /\ hand[c] = "live" /\ tx[c] = "open"
    /\ tx' = [tx EXCEPT ![c] = "sent"]
    /\ UNCHANGED <<up, slot, reconnecting, pc, part, hand, applied, verdict, faults>>

\* The database decides a COMMIT it was sent, be it after its client has gone; a COMMIT
\* can get lost only with its connection.
Resolve(c) ==
    /\ tx[c] = "sent"
    /\ \/ /\ tx' = [tx EXCEPT ![c] = "applied"]
          /\ applied' = [applied EXCEPT ![c] = @ + 1]
       \/ /\ hand[c] # "live"
          /\ tx' = [tx EXCEPT ![c] = "lost"]
          /\ UNCHANGED applied
    /\ UNCHANGED <<up, slot, reconnecting, pc, part, hand, verdict, faults>>

\* Mutant: the value is returned without waiting for COMMIT.
Succeeded_Early(c) == Running(c) /\ hand[c] = "live" /\ tx[c] # "none"

Succeeded(c) == Running(c) /\ hand[c] = "live" /\ (part[c] = "tx" => tx[c] = "applied")

PutBack(c) == slot' = hand[c] /\ hand' = [hand EXCEPT ![c] = "none"]

\* update and close then read the row in a second with_reconnect call.
OpOk(c) ==
    /\ Succeeded(c)
    /\ PutBack(c)
    /\ IF part[c] = "tx" /\ c \in ReadsBack
       THEN /\ pc' = [pc EXCEPT ![c] = "lock"]
            /\ part' = [part EXCEPT ![c] = "read"]
            /\ UNCHANGED verdict
       ELSE Answer(c, "ok") /\ UNCHANGED part
    /\ UNCHANGED <<up, reconnecting, tx, applied, faults>>

\* Mutant: any disconnect is retried, even after COMMIT was sent.
Retryable_Ambiguous(c) == hand[c] = "dead"

Retryable(c) == hand[c] = "dead" /\ ~CommitAttempted(c)

\* The connection is gone before COMMIT was attempted: drop it, pause, dial, once.
Reconnect(c) ==
    /\ pc[c] = "op" /\ Retryable(c)
    /\ hand' = [hand EXCEPT ![c] = "none"]
    /\ reconnecting' = TRUE
    /\ pc' = [pc EXCEPT ![c] = "redial"]
    /\ tx' = IF part[c] = "tx" THEN [tx EXCEPT ![c] = "none"] ELSE tx
    /\ UNCHANGED <<up, slot, part, applied, verdict, faults>>

\* The replacement died as well: the slot stays empty.
DiesAgain(c) ==
    /\ pc[c] = "again" /\ Retryable(c)
    /\ hand' = [hand EXCEPT ![c] = "none"]
    /\ Answer(c, "unavailable")
    /\ UNCHANGED <<up, slot, reconnecting, part, tx, applied, faults>>

\* Mutant: the ambiguous commit is reported as a refusal.
CommitUnknown_Refused(c) ==
    /\ Running(c) /\ hand[c] = "dead" /\ CommitAttempted(c)
    /\ PutBack(c)
    /\ Answer(c, "rejected")
    /\ UNCHANGED <<up, reconnecting, part, tx, applied, faults>>

\* It is gone after COMMIT was attempted: no replay; the dead connection goes back.
CommitUnknown(c) ==
    /\ Running(c) /\ hand[c] = "dead" /\ CommitAttempted(c)
    /\ PutBack(c)
    /\ Answer(c, "unavailable")
    /\ UNCHANGED <<up, reconnecting, part, tx, applied, faults>>

\* op returned another error, and its transaction rolled back: a refusal, or a failure
\* is_disconnect does not recognise, which puts the connection back dead or alive.
OpError(c) ==
    /\ Running(c) /\ hand[c] # "none" /\ ~CommitAttempted(c)
    /\ IF hand[c] = "live" /\ c \in Writers THEN UNCHANGED faults ELSE Fault
    /\ PutBack(c)
    /\ \E v \in {"rejected", "unavailable"} : Answer(c, v)
    /\ tx' = IF part[c] = "tx" THEN [tx EXCEPT ![c] = "none"] ELSE tx
    /\ UNCHANGED <<up, reconnecting, part, applied>>

\* op panicked: its connection goes with it, the poisoned lock is recovered.
Panic(c) ==
    /\ Running(c) /\ ~CommitAttempted(c)
    /\ Fault
    /\ hand' = [hand EXCEPT ![c] = "none"]
    /\ Answer(c, "unavailable")
    /\ tx' = IF part[c] = "tx" THEN [tx EXCEPT ![c] = "none"] ELSE tx
    /\ UNCHANGED <<up, slot, reconnecting, part, applied>>

----------------------------------------------------------------------------
(* The surroundings *)

Killed(h) == IF h = "live" THEN "dead" ELSE h

\* The backend is killed, the network resets, or PostgreSQL goes down altogether.
Break ==
    /\ Fault
    /\ up' \in {up, FALSE}
    /\ slot' = Killed(slot)
    /\ hand' = [c \in Callers |-> Killed(hand[c])]
    /\ UNCHANGED <<reconnecting, pc, part, tx, applied, verdict>>

ComesBack ==
    /\ ~up
    /\ up' = TRUE
    /\ UNCHANGED <<slot, reconnecting, pc, part, hand, tx, applied, verdict, faults>>

\* The caller's own deadline (--timeout-ms, 2 s for /healthz) passes; the server works on.
GiveUp(c) ==
    /\ pc[c] \notin {"idle", "done"} /\ verdict[c] = "none"
    /\ Fault
    /\ verdict' = [verdict EXCEPT ![c] = "unavailable"]
    /\ UNCHANGED <<up, slot, reconnecting, pc, part, hand, tx, applied>>

Step(c) == \/ Enter(c) \/ FailFast(c) \/ Take(c) \/ Dial(c)
           \/ Connected(c) \/ ConnectFails(c)
           \/ BeginTx(c) \/ SendCommit(c) \/ Resolve(c)
           \/ OpOk(c) \/ Reconnect(c) \/ DiesAgain(c) \/ CommitUnknown(c) \/ OpError(c)

SessionNext == \/ \E c \in Callers : Step(c) \/ Panic(c) \/ GiveUp(c)
        \/ Break
        \/ ComesBack

SessionSpec == SessionInit /\ [][SessionNext]_sessionVars

\* Handlers and dials run to their end (statements and dials have deadlines), /healthz is
\* polled, and PostgreSQL is brought back up.
Fairness == WF_sessionVars(ComesBack) /\ \A c \in Callers : WF_sessionVars(Step(c))

FairSpec == SessionSpec /\ Fairness

----------------------------------------------------------------------------
(* Properties *)

\* "Replaying the transaction could duplicate a state transition" (postgres_store.rs:324):
\* the retry never applies a request twice.
AtMostOnce == \A c \in Callers : applied[c] <= 1

\* A write answered 2xx is in the database, across retries and lost connections.
OkMeansApplied == \A c \in Writers : verdict[c] = "ok" => applied[c] = 1

\* "The server answered and refused" (client.rs:61): a request of one transaction that got
\* a 4xx was not applied and never will be.
RefusedMeansNotApplied ==
    \A c \in Writers \ ReadsBack :
        verdict[c] = "rejected" => applied[c] = 0 /\ tx[c] = "none"

\* "The single-writer model (one connection serialized behind one mutex)"
\* (postgres_store.rs:235): one connection, in the slot or with one caller, or one dial.
OneConnection ==
    LET owners == {c \in Callers : hand[c] # "none" \/ pc[c] \in {"dial", "redial"}}
    IN  Cardinality(owners) + (IF slot = "none" THEN 0 ELSE 1) <= 1

\* "/healthz recovers when PostgreSQL comes back" (postgres_store.rs:271): once the faults
\* are over, the probes succeed, and go on succeeding.
HealthRecovers ==
    \A p \in Probes : /\ []<>(verdict[p] = "ok")
                      /\ <>[](verdict[p] \in {"none", "ok"})

\* "A write did not apply" (client.rs:58), "`offline: <op> not applied (no server)`"
\* (README.md:342): a write reported as unavailable was not applied.
\* Refuted (README.md of this directory, Disagreements).
UnavailableMeansNotApplied ==
    \A c \in Writers : verdict[c] = "unavailable" => applied[c] = 0
==============================================================================
