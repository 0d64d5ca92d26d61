---------------------------- MODULE NotesLedger ----------------------------
(***************************************************************************)
(* What NotesRepository promises, whatever happens between a caller and    *)
(* MySQL: "Saves all the notes or none of them" (notes-repository.ts:28).  *)
(* The titles of a call become part of the ledger in one step or never,    *)
(* and what the caller is told fits what became of them.                   *)
(***************************************************************************)
EXTENDS Integers, Sequences

CONSTANTS Callers,  \* whatever calls the repository
          Batches   \* the titles that one call saves together, in their order

VARIABLES titles,  \* the titles of the notes that are saved
          state,   \* of each caller's call: it runs, or its answer
          batch,   \* the titles it saves
          saved    \* the callers whose titles are saved

vars == <<titles, state, batch, saved>>

Answers == {"ok", "duplicate", "refused", "lost"}

SavedBy(b) == {b[i] : i \in DOMAIN b}
Repeats(b) == \E i, j \in DOMAIN b : i # j /\ b[i] = b[j]

Init ==
    /\ titles = {}
    /\ state = [c \in Callers |-> "idle"]
    /\ batch = [c \in Callers |-> << >>]
    /\ saved = {}

Call(c) ==
    /\ state[c] = "idle"
    /\ state' = [state EXCEPT ![c] = "running"]
    /\ \E b \in Batches : batch' = [batch EXCEPT ![c] = b]
    /\ UNCHANGED <<titles, saved>>

\* All the titles of the call, none of them there before.
Save(c) ==
    /\ state[c] = "running"
    /\ c \notin saved
    /\ ~ Repeats(batch[c])
    /\ SavedBy(batch[c]) \cap titles = {}
    /\ titles' = titles \cup SavedBy(batch[c])
    /\ saved' = saved \cup {c}
    /\ UNCHANGED <<state, batch>>

(***************************************************************************)
(* A call that resolves has saved its notes.  One that rejects has saved   *)
(* none, unless its connection was lost: then nobody can tell.  It rejects *)
(* as a duplicate only if a title was really taken.                        *)
(***************************************************************************)
Fits(c, answer) ==
    /\ answer = "ok" => c \in saved \/ batch[c] = << >>
    /\ answer \in {"duplicate", "refused"} => c \notin saved
    /\ answer = "duplicate" => Repeats(batch[c]) \/ SavedBy(batch[c]) \cap titles # {}

Answer(c) ==
    /\ state[c] = "running"
    /\ \E answer \in Answers :
          /\ Fits(c, answer)
          /\ state' = [state EXCEPT ![c] = answer]
    /\ UNCHANGED <<titles, batch, saved>>

Return(c) ==
    /\ state[c] \in Answers
    /\ state' = [state EXCEPT ![c] = "idle"]
    /\ batch' = [batch EXCEPT ![c] = << >>]
    /\ saved' = saved \ {c}
    /\ UNCHANGED titles

\* The process of the callers stops: the calls in progress are never answered.
Stop ==
    /\ state' = [c \in Callers |-> "idle"]
    /\ batch' = [c \in Callers |-> << >>]
    /\ saved' = {}
    /\ UNCHANGED titles

Next ==
    \/ \E c \in Callers : Call(c) \/ Save(c) \/ Answer(c) \/ Return(c)
    \/ Stop

Spec == Init /\ [][Next]_vars
=============================================================================
