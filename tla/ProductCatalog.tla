--------------------------- MODULE ProductCatalog ---------------------------
(***************************************************************************)
(* ProductCatalog: products read through a Redis cache.  Clients is the    *)
(* set of calls of get and updatePrice in progress at once, in one process *)
(* or several; each runs up to its next await and waits there while the    *)
(* others run.                                                             *)
(*                                                                         *)
(*   get:          "get" -> hit, or "find" -> not found, or "set" -> done  *)
(*   updatePrice:  "update" -> "del" -> done                               *)
(*                                                                         *)
(* Products are told apart by how often they have changed: version 0 is a  *)
(* product that does not exist, 1 the one created.  A key of Redis is the  *)
(* sku it is made from.                                                    *)
(***************************************************************************)
EXTENDS Integers, FiniteSets

CONSTANTS Clients, Skus,
          NoEntry,     \* what the cache holds for a key it does not hold
          Failed,      \* the answer of a call that rejects
          MaxVersion   \* bound of the model: how often a product changes

ASSUME CatalogAssumption ==
    /\ NoEntry \notin [product: Nat, expires: BOOLEAN]
    /\ Failed \notin Nat
    /\ MaxVersion \in Nat

VARIABLES source,   \* the version of each product in the database
          cache,    \* the entry of each product in Redis
          pc,       \* what each client's call waits for
          call,     \* what it was asked, and what it has read or written
          answer,   \* what it returned, until the next call
          settled,  \* history: the newest version whose updatePrice has returned
          tainted   \* history: skus whose entry no pending DEL will remove, though it may be old

vars == <<source, cache, pc, call, answer, settled, tainted>>

Missing == 0

Entry == [product: Nat, expires: BOOLEAN]

\* since: `settled` when the call arrived.  late: a change of the product has ended
\* (its DEL done or lost) since this call read it.
Call == [sku: Skus, product: Nat, since: Nat, late: BOOLEAN]

NewCall(sku, since) ==
    [sku |-> sku, product |-> Missing, since |-> since, late |-> FALSE]

Getting  == {"get", "find", "set"}
Updating == {"update", "del"}

On(c, sku, where) == pc[c] \in where /\ call[c].sku = sku

\* What does not exist is never in the cache, nor on its way there.
TypeOK ==
    /\ source \in [Skus -> Nat]
    /\ cache \in [Skus -> Entry \cup {NoEntry}]
    /\ pc \in [Clients -> Getting \cup Updating \cup {"idle"}]
    /\ call \in [Clients -> Call]
    /\ answer \in [Clients -> Nat \cup {Failed}]
    /\ settled \in [Skus -> Nat]
    /\ tainted \subseteq Skus
    /\ \A sku \in Skus : cache[sku] # NoEntry => cache[sku].product # Missing
    /\ \A c \in Clients : pc[c] = "set" => call[c].product # Missing

Init ==
    /\ source = [sku \in Skus |-> Missing]
    /\ cache = [sku \in Skus |-> NoEntry]
    /\ pc = [c \in Clients |-> "idle"]
    /\ call \in [Clients -> {NewCall(sku, Missing) : sku \in Skus}]
    /\ answer = [c \in Clients |-> Failed]
    /\ settled = [sku \in Skus |-> Missing]
    /\ tainted = {}

-----------------------------------------------------------------------------
Begin(c, where, sku) ==
    /\ pc[c] = "idle"
    /\ pc' = [pc EXCEPT ![c] = where]
    /\ call' = [call EXCEPT ![c] = NewCall(sku, settled[sku])]
    /\ answer' = [answer EXCEPT ![c] = Failed]

WaitFor(c, where, product) ==
    /\ pc' = [pc EXCEPT ![c] = where]
    /\ call' = [call EXCEPT ![c].product = product]
    /\ UNCHANGED answer

Return(c, result) ==
    /\ pc' = [pc EXCEPT ![c] = "idle"]
    /\ answer' = [answer EXCEPT ![c] = result]

Over(c) == NewCall(call[c].sku, Missing)

Forget(c) == call' = [call EXCEPT ![c] = Over(c)]

\* c's change of sku ends: whoever waits to cache the product may have read it before.
ChangeEnds(c, sku, entryRemoved) ==
    /\ call' = [other \in Clients |->
                   IF other = c THEN Over(c)
                   ELSE [call[other] EXCEPT !.late = @ \/ On(other, sku, {"set"})]]
    /\ tainted' = IF entryRemoved \/ cache[sku] = NoEntry THEN tainted \ {sku}
                                                          ELSE tainted \cup {sku}

-----------------------------------------------------------------------------
(***************************************************************************)
(* get.                                                                    *)
(***************************************************************************)
Get(c, sku) ==
    /\ Begin(c, "get", sku)
    /\ UNCHANGED <<source, cache, settled, tainted>>

ReadCache(c) ==
    /\ pc[c] = "get"
    /\ LET cached == cache[call[c].sku]
       IN  IF cached # NoEntry
           THEN Return(c, cached.product) /\ Forget(c)
           ELSE WaitFor(c, "find", Missing)
    /\ UNCHANGED <<source, cache, settled, tainted>>

\* Mutant: what is not found is cached too.
FindToCache(c) ==
    /\ pc[c] = "find"
    /\ WaitFor(c, "set", source[call[c].sku])
    /\ UNCHANGED <<source, cache, settled, tainted>>

Find(c) ==
    /\ pc[c] = "find"
    /\ LET product == source[call[c].sku]
       IN  IF product # Missing
           THEN WaitFor(c, "set", product)
           ELSE Return(c, Missing) /\ Forget(c)
    /\ UNCHANGED <<source, cache, settled, tainted>>

\* Mutant: SET without EX.
PutForEver(c) ==
    LET sku == call[c].sku
    IN  /\ cache' = [cache EXCEPT ![sku] = [product |-> call[c].product, expires |-> FALSE]]
        /\ tainted' = IF call[c].late THEN tainted \cup {sku} ELSE tainted \ {sku}

\* SET sku product EX ttlSeconds.
Put(c) ==
    LET sku == call[c].sku
    IN  /\ cache' = [cache EXCEPT ![sku] = [product |-> call[c].product, expires |-> TRUE]]
        /\ tainted' = IF call[c].late THEN tainted \cup {sku} ELSE tainted \ {sku}

SetCache(c) ==
    /\ pc[c] = "set"
    /\ Put(c)
    /\ Return(c, call[c].product)
    /\ Forget(c)
    /\ UNCHANGED <<source, settled>>

\* A SET that rejects may have been applied; get rejects with it.
SetFails(c) ==
    /\ pc[c] = "set"
    /\ Put(c) \/ UNCHANGED <<cache, tainted>>
    /\ Return(c, Failed)
    /\ Forget(c)
    /\ UNCHANGED <<source, settled>>

ReadFails(c) ==
    /\ pc[c] \in {"get", "find"}
    /\ Return(c, Failed)
    /\ Forget(c)
    /\ UNCHANGED <<source, cache, settled, tainted>>

-----------------------------------------------------------------------------
(***************************************************************************)
(* updatePrice.                                                            *)
(***************************************************************************)
Newest(a, b) == IF a < b THEN b ELSE a

\* The bound on versions is met here, so that no call is stuck at it later.
UpdatePrice(c, sku) ==
    /\ Newest(source[sku], 1)
          + Cardinality({other \in Clients : On(other, sku, {"update"})}) < MaxVersion
    /\ Begin(c, "update", sku)
    /\ UNCHANGED <<source, cache, settled, tainted>>

\* The UPDATE touches no row if the product does not exist.
NextVersion(sku) == IF source[sku] = Missing THEN Missing ELSE source[sku] + 1

UpdateSource(c) ==
    /\ pc[c] = "update"
    /\ LET sku == call[c].sku
       IN  /\ source' = [source EXCEPT ![sku] = NextVersion(sku)]
           /\ WaitFor(c, "del", NextVersion(sku))
    /\ UNCHANGED <<cache, settled, tainted>>

\* The UPDATE rejects, applied or not; the key is not deleted.
UpdateFails(c) ==
    /\ pc[c] = "update"
    /\ LET sku == call[c].sku
       IN  \/ /\ source' = [source EXCEPT ![sku] = NextVersion(sku)]
              /\ ChangeEnds(c, sku, FALSE)
           \/ Forget(c) /\ UNCHANGED <<source, tainted>>
    /\ Return(c, Failed)
    /\ UNCHANGED <<cache, settled>>

\* Mutant: another key is deleted than the one that is read.
DelOther(c) ==
    /\ pc[c] = "del"
    /\ LET sku == call[c].sku
       IN  /\ settled' = [settled EXCEPT ![sku] = Newest(@, call[c].product)]
           /\ ChangeEnds(c, sku, TRUE)
    /\ Return(c, call[c].product)
    /\ UNCHANGED <<source, cache>>

DelCache(c) ==
    /\ pc[c] = "del"
    /\ LET sku == call[c].sku
       IN  /\ cache' = [cache EXCEPT ![sku] = NoEntry]
           /\ settled' = [settled EXCEPT ![sku] = Newest(@, call[c].product)]
           /\ ChangeEnds(c, sku, TRUE)
    /\ Return(c, call[c].product)
    /\ UNCHANGED source

\* The DEL rejects, applied or not, or the process stops before it: the price has changed.
DelFails(c) ==
    /\ pc[c] = "del"
    /\ LET sku == call[c].sku
       IN  \/ cache' = [cache EXCEPT ![sku] = NoEntry] /\ ChangeEnds(c, sku, TRUE)
           \/ UNCHANGED cache /\ ChangeEnds(c, sku, FALSE)
    /\ Return(c, Failed)
    /\ UNCHANGED <<source, settled>>

-----------------------------------------------------------------------------
(***************************************************************************)
(* Redis and the database.                                                 *)
(***************************************************************************)
\* The time to live of an entry runs out.
Expire(sku) ==
    /\ cache[sku] # NoEntry
    /\ cache[sku].expires
    /\ cache' = [cache EXCEPT ![sku] = NoEntry]
    /\ tainted' = tainted \ {sku}
    /\ UNCHANGED <<source, pc, call, answer, settled>>

\* Something else creates the product.
AddProduct(sku) ==
    /\ source[sku] = Missing
    /\ source' = [source EXCEPT ![sku] = 1]
    /\ settled' = [settled EXCEPT ![sku] = 1]
    /\ UNCHANGED <<cache, pc, call, answer, tainted>>

-----------------------------------------------------------------------------
Resume(c) ==
    \/ ReadCache(c)
    \/ Find(c)
    \/ SetCache(c)
    \/ SetFails(c)
    \/ ReadFails(c)
    \/ UpdateSource(c)
    \/ UpdateFails(c)
    \/ DelCache(c)
    \/ DelFails(c)

Next ==
    \/ \E c \in Clients, sku \in Skus : Get(c, sku) \/ UpdatePrice(c, sku)
    \/ \E c \in Clients : Resume(c)
    \/ \E sku \in Skus : Expire(sku) \/ AddProduct(sku)

\* Awaited promises settle, and Redis removes an entry when its time is over.
Fairness ==
    /\ \A c \in Clients : WF_vars(Resume(c))
    /\ \A sku \in Skus : WF_vars(Expire(sku))

Spec == Init /\ [][Next]_vars /\ Fairness

-----------------------------------------------------------------------------
(***************************************************************************)
(* Properties.                                                             *)
(***************************************************************************)
Stale(sku) == cache[sku] # NoEntry /\ cache[sku].product < source[sku]

(***************************************************************************)
(* The cache holds an old product only between the UPDATE and the DEL of   *)
(* an updatePrice (lines 39-40), after one of them failed, or after a get  *)
(* that read before a change and filled the cache after it (lines 32-34).  *)
(* Nothing else makes an entry stale.                                      *)
(***************************************************************************)
StaleIsExplained ==
    \A sku \in Skus : Stale(sku) =>
        sku \in tainted \/ \E c \in Clients : On(c, sku, {"del"})

(***************************************************************************)
(* A product that exists when get is called is found: the answer that it   *)
(* does not exist is never a remembered one (line 33).                     *)
(***************************************************************************)
FoundOnceCreated ==
    [][\A c \in Clients :
          pc[c] \in Getting /\ pc'[c] = "idle" /\ call[c].since # Missing
              => answer'[c] # Missing]_vars

(***************************************************************************)
(* When prices stop changing (here: at MaxVersion, or when nobody updates) *)
(* the cache agrees with the database in the end and for good: the time to *)
(* live heals lost deletes and late fills.                                 *)
(***************************************************************************)
CoherentInTheEnd ==
    \A sku \in Skus : <>[](\A c \in Clients : ~ On(c, sku, {"update"})) => <>[] ~ Stale(sku)

=============================================================================
