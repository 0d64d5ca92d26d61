------------------------ MODULE ProductCatalogProofs ------------------------
(***************************************************************************)
(* Theorems about ProductCatalog, for any number of clients and products   *)
(* and any number of changes: its types, and that an old entry has one of  *)
(* the causes StaleIsExplained names.                                      *)
(***************************************************************************)
EXTENDS ProductCatalog, TLAPS

-----------------------------------------------------------------------------
(***************************************************************************)
(* What the steps of a call write.                                         *)
(***************************************************************************)
CallsTyped ==
    /\ pc \in [Clients -> Getting \cup Updating \cup {"idle"}]
    /\ call \in [Clients -> Call]
    /\ answer \in [Clients -> Nat \cup {Failed}]

LEMMA BeginEffect ==
    ASSUME TypeOK, NEW c \in Clients, NEW sku \in Skus, NEW where \in {"get", "update"},
           Begin(c, where, sku)
    PROVE  /\ CallsTyped'
           /\ \A other \in Clients \ {c} : pc'[other] = pc[other] /\ call'[other] = call[other]
           /\ pc[c] = "idle" /\ pc'[c] = where
<1>1. NewCall(sku, settled[sku]) \in Call
  BY DEF TypeOK, NewCall, Call, Missing
<1> QED
  BY <1>1 DEF Begin, TypeOK, CallsTyped, Getting, Updating

LEMMA WaitEffect ==
    ASSUME TypeOK, NEW c \in Clients, NEW where \in {"find", "set", "del"}, NEW product \in Nat,
           WaitFor(c, where, product)
    PROVE  /\ CallsTyped'
           /\ \A other \in Clients \ {c} : pc'[other] = pc[other] /\ call'[other] = call[other]
           /\ pc'[c] = where
           /\ call'[c].product = product
           /\ call'[c].sku = call[c].sku
<1>1. call[c] \in Call /\ call \in [Clients -> Call]
  BY DEF TypeOK
<1>2. call' = [call EXCEPT ![c] = [call[c] EXCEPT !.product = product]]
  BY <1>1 DEF WaitFor
<1>3. [call[c] EXCEPT !.product = product] \in Call
  BY <1>1 DEF Call
<1>4. /\ call' \in [Clients -> Call]
      /\ call'[c] = [call[c] EXCEPT !.product = product]
      /\ \A other \in Clients \ {c} : call'[other] = call[other]
  BY <1>1, <1>2, <1>3
<1>5. call'[c].product = product /\ call'[c].sku = call[c].sku
  BY <1>1, <1>4 DEF Call
<1>6. /\ pc' \in [Clients -> Getting \cup Updating \cup {"idle"}]
      /\ pc'[c] = where
      /\ \A other \in Clients \ {c} : pc'[other] = pc[other]
  BY DEF WaitFor, TypeOK, Getting, Updating
<1>7. answer' \in [Clients -> Nat \cup {Failed}]
  BY DEF WaitFor, TypeOK
<1> QED
  BY <1>4, <1>5, <1>6, <1>7 DEF CallsTyped

LEMMA OverTyped ==
    ASSUME TypeOK, NEW c \in Clients
    PROVE  Over(c) \in Call
  BY DEF TypeOK, Over, NewCall, Call, Missing

LEMMA ReturnEffect ==
    ASSUME TypeOK, NEW c \in Clients, NEW result \in Nat \cup {Failed},
           Return(c, result), Forget(c)
    PROVE  /\ CallsTyped'
           /\ \A other \in Clients \ {c} : pc'[other] = pc[other] /\ call'[other] = call[other]
           /\ pc'[c] = "idle"
<1>1. Over(c) \in Call
  BY OverTyped
<1>2. /\ call' \in [Clients -> Call]
      /\ \A other \in Clients \ {c} : call'[other] = call[other]
  BY <1>1 DEF Forget, TypeOK
<1> QED
  BY <1>2 DEF Return, TypeOK, CallsTyped

LEMMA ChangeEffect ==
    ASSUME TypeOK, NEW c \in Clients, NEW sku \in Skus, NEW removed \in BOOLEAN,
           NEW result \in Nat \cup {Failed}, Return(c, result), ChangeEnds(c, sku, removed)
    PROVE  /\ CallsTyped'
           /\ \A other \in Clients \ {c} :
                 /\ pc'[other] = pc[other]
                 /\ call'[other].sku = call[other].sku
                 /\ call'[other].product = call[other].product
                 /\ call'[other].late = (call[other].late \/ On(other, sku, {"set"}))
           /\ pc'[c] = "idle"
           /\ tainted' \subseteq Skus
           /\ \A key \in Skus \ {sku} : key \in tainted => key \in tainted'
           /\ ~ removed /\ cache[sku] # NoEntry => sku \in tainted'
<1>1. ASSUME NEW other \in Clients \ {c}
      PROVE  /\ call'[other] \in Call
             /\ call'[other].sku = call[other].sku
             /\ call'[other].product = call[other].product
             /\ call'[other].late = (call[other].late \/ On(other, sku, {"set"}))
  <2>1. call[other] \in Call
    BY DEF TypeOK
  <2>2. call'[other] = [call[other] EXCEPT !.late = @ \/ On(other, sku, {"set"})]
    BY DEF ChangeEnds
  <2>3. On(other, sku, {"set"}) \in BOOLEAN
    BY DEF On
  <2> QED
    BY <2>1, <2>2, <2>3 DEF Call
<1>2. call'[c] \in Call
  BY OverTyped DEF ChangeEnds
<1>3. call' \in [Clients -> Call]
  BY <1>1, <1>2 DEF ChangeEnds
<1>4. /\ pc' \in [Clients -> Getting \cup Updating \cup {"idle"}]
      /\ answer' \in [Clients -> Nat \cup {Failed}]
      /\ pc'[c] = "idle"
      /\ \A other \in Clients \ {c} : pc'[other] = pc[other]
  BY DEF Return, TypeOK
<1>5. /\ tainted' \subseteq Skus
      /\ \A key \in Skus \ {sku} : key \in tainted => key \in tainted'
      /\ ~ removed /\ cache[sku] # NoEntry => sku \in tainted'
  BY DEF ChangeEnds, TypeOK
<1> QED
  BY <1>1, <1>3, <1>4, <1>5 DEF CallsTyped
-----------------------------------------------------------------------------
(***************************************************************************)
(* The type invariant.                                                     *)
(***************************************************************************)
StoresTyped ==
    /\ source \in [Skus -> Nat]
    /\ cache \in [Skus -> Entry \cup {NoEntry}]
    /\ settled \in [Skus -> Nat]
    /\ tainted \subseteq Skus
    /\ \A sku \in Skus : cache[sku] # NoEntry => cache[sku].product # Missing

SetsFound == \A c \in Clients : pc[c] = "set" => call[c].product # Missing

LEMMA TypeParts ==
    /\ TypeOK <=> CallsTyped /\ StoresTyped /\ SetsFound
    /\ TypeOK' <=> CallsTyped' /\ StoresTyped' /\ SetsFound'
  BY DEF TypeOK, CallsTyped, StoresTyped, SetsFound

LEMMA PutTyped ==
    ASSUME TypeOK, NEW c \in Clients, pc[c] = "set", Put(c), UNCHANGED <<source, settled>>
    PROVE  StoresTyped'
<1> DEFINE entry == [product |-> call[c].product, expires |-> TRUE]
<1>1. call[c] \in Call /\ call[c].product # Missing
  BY DEF TypeOK
<1>2. call[c].sku \in Skus /\ call[c].product \in Nat
  BY <1>1 DEF Call
<1>3. entry \in Entry
  BY <1>2 DEF Entry
<1>4. cache' = [cache EXCEPT ![call[c].sku] = entry]
  BY DEF Put
<1>5. tainted' \subseteq Skus
  BY <1>2 DEF Put, TypeOK
<1> QED
  BY <1>1, <1>2, <1>3, <1>4, <1>5 DEF TypeOK, StoresTyped

LEMMA TypeStep ==
    ASSUME CatalogAssumption, TypeOK, [Next]_vars
    PROVE  TypeOK'
<1> USE DEF Missing
<1>1. /\ \A c \in Clients : call[c] \in Call /\ call[c].sku \in Skus /\ call[c].product \in Nat
      /\ CallsTyped /\ StoresTyped /\ SetsFound
  BY TypeParts DEF TypeOK, Call
<1>2. \A sku \in Skus : NextVersion(sku) \in Nat
  BY DEF NextVersion, TypeOK
<1>3. ASSUME NEW c \in Clients, NEW sku \in Skus, Get(c, sku) \/ UpdatePrice(c, sku)
      PROVE  TypeOK'
  <2>1. CallsTyped' /\ SetsFound'
    BY <1>1, <1>3, BeginEffect DEF Get, UpdatePrice, SetsFound
  <2>2. StoresTyped'
    BY <1>1, <1>3 DEF Get, UpdatePrice, StoresTyped
  <2> QED
    BY <2>1, <2>2, TypeParts
<1>4. ASSUME NEW c \in Clients, ReadCache(c)
      PROVE  TypeOK'
  <2>1. StoresTyped'
    BY <1>1, <1>4 DEF ReadCache, StoresTyped
  <2>2. CASE cache[call[c].sku] # NoEntry
    <3>1. cache[call[c].sku].product \in Nat
      BY <1>1, <2>2 DEF StoresTyped, Entry
    <3>2. CallsTyped' /\ SetsFound'
      BY <1>1, <1>4, <2>2, <3>1, ReturnEffect DEF ReadCache, SetsFound
    <3> QED
      BY <2>1, <3>2, TypeParts
  <2>3. CASE cache[call[c].sku] = NoEntry
    <3>1. CallsTyped' /\ SetsFound'
      BY <1>1, <1>4, <2>3, WaitEffect DEF ReadCache, SetsFound
    <3> QED
      BY <2>1, <3>1, TypeParts
  <2> QED
    BY <2>2, <2>3
<1>5. ASSUME NEW c \in Clients, Find(c)
      PROVE  TypeOK'
  <2>1. StoresTyped'
    BY <1>1, <1>5 DEF Find, StoresTyped
  <2>2. source[call[c].sku] \in Nat
    BY <1>1 DEF StoresTyped
  <2>3. CASE source[call[c].sku] # Missing
    <3>1. CallsTyped' /\ SetsFound'
      BY <1>1, <1>5, <2>2, <2>3, WaitEffect DEF Find, SetsFound
    <3> QED
      BY <2>1, <3>1, TypeParts
  <2>4. CASE source[call[c].sku] = Missing
    <3>1. CallsTyped' /\ SetsFound'
      BY <1>1, <1>5, <2>2, <2>4, ReturnEffect DEF Find, SetsFound
    <3> QED
      BY <2>1, <3>1, TypeParts
  <2> QED
    BY <2>3, <2>4
<1>6. ASSUME NEW c \in Clients, SetCache(c) \/ SetFails(c)
      PROVE  TypeOK'
  <2>1. StoresTyped'
    BY <1>1, <1>6, PutTyped DEF SetCache, SetFails, StoresTyped
  <2>2. CallsTyped' /\ SetsFound'
    BY <1>1, <1>6, ReturnEffect DEF SetCache, SetFails, SetsFound
  <2> QED
    BY <2>1, <2>2, TypeParts
<1>7. ASSUME NEW c \in Clients, ReadFails(c)
      PROVE  TypeOK'
  <2>1. StoresTyped'
    BY <1>1, <1>7 DEF ReadFails, StoresTyped
  <2>2. CallsTyped' /\ SetsFound'
    BY <1>1, <1>7, ReturnEffect DEF ReadFails, SetsFound
  <2> QED
    BY <2>1, <2>2, TypeParts
<1>8. ASSUME NEW c \in Clients, UpdateSource(c)
      PROVE  TypeOK'
  <2>1. StoresTyped'
    BY <1>1, <1>2, <1>8 DEF UpdateSource, StoresTyped
  <2>2. CallsTyped' /\ SetsFound'
    BY <1>1, <1>2, <1>8, WaitEffect DEF UpdateSource, SetsFound
  <2> QED
    BY <2>1, <2>2, TypeParts
<1>9. ASSUME NEW c \in Clients, UpdateFails(c)
      PROVE  TypeOK'
  <2>1. CASE Forget(c) /\ UNCHANGED <<source, tainted>>
    <3>1. StoresTyped'
      BY <1>1, <1>9, <2>1 DEF UpdateFails, StoresTyped
    <3>2. CallsTyped' /\ SetsFound'
      BY <1>1, <1>9, <2>1, ReturnEffect DEF UpdateFails, SetsFound
    <3> QED
      BY <3>1, <3>2, TypeParts
  <2>2. CASE /\ source' = [source EXCEPT ![call[c].sku] = NextVersion(call[c].sku)]
             /\ ChangeEnds(c, call[c].sku, FALSE)
    <3>1. CallsTyped' /\ SetsFound' /\ tainted' \subseteq Skus
      BY <1>1, <1>9, <2>2, ChangeEffect DEF UpdateFails, SetsFound
    <3>2. StoresTyped'
      BY <1>1, <1>2, <1>9, <2>2, <3>1 DEF UpdateFails, StoresTyped
    <3> QED
      BY <3>1, <3>2, TypeParts
  <2> QED
    BY <1>9, <2>1, <2>2 DEF UpdateFails
<1>10. ASSUME NEW c \in Clients, DelCache(c) \/ DelFails(c)
       PROVE  TypeOK'
  <2>1. \E removed \in BOOLEAN, result \in Nat \cup {Failed} :
           Return(c, result) /\ ChangeEnds(c, call[c].sku, removed)
    BY <1>1, <1>10 DEF DelCache, DelFails
  <2>2. CallsTyped' /\ SetsFound' /\ tainted' \subseteq Skus
    BY <1>1, <2>1, ChangeEffect DEF SetsFound
  <2>3. /\ cache' \in {cache, [cache EXCEPT ![call[c].sku] = NoEntry]}
        /\ source' = source
    BY <1>10 DEF DelCache, DelFails
  <2>4. settled' \in [Skus -> Nat]
    BY <1>1, <1>10 DEF DelCache, DelFails, StoresTyped, Newest
  <2>5. StoresTyped'
    BY <1>1, <2>2, <2>3, <2>4 DEF StoresTyped
  <2> QED
    BY <2>2, <2>5, TypeParts
<1>11. ASSUME NEW sku \in Skus, Expire(sku) \/ AddProduct(sku)
       PROVE  TypeOK'
  <2>1. CallsTyped' /\ SetsFound'
    BY <1>1, <1>11 DEF Expire, AddProduct, CallsTyped, SetsFound
  <2>2. StoresTyped'
    BY <1>1, <1>11 DEF Expire, AddProduct, StoresTyped
  <2> QED
    BY <2>1, <2>2, TypeParts
<1>12. CASE UNCHANGED vars
  BY <1>12 DEF vars, TypeOK
<1> QED
  BY <1>3, <1>4, <1>5, <1>6, <1>7, <1>8, <1>9, <1>10, <1>11, <1>12 DEF Next, Resume

LEMMA TypeInit == ASSUME CatalogAssumption, Init PROVE TypeOK
<1>1. \A sku \in Skus : NewCall(sku, Missing) \in Call
  BY DEF NewCall, Call, Missing
<1>2. call \in [Clients -> {NewCall(sku, Missing) : sku \in Skus}]
  BY DEF Init
<1>3. call \in [Clients -> Call]
  BY <1>1, <1>2
<1>4. CallsTyped /\ SetsFound
  BY <1>3 DEF Init, CallsTyped, SetsFound
<1>5. StoresTyped
  BY DEF Init, StoresTyped, Missing
<1> QED
  BY <1>4, <1>5, TypeParts

(***************************************************************************)
(* The variables keep their types, and what does not exist is never        *)
(* cached.                                                                 *)
(***************************************************************************)
THEOREM TypeCorrect == Spec => []TypeOK
<1>1. Init => TypeOK
  BY TypeInit, CatalogAssumption
<1>2. TypeOK /\ [Next]_vars => TypeOK'
  BY TypeStep, CatalogAssumption
<1> QED
  BY <1>1, <1>2, PTL DEF Spec
-----------------------------------------------------------------------------
(***************************************************************************)
(* Why an entry is old.  StaleIsExplained is not inductive: a get about to *)
(* fill the cache carries what may become a stale entry.  FillsExplained   *)
(* says of that product what the invariant says of an entry.               *)
(***************************************************************************)
ChangePending(sku) == \E c \in Clients : On(c, sku, {"del"})

FillsExplained ==
    \A c \in Clients, sku \in Skus :
        On(c, sku, {"set"}) /\ call[c].product < source[sku]
            => call[c].late \/ ChangePending(sku)

EntryExplained(sku) == Stale(sku) => sku \in tainted \/ ChangePending(sku)

StaleInv == /\ TypeOK
            /\ FillsExplained
            /\ \A sku \in Skus : EntryExplained(sku)

\* A step that moves only c, changes no product and ends no change.
LEMMA OthersWait ==
    ASSUME StaleInv, TypeOK', NEW c \in Clients,
           \A other \in Clients \ {c} : pc'[other] = pc[other] /\ call'[other] = call[other],
           source' = source,
           pc[c] # "del",
           pc'[c] = "set" => call'[c].product = source[call'[c].sku]
    PROVE  /\ FillsExplained'
           /\ \A sku \in Skus : ChangePending(sku) => ChangePending(sku)'
<1>1. ASSUME NEW sku \in Skus, ChangePending(sku)
      PROVE  ChangePending(sku)'
  <2>1. PICK u \in Clients : pc[u] = "del" /\ call[u].sku = sku
    BY <1>1 DEF ChangePending, On
  <2>2. u \in Clients \ {c}
    BY <2>1
  <2>3. pc'[u] = "del" /\ call'[u].sku = sku
    BY <2>1, <2>2
  <2> QED
    BY <2>3 DEF ChangePending, On
<1>2. ASSUME NEW other \in Clients, NEW sku \in Skus, pc'[other] = "set",
             call'[other].sku = sku, call'[other].product < source[sku]
      PROVE  call'[other].late \/ ChangePending(sku)'
  <2>1. source[sku] \in Nat
    BY DEF StaleInv, TypeOK
  <2>2. other # c
    BY <1>2, <2>1
  <2>3. pc[other] = "set" /\ call'[other] = call[other]
    BY <1>2, <2>2
  <2>4. call[other].late \/ ChangePending(sku)
    BY <1>2, <2>3 DEF StaleInv, FillsExplained, On
  <2> QED
    BY <1>1, <2>3, <2>4
<1> QED
  BY <1>1, <1>2 DEF FillsExplained, On

\* The entries where the step leaves the cache alone, or empties it.
LEMMA EntriesKept ==
    ASSUME StaleInv, source' = source, NEW sku \in Skus,
           \/ cache'[sku] = NoEntry
           \/ cache'[sku] = cache[sku] /\ (sku \in tainted => sku \in tainted'),
           ChangePending(sku) => ChangePending(sku)'
    PROVE  EntryExplained(sku)'
  BY DEF StaleInv, EntryExplained, Stale

LEMMA FillStep ==
    ASSUME CatalogAssumption, StaleInv, TypeOK', NEW c \in Clients, pc[c] = "set", Put(c),
           source' = source,
           \A sku \in Skus : ChangePending(sku) => ChangePending(sku)'
    PROVE  \A sku \in Skus : EntryExplained(sku)'
<1> DEFINE at == call[c].sku
<1>1. /\ call[c] \in Call /\ at \in Skus
      /\ call[c].product \in Nat
      /\ cache \in [Skus -> Entry \cup {NoEntry}]
  BY DEF StaleInv, TypeOK, Call
<1>2. /\ cache'[at].product = call[c].product
      /\ \A sku \in Skus \ {at} : cache'[sku] = cache[sku]
  BY <1>1 DEF Put
<1>3. /\ call[c].late => at \in tainted'
      /\ \A sku \in Skus \ {at} : sku \in tainted => sku \in tainted'
  BY DEF Put
<1>4. ASSUME NEW sku \in Skus \ {at}
      PROVE  EntryExplained(sku)'
  BY <1>2, <1>3, EntriesKept
<1>5. ASSUME NEW sku \in Skus, sku = at, Stale(sku)'
      PROVE  (sku \in tainted \/ ChangePending(sku))'
  <2>1. call[c].product < source[at]
    BY <1>2, <1>5 DEF Stale
  <2>2. call[c].late \/ ChangePending(at)
    BY <1>1, <2>1 DEF StaleInv, FillsExplained, On
  <2> QED
    BY <1>3, <1>5, <2>2
<1> QED
  BY <1>4, <1>5 DEF EntryExplained
\* A change of at by c ends: every fill of at that is under way is late.
LEMMA ChangeStep ==
    ASSUME StaleInv, TypeOK', NEW c \in Clients, NEW at \in Skus, On(c, at, Updating),
           NEW removed \in BOOLEAN, NEW result \in Nat \cup {Failed},
           Return(c, result), ChangeEnds(c, at, removed),
           \A sku \in Skus \ {at} : source'[sku] = source[sku] /\ cache'[sku] = cache[sku],
           cache'[at] = IF removed THEN NoEntry ELSE cache[at]
    PROVE  FillsExplained' /\ \A sku \in Skus : EntryExplained(sku)'
<1>1. /\ \A other \in Clients \ {c} :
            /\ pc'[other] = pc[other]
            /\ call'[other].sku = call[other].sku
            /\ call'[other].product = call[other].product
            /\ call'[other].late = (call[other].late \/ On(other, at, {"set"}))
      /\ pc'[c] = "idle"
      /\ \A sku \in Skus \ {at} : sku \in tainted => sku \in tainted'
      /\ ~ removed /\ cache[at] # NoEntry => at \in tainted'
  BY ChangeEffect DEF StaleInv
<1>2. ASSUME NEW sku \in Skus \ {at}, ChangePending(sku)
      PROVE  ChangePending(sku)'
  <2>1. PICK u \in Clients : pc[u] = "del" /\ call[u].sku = sku
    BY <1>2 DEF ChangePending, On
  <2>2. u \in Clients \ {c}
    BY <2>1 DEF On
  <2>3. pc'[u] = "del" /\ call'[u].sku = sku
    BY <1>1, <2>1, <2>2
  <2> QED
    BY <2>3 DEF ChangePending, On
<1>3. ASSUME NEW other \in Clients, NEW sku \in Skus, pc'[other] = "set",
             call'[other].sku = sku, call'[other].product < source'[sku]
      PROVE  call'[other].late \/ ChangePending(sku)'
  <2>1. other \in Clients \ {c}
    BY <1>1, <1>3
  <2>2. /\ pc[other] = "set" /\ call[other].sku = sku
        /\ call'[other].product = call[other].product
        /\ call'[other].late = (call[other].late \/ On(other, at, {"set"}))
    BY <1>1, <1>3, <2>1
  <2>3. CASE sku = at
    BY <2>2, <2>3 DEF On
  <2>4. CASE sku # at
    <3>1. call[other].late \/ ChangePending(sku)
      BY <1>3, <2>2, <2>4 DEF StaleInv, FillsExplained, On
    <3>2. CASE call[other].late
      BY <2>2, <3>2
    <3>3. CASE ChangePending(sku)
      BY <1>2, <2>4, <3>3
    <3> QED
      BY <3>1, <3>2, <3>3
  <2> QED
    BY <2>3, <2>4
<1>4. ASSUME NEW sku \in Skus, Stale(sku)'
      PROVE  (sku \in tainted \/ ChangePending(sku))'
  <2>1. CASE sku = at
    BY <1>1, <1>4, <2>1 DEF Stale
  <2>2. CASE sku # at
    <3>1. Stale(sku)
      BY <1>4, <2>2 DEF Stale
    <3>2. sku \in tainted \/ ChangePending(sku)
      BY <3>1 DEF StaleInv, EntryExplained
    <3> QED
      BY <1>1, <1>2, <2>2, <3>2
  <2> QED
    BY <2>1, <2>2
<1> QED
  BY <1>3, <1>4 DEF FillsExplained, EntryExplained, On

\* The product changes, and c is about to delete its key.
LEMMA SourceStep ==
    ASSUME CatalogAssumption, StaleInv, TypeOK', NEW c \in Clients, UpdateSource(c)
    PROVE  FillsExplained' /\ \A sku \in Skus : EntryExplained(sku)'
<1> DEFINE at == call[c].sku
<1>1. at \in Skus /\ NextVersion(at) \in Nat
  BY DEF StaleInv, TypeOK, Call, NextVersion, Missing
<1>2. /\ \A other \in Clients \ {c} : pc'[other] = pc[other] /\ call'[other] = call[other]
      /\ pc'[c] = "del" /\ call'[c].sku = at
  BY <1>1, WaitEffect DEF UpdateSource, StaleInv
<1>3. /\ \A sku \in Skus \ {at} : source'[sku] = source[sku]
      /\ cache' = cache /\ tainted' = tainted
      /\ pc[c] = "update"
  BY DEF UpdateSource, StaleInv, TypeOK
<1>4. ASSUME NEW sku \in Skus, sku = at \/ ChangePending(sku)
      PROVE  ChangePending(sku)'
  <2>1. CASE sku = at
    BY <1>2, <2>1 DEF ChangePending, On
  <2>2. CASE ChangePending(sku)
    <3>1. PICK u \in Clients : pc[u] = "del" /\ call[u].sku = sku
      BY <2>2 DEF ChangePending, On
    <3>2. u \in Clients \ {c}
      BY <1>3, <3>1
    <3>3. pc'[u] = "del" /\ call'[u].sku = sku
      BY <1>2, <3>1, <3>2
    <3> QED
      BY <3>3 DEF ChangePending, On
  <2> QED
    BY <1>4, <2>1, <2>2
<1>5. ASSUME NEW other \in Clients, NEW sku \in Skus, pc'[other] = "set",
             call'[other].sku = sku, call'[other].product < source'[sku]
      PROVE  call'[other].late \/ ChangePending(sku)'
  <2>1. other \in Clients \ {c}
    BY <1>2, <1>5
  <2>2. pc[other] = "set" /\ call'[other] = call[other]
    BY <1>2, <1>5, <2>1
  <2>3. sku # at => call[other].late \/ ChangePending(sku)
    BY <1>3, <1>5, <2>2 DEF StaleInv, FillsExplained, On
  <2> QED
    BY <1>4, <2>2, <2>3
<1>6. ASSUME NEW sku \in Skus, Stale(sku)'
      PROVE  (sku \in tainted \/ ChangePending(sku))'
  <2>1. sku # at => Stale(sku)
    BY <1>3, <1>6 DEF Stale
  <2>2. sku # at => sku \in tainted \/ ChangePending(sku)
    BY <2>1 DEF StaleInv, EntryExplained
  <2> QED
    BY <1>3, <1>4, <2>2
<1> QED
  BY <1>5, <1>6 DEF FillsExplained, EntryExplained, On

\* Nothing of a product that does not exist is in the cache or on its way there.
LEMMA AddStep ==
    ASSUME StaleInv, TypeOK', NEW at \in Skus, AddProduct(at)
    PROVE  FillsExplained' /\ \A sku \in Skus : EntryExplained(sku)'
<1>1. /\ UNCHANGED <<cache, pc, call, tainted>>
      /\ source'[at] = 1
      /\ \A sku \in Skus \ {at} : source'[sku] = source[sku]
  BY DEF AddProduct, StaleInv, TypeOK
<1>2. \A sku \in Skus : ChangePending(sku)' = ChangePending(sku)
  BY <1>1 DEF ChangePending, On
<1>3. /\ \A c \in Clients : pc[c] = "set" => call[c].product \in Nat /\ call[c].product # 0
      /\ \A sku \in Skus : cache[sku] # NoEntry => cache[sku].product \in Nat /\ cache[sku].product # 0
  BY DEF StaleInv, TypeOK, Call, Entry, Missing
<1>4. FillsExplained'
  BY <1>1, <1>2, <1>3 DEF StaleInv, FillsExplained, On
<1>5. \A sku \in Skus : EntryExplained(sku)'
  BY <1>1, <1>2, <1>3 DEF StaleInv, EntryExplained, Stale
<1> QED
  BY <1>4, <1>5
LEMMA StaleStep ==
    ASSUME CatalogAssumption, StaleInv, [Next]_vars
    PROVE  FillsExplained' /\ \A sku \in Skus : EntryExplained(sku)'
<1>1. TypeOK /\ TypeOK'
  BY TypeStep DEF StaleInv
<1>2. \A c \in Clients : call[c].sku \in Skus
  BY <1>1 DEF TypeOK, Call
<1>3. ASSUME NEW c \in Clients, pc[c] # "del",
             \A other \in Clients \ {c} : pc'[other] = pc[other] /\ call'[other] = call[other],
             pc'[c] = "set" => call'[c].product = source[call'[c].sku],
             UNCHANGED <<source, cache, tainted>>
      PROVE  FillsExplained' /\ \A sku \in Skus : EntryExplained(sku)'
  BY <1>1, <1>3, OthersWait, EntriesKept
<1>4. ASSUME NEW c \in Clients, NEW sku \in Skus, Get(c, sku) \/ UpdatePrice(c, sku)
      PROVE  FillsExplained' /\ \A key \in Skus : EntryExplained(key)'
  BY <1>1, <1>3, <1>4, BeginEffect DEF Get, UpdatePrice
<1>5. ASSUME NEW c \in Clients, ReadCache(c)
      PROVE  FillsExplained' /\ \A sku \in Skus : EntryExplained(sku)'
  <2>1. UNCHANGED <<source, cache, tainted>> /\ pc[c] = "get"
    BY <1>5 DEF ReadCache
  <2>2. CASE cache[call[c].sku] # NoEntry
    <3>1. cache[call[c].sku].product \in Nat
      BY <1>1, <1>2, <2>2 DEF TypeOK, Entry
    <3>2. Return(c, cache[call[c].sku].product) /\ Forget(c)
      BY <1>5, <2>2 DEF ReadCache
    <3> QED
      BY <1>1, <1>3, <2>1, <3>1, <3>2, ReturnEffect
  <2>3. CASE cache[call[c].sku] = NoEntry
    <3>1. WaitFor(c, "find", Missing) /\ Missing \in Nat
      BY <1>5, <2>3 DEF ReadCache, Missing
    <3> QED
      BY <1>1, <1>3, <2>1, <3>1, WaitEffect
  <2> QED
    BY <2>2, <2>3
<1>6. ASSUME NEW c \in Clients, Find(c)
      PROVE  FillsExplained' /\ \A sku \in Skus : EntryExplained(sku)'
  <2>1. UNCHANGED <<source, cache, tainted>> /\ pc[c] = "find"
    BY <1>6 DEF Find
  <2>2. source[call[c].sku] \in Nat
    BY <1>1, <1>2 DEF TypeOK
  <2>3. CASE source[call[c].sku] # Missing
    <3>1. WaitFor(c, "set", source[call[c].sku])
      BY <1>6, <2>3 DEF Find
    <3> QED
      BY <1>1, <1>3, <2>1, <2>2, <3>1, WaitEffect
  <2>4. CASE source[call[c].sku] = Missing
    <3>1. Return(c, Missing) /\ Forget(c) /\ Missing \in Nat
      BY <1>6, <2>4 DEF Find, Missing
    <3> QED
      BY <1>1, <1>3, <2>1, <3>1, ReturnEffect
  <2> QED
    BY <2>3, <2>4
<1>7. ASSUME NEW c \in Clients, SetCache(c) \/ SetFails(c)
      PROVE  FillsExplained' /\ \A sku \in Skus : EntryExplained(sku)'
  <2>1. pc[c] = "set" /\ source' = source /\ Forget(c)
    BY <1>7 DEF SetCache, SetFails
  <2>2. \E result \in Nat \cup {Failed} : Return(c, result)
    BY <1>1, <1>7 DEF SetCache, SetFails, TypeOK, Call
  <2>3. /\ \A other \in Clients \ {c} : pc'[other] = pc[other] /\ call'[other] = call[other]
        /\ pc'[c] = "idle"
    BY <1>1, <2>1, <2>2, ReturnEffect
  <2>4. FillsExplained' /\ \A sku \in Skus : ChangePending(sku) => ChangePending(sku)'
    BY <1>1, <2>1, <2>3, OthersWait
  <2>5. CASE Put(c)
    BY <1>1, <2>1, <2>4, <2>5, FillStep
  <2>6. CASE UNCHANGED <<cache, tainted>>
    BY <2>1, <2>4, <2>6, EntriesKept
  <2> QED
    BY <1>7, <2>5, <2>6 DEF SetCache, SetFails
<1>8. ASSUME NEW c \in Clients, ReadFails(c)
      PROVE  FillsExplained' /\ \A sku \in Skus : EntryExplained(sku)'
  BY <1>1, <1>3, <1>8, ReturnEffect DEF ReadFails
<1>9. ASSUME NEW c \in Clients, UpdateSource(c)
      PROVE  FillsExplained' /\ \A sku \in Skus : EntryExplained(sku)'
  BY <1>1, <1>9, SourceStep
<1>10. ASSUME NEW c \in Clients, UpdateFails(c)
       PROVE  FillsExplained' /\ \A sku \in Skus : EntryExplained(sku)'
  <2>1. CASE Forget(c) /\ UNCHANGED <<source, tainted>>
    BY <1>1, <1>3, <1>10, <2>1, ReturnEffect DEF UpdateFails
  <2>2. CASE /\ source' = [source EXCEPT ![call[c].sku] = NextVersion(call[c].sku)]
             /\ ChangeEnds(c, call[c].sku, FALSE)
    <3>1. \A sku \in Skus \ {call[c].sku} : source'[sku] = source[sku]
      BY <1>1, <2>2 DEF TypeOK
    <3>2. On(c, call[c].sku, Updating) /\ Return(c, Failed) /\ cache' = cache
      BY <1>10 DEF UpdateFails, On, Updating
    <3> QED
      BY <1>1, <1>2, <2>2, <3>1, <3>2, ChangeStep
  <2> QED
    BY <1>10, <2>1, <2>2 DEF UpdateFails
<1>11. ASSUME NEW c \in Clients, DelCache(c) \/ DelFails(c)
       PROVE  FillsExplained' /\ \A sku \in Skus : EntryExplained(sku)'
  <2>1. On(c, call[c].sku, Updating) /\ source' = source
    BY <1>11 DEF DelCache, DelFails, On, Updating
  <2>2. PICK removed \in BOOLEAN, result \in Nat \cup {Failed} :
           /\ Return(c, result)
           /\ ChangeEnds(c, call[c].sku, removed)
           /\ cache' = IF removed THEN [cache EXCEPT ![call[c].sku] = NoEntry] ELSE cache
    BY <1>1, <1>11 DEF DelCache, DelFails, TypeOK, Call
  <2>3. /\ cache'[call[c].sku] = IF removed THEN NoEntry ELSE cache[call[c].sku]
        /\ \A sku \in Skus \ {call[c].sku} : cache'[sku] = cache[sku]
    BY <1>1, <1>2, <2>2 DEF TypeOK
  <2> QED
    BY <1>1, <1>2, <2>1, <2>2, <2>3, ChangeStep
<1>12. ASSUME NEW at \in Skus, Expire(at)
       PROVE  FillsExplained' /\ \A sku \in Skus : EntryExplained(sku)'
  <2>1. UNCHANGED <<source, pc, call>>
    BY <1>12 DEF Expire
  <2>2. FillsExplained' /\ \A sku \in Skus : ChangePending(sku)' = ChangePending(sku)
    BY <2>1 DEF StaleInv, FillsExplained, ChangePending, On
  <2>3. \A sku \in Skus :
           \/ cache'[sku] = NoEntry
           \/ cache'[sku] = cache[sku] /\ (sku \in tainted => sku \in tainted')
    BY <1>1, <1>12 DEF Expire, TypeOK
  <2> QED
    BY <2>1, <2>2, <2>3, EntriesKept
<1>13. ASSUME NEW at \in Skus, AddProduct(at)
       PROVE  FillsExplained' /\ \A sku \in Skus : EntryExplained(sku)'
  BY <1>1, <1>13, AddStep
<1>14. CASE UNCHANGED vars
  BY <1>14 DEF vars, StaleInv, FillsExplained, EntryExplained, Stale, ChangePending, On
<1> QED
  BY <1>4, <1>5, <1>6, <1>7, <1>8, <1>9, <1>10, <1>11, <1>12, <1>13, <1>14 DEF Next, Resume

(***************************************************************************)
(* With any number of concurrent reads, updates and failures, an entry is  *)
(* older than its product only for one of the named reasons.               *)
(***************************************************************************)
THEOREM StaleHasACause == Spec => []StaleIsExplained
<1>1. Init => StaleInv
  <2> SUFFICES ASSUME Init PROVE StaleInv
    OBVIOUS
  <2>1. TypeOK
    BY TypeInit, CatalogAssumption
  <2> QED
    BY <2>1 DEF Init, StaleInv, FillsExplained, EntryExplained, Stale, On
<1>2. StaleInv /\ [Next]_vars => StaleInv'
  BY TypeStep, StaleStep, CatalogAssumption DEF StaleInv
<1>3. StaleInv => StaleIsExplained
  BY DEF StaleInv, EntryExplained, ChangePending, StaleIsExplained
<1> QED
  BY <1>1, <1>2, <1>3, PTL DEF Spec
-----------------------------------------------------------------------------
(***************************************************************************)
(* What exists is found.  `since` and `settled` only ever name a version   *)
(* of a product that exists, and a product never ceases to.                *)
(***************************************************************************)
Exists(sku) == source[sku] # Missing

ExistInv ==
    /\ TypeOK
    /\ \A sku \in Skus : settled[sku] # Missing => Exists(sku)
    /\ \A c \in Clients : call[c].since # Missing => Exists(call[c].sku)
    /\ \A c \in Clients : pc[c] = "del" /\ call[c].product # Missing => Exists(call[c].sku)

LEMMA ExistingStays ==
    ASSUME TypeOK, [Next]_vars
    PROVE  \A sku \in Skus : Exists(sku) => Exists(sku)'
<1>1. \A sku \in Skus : source[sku] \in Nat
  BY DEF TypeOK
<1>2. UNCHANGED source => \A sku \in Skus : Exists(sku) => Exists(sku)'
  BY DEF Exists
<1>3. ASSUME NEW c \in Clients, UpdateSource(c) \/ UpdateFails(c)
      PROVE  \A sku \in Skus : Exists(sku) => Exists(sku)'
  <2> DEFINE at == call[c].sku
  <2>1. source' = source \/ source' = [source EXCEPT ![at] = NextVersion(at)]
    BY <1>3 DEF UpdateSource, UpdateFails
  <2>2. ASSUME NEW sku \in Skus
        PROVE  source'[sku] = source[sku] \/ source'[sku] = NextVersion(sku)
    <3>1. source \in [Skus -> Nat]
      BY DEF TypeOK
    <3>2. CASE sku = at
      BY <2>1, <3>1, <3>2
    <3>3. CASE sku # at
      <4> HIDE DEF at
      <4> QED
        BY <2>1, <3>1, <3>3
    <3> QED
      BY <3>2, <3>3
  <2>3. \A sku \in Skus : source[sku] # Missing => NextVersion(sku) # Missing
    BY <1>1 DEF NextVersion, Missing
  <2> QED
    BY <2>2, <2>3 DEF Exists
<1>4. ASSUME NEW sku \in Skus, AddProduct(sku)
      PROVE  \A key \in Skus : Exists(key) => Exists(key)'
  BY <1>4 DEF AddProduct, TypeOK, Exists, Missing
<1> QED
  BY <1>2, <1>3, <1>4
     DEF Next, Resume, Get, UpdatePrice, ReadCache, Find, SetCache, SetFails, ReadFails,
         DelCache, DelFails, Expire, vars

LEMMA ExistStep ==
    ASSUME CatalogAssumption, ExistInv, [Next]_vars
    PROVE  ExistInv'
<1> USE DEF Missing
<1>1. TypeOK /\ TypeOK' /\ \A sku \in Skus : Exists(sku) => Exists(sku)'
  BY TypeStep, ExistingStays DEF ExistInv
<1>2. \A c \in Clients : /\ call[c] \in Call /\ call[c].sku \in Skus
                         /\ call'[c] \in Call /\ call'[c].sku \in Skus
  BY <1>1 DEF TypeOK, Call
<1>3. ASSUME \A c \in Clients :
                \/ call'[c].since = 0 /\ pc'[c] # "del"
                \/ /\ call'[c].sku = call[c].sku
                   /\ call'[c].since = call[c].since
                   /\ pc'[c] = "del" /\ call'[c].product # 0 => Exists(call[c].sku)'
                \/ call'[c].since = settled[call'[c].sku] /\ pc'[c] # "del",
             \A sku \in Skus : settled'[sku] # 0 => settled[sku] # 0 \/ Exists(sku)'
      PROVE  ExistInv'
  <2>1. ASSUME NEW sku \in Skus, settled'[sku] # 0
        PROVE  Exists(sku)'
    BY <1>1, <1>3, <2>1 DEF ExistInv
  <2>2. ASSUME NEW c \in Clients, NEW sku \in Skus, sku = call'[c].sku, call'[c].since # 0
        PROVE  Exists(sku)'
    BY <1>1, <1>2, <1>3, <2>2 DEF ExistInv
  <2>3. ASSUME NEW c \in Clients, NEW sku \in Skus, sku = call'[c].sku,
               pc'[c] = "del", call'[c].product # 0
        PROVE  Exists(sku)'
    BY <1>3, <2>3 DEF Exists
  <2> QED
    BY <1>1, <1>2, <2>1, <2>2, <2>3 DEF ExistInv, Exists
<1> DEFINE Rest(c) == /\ pc'[c] = pc[c]
                      /\ call'[c].sku = call[c].sku
                      /\ call'[c].since = call[c].since
                      /\ call'[c].product = call[c].product
           Moves(c) == \/ call'[c].since = 0 /\ pc'[c] # "del"
                       \/ /\ call'[c].sku = call[c].sku
                          /\ call'[c].since = call[c].since
                          /\ pc'[c] = "del" /\ call'[c].product # 0 => Exists(call[c].sku)'
                       \/ call'[c].since = settled[call'[c].sku] /\ pc'[c] # "del"
<1>4. ASSUME NEW c \in Clients, Rest(c)
      PROVE  Moves(c)
  <2>1. pc'[c] = "del" /\ call'[c].product # 0 => Exists(call[c].sku)
    BY <1>4 DEF ExistInv
  <2> QED
    BY <1>1, <1>2, <1>4, <2>1 DEF Exists
<1>5. ASSUME NEW c \in Clients, \A other \in Clients \ {c} : Rest(other), Moves(c),
             \A sku \in Skus : settled'[sku] # 0 => settled[sku] # 0 \/ Exists(sku)'
      PROVE  ExistInv'
  <2>1. \A other \in Clients : Moves(other)
    BY <1>4, <1>5
  <2> QED
    BY <1>3, <1>5, <2>1
<1>6. ASSUME NEW c \in Clients, NEW sku \in Skus, Get(c, sku) \/ UpdatePrice(c, sku)
      PROVE  ExistInv'
  <2>1. Begin(c, "get", sku) \/ Begin(c, "update", sku)
    BY <1>6 DEF Get, UpdatePrice
  <2>2. \A other \in Clients \ {c} : Rest(other)
    BY <1>1, <2>1, BeginEffect
  <2>3. call'[c] = NewCall(sku, settled[sku]) /\ pc'[c] # "del"
    BY <1>1, <2>1 DEF Begin, TypeOK
  <2>4. Moves(c)
    BY <2>3 DEF NewCall
  <2>5. settled' = settled
    BY <1>6 DEF Get, UpdatePrice
  <2> QED
    BY <1>5, <2>2, <2>4, <2>5
<1>7. ASSUME NEW c \in Clients, NEW where \in {"find", "set", "del"}, NEW product \in Nat,
             WaitFor(c, where, product), settled' = settled,
             where = "del" /\ product # 0 => Exists(call[c].sku)'
      PROVE  ExistInv'
  <2>1. \A other \in Clients \ {c} : Rest(other)
    BY <1>1, <1>7, WaitEffect
  <2>2. pc'[c] = where /\ call'[c].product = product /\ call'[c].sku = call[c].sku
    BY <1>1, <1>7, WaitEffect
  <2>3. call'[c].since = call[c].since
    BY <1>1, <1>2, <1>7 DEF WaitFor, TypeOK, Call
  <2>4. Moves(c)
    BY <1>7, <2>2, <2>3
  <2> QED
    BY <1>5, <1>7, <2>1, <2>4
<1>8. ASSUME NEW c \in Clients, NEW result \in Nat \cup {Failed}, Return(c, result),
             Forget(c) \/ \E removed \in BOOLEAN : ChangeEnds(c, call[c].sku, removed),
             \A sku \in Skus : settled'[sku] # 0 => settled[sku] # 0 \/ Exists(sku)'
      PROVE  ExistInv'
  <2>1. pc'[c] = "idle" /\ \A other \in Clients \ {c} : pc'[other] = pc[other]
    BY <1>1, <1>8 DEF Return, TypeOK
  <2>2. call'[c] = Over(c)
    BY <1>1, <1>8 DEF Forget, ChangeEnds, TypeOK
  <2>3. ASSUME NEW other \in Clients \ {c}
        PROVE  /\ call'[other].sku = call[other].sku
               /\ call'[other].since = call[other].since
               /\ call'[other].product = call[other].product
    <3>1. CASE Forget(c)
      BY <1>1, <3>1 DEF Forget, TypeOK
    <3>2. CASE \E removed \in BOOLEAN : ChangeEnds(c, call[c].sku, removed)
      <4>1. call'[other] = [call[other] EXCEPT !.late = @ \/ On(other, call[c].sku, {"set"})]
        BY <3>2 DEF ChangeEnds
      <4> QED
        BY <1>2, <4>1 DEF Call
    <3> QED
      BY <1>8, <3>1, <3>2
  <2>4. Moves(c)
    BY <2>1, <2>2 DEF Over, NewCall
  <2> QED
    BY <1>5, <1>8, <2>1, <2>3, <2>4
<1>9. ASSUME NEW c \in Clients, ReadCache(c)
      PROVE  ExistInv'
  <2>1. settled' = settled
    BY <1>9 DEF ReadCache
  <2>2. CASE cache[call[c].sku] # NoEntry
    <3>1. cache[call[c].sku].product \in Nat
      BY <1>1, <1>2, <2>2 DEF TypeOK, Entry
    <3>2. Return(c, cache[call[c].sku].product) /\ Forget(c)
      BY <1>9, <2>2 DEF ReadCache
    <3> QED
      BY <1>8, <2>1, <3>1, <3>2
  <2>3. CASE cache[call[c].sku] = NoEntry
    BY <1>7, <1>9, <2>1, <2>3 DEF ReadCache
  <2> QED
    BY <2>2, <2>3
<1>10. ASSUME NEW c \in Clients, Find(c)
       PROVE  ExistInv'
  <2>1. settled' = settled /\ source[call[c].sku] \in Nat
    BY <1>1, <1>2, <1>10 DEF Find, TypeOK
  <2>2. CASE source[call[c].sku] # 0
    BY <1>7, <1>10, <2>1, <2>2 DEF Find
  <2>3. CASE source[call[c].sku] = 0
    BY <1>8, <1>10, <2>1, <2>3 DEF Find
  <2> QED
    BY <2>2, <2>3
<1>11. ASSUME NEW c \in Clients, SetCache(c) \/ SetFails(c) \/ ReadFails(c)
       PROVE  ExistInv'
  <2>1. \E result \in Nat \cup {Failed} : Return(c, result)
    BY <1>2, <1>11 DEF SetCache, SetFails, ReadFails, Call
  <2>2. Forget(c) /\ settled' = settled
    BY <1>11 DEF SetCache, SetFails, ReadFails
  <2> QED
    BY <1>8, <2>1, <2>2
<1>12. ASSUME NEW c \in Clients, UpdateSource(c)
       PROVE  ExistInv'
  <2> DEFINE next == NextVersion(call[c].sku)
  <2>1. next \in Nat
    BY <1>1, <1>2 DEF NextVersion, TypeOK
  <2>2. WaitFor(c, "del", next) /\ settled' = settled /\ source'[call[c].sku] = next
    BY <1>1, <1>2, <1>12 DEF UpdateSource, TypeOK
  <2>3. next # 0 => Exists(call[c].sku)'
    <3>1. call'[c].sku = call[c].sku
      BY <1>1, <2>1, <2>2, WaitEffect
    <3> QED
      BY <2>2, <3>1 DEF Exists
  <2> HIDE DEF next
  <2> QED
    BY <1>7, <2>1, <2>2, <2>3
<1>13. ASSUME NEW c \in Clients, UpdateFails(c)
       PROVE  ExistInv'
  BY <1>8, <1>13 DEF UpdateFails
<1>14. ASSUME NEW c \in Clients, DelCache(c) \/ DelFails(c)
       PROVE  ExistInv'
  <2>1. PICK removed \in BOOLEAN, result \in Nat \cup {Failed} :
           Return(c, result) /\ ChangeEnds(c, call[c].sku, removed)
    BY <1>2, <1>14 DEF DelCache, DelFails, Call
  <2>2. source' = source /\ (call[c].product # 0 => Exists(call[c].sku))
    BY <1>14 DEF DelCache, DelFails, ExistInv
  <2>3. ASSUME NEW sku \in Skus, settled'[sku] # 0
        PROVE  settled[sku] # 0 \/ Exists(sku)'
    <3>1. settled'[sku] \in {settled[sku], call[c].product}
      BY <1>1, <1>2, <1>14 DEF DelCache, DelFails, TypeOK, Newest
    <3>2. sku # call[c].sku => settled'[sku] = settled[sku]
      BY <1>1, <1>14 DEF DelCache, DelFails, TypeOK
    <3> QED
      BY <2>2, <2>3, <3>1, <3>2 DEF Exists
  <2> QED
    BY <1>8, <2>1, <2>3
<1>15. ASSUME NEW sku \in Skus, Expire(sku) \/ AddProduct(sku)
       PROVE  ExistInv'
  <2>1. UNCHANGED <<pc, call>>
    BY <1>15 DEF Expire, AddProduct
  <2>2. \A c \in Clients : Moves(c)
    BY <1>4, <2>1
  <2>3. \A key \in Skus : settled'[key] # 0 => settled[key] # 0 \/ Exists(key)'
    BY <1>1, <1>15 DEF Expire, AddProduct, TypeOK, Exists
  <2> QED
    BY <1>3, <2>2, <2>3
<1>16. CASE UNCHANGED vars
  BY <1>1, <1>16 DEF vars, ExistInv, Exists
<1> QED
  BY <1>6, <1>9, <1>10, <1>11, <1>12, <1>13, <1>14, <1>15, <1>16 DEF Next, Resume

\* No get of a product that exists when it is called returns that there is none.
LEMMA FoundStep ==
    ASSUME CatalogAssumption, ExistInv, [Next]_vars,
           NEW c \in Clients, pc[c] \in Getting, pc'[c] = "idle", call[c].since # Missing
    PROVE  answer'[c] # Missing
<1>1. TypeOK /\ call[c] \in Call /\ call[c].sku \in Skus
  BY DEF ExistInv, TypeOK, Call
<1>2. source[call[c].sku] # Missing
  BY DEF ExistInv, Exists
<1>3. pc[c] # "idle"
  BY DEF Getting
<1>4. Failed # Missing
  BY DEF CatalogAssumption, Missing
<1>5. ASSUME ReadCache(c)
      PROVE  answer'[c] # Missing
  <2>1. cache[call[c].sku] # NoEntry
    BY <1>1, <1>5 DEF ReadCache, WaitFor, TypeOK
  <2>2. answer'[c] = cache[call[c].sku].product
    BY <1>1, <1>5, <2>1 DEF ReadCache, Return, TypeOK
  <2> QED
    BY <1>1, <2>1, <2>2 DEF TypeOK
<1>6. ASSUME Find(c)
      PROVE  FALSE
  BY <1>1, <1>2, <1>6 DEF Find, WaitFor, TypeOK
<1>7. ASSUME SetCache(c) \/ SetFails(c) \/ ReadFails(c)
      PROVE  answer'[c] # Missing
  BY <1>1, <1>4, <1>7 DEF SetCache, SetFails, ReadFails, Return, TypeOK
<1>8. ASSUME NEW other \in Clients, Resume(other), other # c
      PROVE  FALSE
  <2>1. pc'[c] = pc[c]
    BY <1>1, <1>8 DEF Resume, ReadCache, Find, SetCache, SetFails, ReadFails, UpdateSource,
                      UpdateFails, DelCache, DelFails, Return, WaitFor, TypeOK
  <2> QED
    BY <1>3, <2>1
<1>9. ASSUME NEW other \in Clients, NEW sku \in Skus, Get(other, sku) \/ UpdatePrice(other, sku)
      PROVE  FALSE
  BY <1>1, <1>3, <1>9 DEF Get, UpdatePrice, Begin, TypeOK
<1>10. ASSUME UNCHANGED pc
       PROVE  FALSE
  BY <1>3, <1>10
<1>11. ~ (UpdateSource(c) \/ UpdateFails(c) \/ DelCache(c) \/ DelFails(c))
  BY DEF UpdateSource, UpdateFails, DelCache, DelFails, Getting
<1> QED
  BY <1>5, <1>6, <1>7, <1>8, <1>9, <1>10, <1>11 DEF Next, Resume, Expire, AddProduct, vars

(***************************************************************************)
(* A product that exists when get is called is found, whatever updates,    *)
(* expiries and failures run beside it.                                    *)
(***************************************************************************)
THEOREM ExistingIsFound == Spec => FoundOnceCreated
<1>1. Init => ExistInv
  <2> SUFFICES ASSUME Init PROVE ExistInv
    OBVIOUS
  <2>1. TypeOK
    BY TypeInit, CatalogAssumption
  <2>2. \A c \in Clients : call[c].since = Missing
    BY DEF Init, NewCall
  <2> QED
    BY <2>1, <2>2 DEF Init, ExistInv
<1>2. ExistInv /\ [Next]_vars => ExistInv'
  BY ExistStep, CatalogAssumption
<1>3. ExistInv /\ [Next]_vars =>
         [\A c \in Clients :
             pc[c] \in Getting /\ pc'[c] = "idle" /\ call[c].since # Missing
                 => answer'[c] # Missing]_vars
  BY FoundStep, CatalogAssumption
<1> QED
  BY <1>1, <1>2, <1>3, PTL DEF Spec, FoundOnceCreated
=============================================================================
