----------------------- MODULE WalletConnections_proofs -----------------------
(***************************************************************************)
(* What holds of the wallet connections for any number of tabs, chains and *)
(* wallets.                                                                *)
(***************************************************************************)
EXTENDS WalletConnections, FiniteSetTheorems, TLAPS

(***************************************************************************)
(* Types.                                                                  *)
(***************************************************************************)

\* Setting chains of a map to a wallet, or to none, keeps it a map of chains.
LEMMA WithType ==
  ASSUME NEW map \in ChainMap, NEW chains, NEW wallet \in MaybeWallet
  PROVE  With(map, chains, wallet) \in ChainMap
BY DEF With, ChainMap

\* What is read from localStorage are reconnections to wallets.
LEMMA LoadAllType ==
  ASSUME NEW entries \in ChainMap, NEW type, NEW known \in BOOLEAN
  PROVE  LoadAll(entries, type, known) \subseteq Reconnection
<1>. SUFFICES ASSUME NEW r \in LoadAll(entries, type, known) PROVE r \in Reconnection
  OBVIOUS
<1>1. PICK c \in Chains : entries[c] # None /\ r = [chain |-> c, wallet |-> entries[c], known |-> known]
  BY DEF LoadAll
<1>2. entries[c] \in Wallets
  BY <1>1 DEF ChainMap, MaybeWallet
<1>. QED
  BY <1>1, <1>2 DEF Reconnection

\* The part of the type invariant that a render touches.
TabsType ==
  /\ connections \in [Tabs -> ChainMap]
  /\ walletType \in [Tabs -> MaybeWallet]
  /\ restoring \in [Tabs -> SUBSET Reconnection]

\* A render keeps the types, whatever the effect reads.
LEMMA RenderType ==
  ASSUME TypeOK, NEW t \in Tabs, NEW chains \in ChainMap, NEW type \in MaybeWallet,
         NEW waiting \in SUBSET Reconnection,
         Render(t, chains, type, waiting), saved' \in ChainMap
  PROVE  TabsType'
<1>1. LoadAll(saved', savedType', type # None) \subseteq Reconnection
  BY LoadAllType
<1>2. connections' = [connections EXCEPT ![t] = chains] /\ walletType' = [walletType EXCEPT ![t] = type]
  BY DEF Render
<1>3. restoring' = [restoring EXCEPT ![t] =
        IF Restarts(t, type) THEN waiting \cup LoadAll(saved', savedType', type # None) ELSE waiting]
  BY DEF Render
<1>4. restoring' \in [Tabs -> SUBSET Reconnection]
  BY <1>1, <1>3 DEF TypeOK
<1>. QED
  BY <1>2, <1>4 DEF TypeOK, TabsType

LEMMA ClickType == TypeOK /\ Click => calm' \in BOOLEAN /\ clicks' \in 0 .. MaxClicks
BY ClicksAssumption DEF TypeOK, Click, Quiet

\* The state keeps its types, however many tabs there are.
THEOREM TypeCorrect == Spec => []TypeOK
<1>1. Init => TypeOK
  BY ClicksAssumption DEF Init, TypeOK, NoChains, ChainMap, MaybeWallet
<1>2. TypeOK /\ [Next]_vars => TypeOK'
  <2>. SUFFICES ASSUME TypeOK, [Next]_vars PROVE TypeOK'
    OBVIOUS
  <2>0. None \in MaybeWallet /\ NoChains \in ChainMap
    BY DEF MaybeWallet, NoChains, ChainMap
  <2>1. ASSUME NEW t \in Tabs, NEW w \in Wallets, NEW chains \in SUBSET Chains \ {{}}, ConnectBegins(t, w, chains)
        PROVE  TypeOK'
    <3>1. calm' \in BOOLEAN /\ clicks' \in 0 .. MaxClicks
      BY <2>1, ClickType DEF ConnectBegins
    <3>2. [wallet |-> w, chains |-> chains, snapshot |-> connections[t]] \in Call
      BY DEF TypeOK, Call
    <3>3. connecting' \in [Tabs -> Call \cup {None}]
      BY <2>1, <3>2 DEF ConnectBegins, TypeOK
    <3>. QED
      BY <2>1, <3>1, <3>3 DEF ConnectBegins, storage, TypeOK
  <2>2. ASSUME NEW t \in Tabs, NEW keys \in SUBSET Chains, ConnectEnds(t, keys)
        PROVE  TypeOK'
    <3> DEFINE call == connecting[t]
    <3>1. call \in Call
      BY <2>2 DEF ConnectEnds, TypeOK
    <3>2. call.wallet \in MaybeWallet /\ call.snapshot \in ChainMap
      BY <3>1 DEF Call, MaybeWallet
    <3>3. With(saved, keys, call.wallet) \in ChainMap /\ With(call.snapshot, keys, call.wallet) \in ChainMap
      BY <3>2, WithType DEF TypeOK
    <3>4. saved' \in ChainMap /\ savedType' \in MaybeWallet
      BY <2>2, <3>2, <3>3 DEF ConnectEnds, TypeOK
    <3>5. restoring[t] \in SUBSET Reconnection
      BY DEF TypeOK
    <3>6. TabsType'
      BY <2>2, <3>2, <3>3, <3>4, <3>5, RenderType DEF ConnectEnds
    <3>7. connecting' \in [Tabs -> Call \cup {None}]
      BY <2>2 DEF ConnectEnds, TypeOK
    <3>. QED
      BY <2>2, <3>4, <3>6, <3>7 DEF ConnectEnds, TypeOK, TabsType
  <2>3. ASSUME NEW t \in Tabs, ConnectFails(t)
        PROVE  TypeOK'
    BY <2>3 DEF ConnectFails, storage, TypeOK
  <2>4. ASSUME NEW t \in Tabs, NEW c \in Chains, DisconnectChain(t, c)
        PROVE  TypeOK'
    <3>1. calm' \in BOOLEAN /\ clicks' \in 0 .. MaxClicks
      BY <2>4, ClickType DEF DisconnectChain
    <3>2. Without(saved, {c}) \in ChainMap /\ Without(connections[t], {c}) \in ChainMap
      BY <2>0, WithType DEF Without, TypeOK
    <3>3. saved' \in ChainMap /\ savedType' \in MaybeWallet
      BY <2>4, <3>2 DEF DisconnectChain, TypeLeft, TypeOK
    <3>4. restoring[t] \in SUBSET Reconnection /\ walletType[t] \in MaybeWallet
      BY DEF TypeOK
    <3>5. TabsType'
      BY <2>0, <2>4, <3>2, <3>3, <3>4, RenderType DEF DisconnectChain
    <3>. QED
      BY <2>4, <3>1, <3>3, <3>5 DEF DisconnectChain, TypeOK, TabsType
  <2>5. ASSUME NEW t \in Tabs, DisconnectAll(t)
        PROVE  TypeOK'
    <3>1. calm' \in BOOLEAN /\ clicks' \in 0 .. MaxClicks
      BY <2>5, ClickType DEF DisconnectAll
    <3>2. restoring[t] \in SUBSET Reconnection
      BY DEF TypeOK
    <3>3. TabsType'
      BY <2>0, <2>5, <3>2, RenderType DEF DisconnectAll
    <3>. QED
      BY <2>0, <2>5, <3>1, <3>3 DEF DisconnectAll, TypeOK, TabsType
  <2>6. ASSUME NEW t \in Tabs, Reload(t)
        PROVE  TypeOK'
    <3>1. LoadAll(saved, savedType, FALSE) \subseteq Reconnection
      BY LoadAllType DEF TypeOK
    <3>2. clicks' \in 0 .. MaxClicks
      BY <2>6, ClicksAssumption DEF Reload, TypeOK
    <3>3. restoring' \in [Tabs -> SUBSET Reconnection]
      BY <2>6, <3>1 DEF Reload, TypeOK
    <3>. QED
      BY <2>0, <2>6, <3>2, <3>3 DEF Reload, storage, TypeOK
  <2>7. ASSUME NEW t \in Tabs, Restore(t)
        PROVE  TypeOK'
    <3>1. PICK r \in restoring[t] : Reconnected(t, r) \/ ReconnectFails(t, r)
      BY <2>7 DEF Restore
    <3>2. r \in Reconnection /\ restoring[t] \ {r} \in SUBSET Reconnection
      BY DEF TypeOK
    <3>3. r.wallet \in MaybeWallet
      BY <3>2 DEF Reconnection, MaybeWallet
    <3>4. CASE Reconnected(t, r)
      <4>1. TypeOfTab(t, r) \in MaybeWallet
        BY <3>3 DEF TypeOfTab, TypeOK
      <4>2. With(connections[t], {r.chain}, r.wallet) \in ChainMap
        BY <3>3, WithType DEF TypeOK
      <4>3. saved' \in ChainMap /\ savedType' \in MaybeWallet
        BY <3>4 DEF Reconnected, storage, TypeOK
      <4>4. TabsType'
        BY <3>2, <3>4, <4>1, <4>2, <4>3, RenderType DEF Reconnected
      <4>. QED
        BY <3>4, <4>3, <4>4 DEF Reconnected, TypeOK, TabsType
    <3>5. CASE ReconnectFails(t, r)
      <4>1. saved' \in ChainMap
        BY <2>0, <3>5, WithType DEF ReconnectFails, Without, TypeOK
      <4>2. restoring' \in [Tabs -> SUBSET Reconnection]
        BY <3>2, <3>5 DEF ReconnectFails, TypeOK
      <4>. QED
        BY <3>5, <4>1, <4>2 DEF ReconnectFails, TypeOK
    <3>. QED
      BY <3>1, <3>4, <3>5
  <2>8. CASE UNCHANGED vars
    BY <2>8 DEF vars, page, storage, TypeOK
  <2>. QED
    BY <2>1, <2>2, <2>3, <2>4, <2>5, <2>6, <2>7, <2>8 DEF Next
<1>. QED
  BY <1>1, <1>2, PTL DEF Spec

(***************************************************************************)
(* What is saved can be restored.                                          *)
(***************************************************************************)

\* However the tabs connect, disconnect, fail and reload, localStorage holds no
\* chain without the type of its wallet (connect, clearWalletState).
THEOREM SavedRestorable == Spec => []SavedIsRestorable
<1>1. Init => SavedIsRestorable
  BY DEF Init, NoChains, SavedIsRestorable
<1>2. TypeOK /\ SavedIsRestorable /\ [Next]_vars => SavedIsRestorable'
  <2>. SUFFICES ASSUME TypeOK, SavedIsRestorable, [Next]_vars,
                       NEW d \in Chains, saved'[d] # None
                PROVE  savedType' # None
    BY DEF SavedIsRestorable
  <2>1. ASSUME NEW t \in Tabs, NEW w \in Wallets, NEW chains \in SUBSET Chains \ {{}}, ConnectBegins(t, w, chains)
        PROVE  savedType' # None
    BY <2>1 DEF ConnectBegins, storage, SavedIsRestorable
  <2>2. ASSUME NEW t \in Tabs, NEW keys \in SUBSET Chains, ConnectEnds(t, keys)
        PROVE  savedType' # None
    <3>1. connecting[t].wallet # None
      BY <2>2, NoneAssumption DEF ConnectEnds, Call, TypeOK
    <3>2. CASE keys = {}
      BY <2>2, <3>2 DEF ConnectEnds, With, SavedIsRestorable
    <3>3. CASE keys # {}
      BY <2>2, <3>1, <3>3 DEF ConnectEnds
    <3>. QED
      BY <3>2, <3>3
  <2>3. ASSUME NEW t \in Tabs, ConnectFails(t)
        PROVE  savedType' # None
    BY <2>3 DEF ConnectFails, storage, SavedIsRestorable
  <2>4. ASSUME NEW t \in Tabs, NEW c \in Chains, DisconnectChain(t, c)
        PROVE  savedType' # None
    BY <2>4 DEF DisconnectChain, TypeLeft, Without, With, SavedIsRestorable
  <2>5. ASSUME NEW t \in Tabs, DisconnectAll(t)
        PROVE  savedType' # None
    BY <2>5 DEF DisconnectAll, NoChains
  <2>6. ASSUME NEW t \in Tabs, Reload(t)
        PROVE  savedType' # None
    BY <2>6 DEF Reload, storage, SavedIsRestorable
  <2>7. ASSUME NEW t \in Tabs, Restore(t)
        PROVE  savedType' # None
    <3>1. PICK r \in restoring[t] : Reconnected(t, r) \/ ReconnectFails(t, r)
      BY <2>7 DEF Restore
    <3>2. CASE Reconnected(t, r)
      BY <3>2 DEF Reconnected, storage, SavedIsRestorable
    <3>3. CASE ReconnectFails(t, r)
      BY <3>3 DEF ReconnectFails, Without, With, SavedIsRestorable
    <3>. QED
      BY <3>1, <3>2, <3>3
  <2>8. CASE UNCHANGED vars
    BY <2>8 DEF vars, storage, SavedIsRestorable
  <2>. QED
    BY <2>1, <2>2, <2>3, <2>4, <2>5, <2>6, <2>7, <2>8 DEF Next
<1>. QED
  BY <1>1, <1>2, TypeCorrect, PTL DEF Spec

(***************************************************************************)
(* Calm use.                                                               *)
(***************************************************************************)
OneWallet(map, wallet) == \A c \in Chains : map[c] \in {None, wallet}

\* A connect call is alone, and no other wallet is saved or in its snapshot.
ConnectingIsSafe(t) ==
  connecting[t] # None =>
    /\ savedType \in {None, connecting[t].wallet}
    /\ OneWallet(connecting[t].snapshot, connecting[t].wallet)
    /\ \A u \in Tabs : connecting[u] # None => u = t

\* A reconnection is to the saved wallet, and to that of the tab if it has one.
Consistent(r, stored, type) ==
  /\ r.wallet = stored
  /\ type \in {None, r.wallet}
  /\ r.known => type # None

TabIsSafe(t) ==
  /\ OneWallet(connections[t], walletType[t])
  /\ \A r \in restoring[t] : Consistent(r, savedType, walletType[t])

CalmInv ==
  calm =>
    /\ OneWallet(saved, savedType)
    /\ \A t \in Tabs : TabIsSafe(t) /\ ConnectingIsSafe(t)

LEMMA WithOneWallet ==
  ASSUME NEW map, NEW wallet, NEW chains, OneWallet(map, wallet)
  PROVE  OneWallet(With(map, chains, wallet), wallet) /\ OneWallet(Without(map, chains), wallet)
BY DEF OneWallet, With, Without

\* What a render with a new type starts goes with that type.
LEMMA RenderIsSafe ==
  ASSUME TypeOK, NEW t \in Tabs, NEW chains \in ChainMap, NEW type \in MaybeWallet,
         NEW waiting \in SUBSET Reconnection,
         Render(t, chains, type, waiting),
         OneWallet(saved', savedType'), OneWallet(chains, type),
         type # walletType[t] => type = None \/ savedType' \in {None, type},
         \A r \in waiting : Consistent(r, savedType', type)
  PROVE  /\ TabIsSafe(t)'
         /\ \A u \in Tabs \ {t} : /\ connections'[u] = connections[u]
                                /\ walletType'[u] = walletType[u]
                                /\ restoring'[u] = restoring[u]
<1>1. connections'[t] = chains /\ walletType'[t] = type
  BY DEF Render, TypeOK
<1>2. restoring'[t] =
        IF Restarts(t, type) THEN waiting \cup LoadAll(saved', savedType', type # None) ELSE waiting
  BY DEF Render, TypeOK
<1>3. \A u \in Tabs \ {t} : connections'[u] = connections[u] /\ walletType'[u] = walletType[u] /\ restoring'[u] = restoring[u]
  BY DEF Render, TypeOK
<1>4. ASSUME NEW r \in restoring'[t] PROVE Consistent(r, savedType', type)
  <2>1. CASE r \in waiting
    BY <2>1
  <2>2. CASE r \notin waiting
    <3>1. Restarts(t, type) /\ r \in LoadAll(saved', savedType', type # None)
      BY <1>2, <1>4, <2>2
    <3>2. savedType' # None
      BY <3>1 DEF LoadAll
    <3>3. PICK c \in Chains : saved'[c] # None /\ r = [chain |-> c, wallet |-> saved'[c], known |-> (type # None)]
      BY <3>1, <3>2 DEF LoadAll
    <3>4. saved'[c] = savedType'
      BY <3>3 DEF OneWallet
    <3>5. type = None \/ type = savedType'
      BY <3>1, <3>2 DEF Restarts
    <3>. QED
      BY <3>3, <3>4, <3>5 DEF Consistent
  <2>. QED
    BY <2>1, <2>2
<1>5. OneWallet(connections'[t], walletType'[t])
  BY <1>1
<1>. QED
  BY <1>1, <1>3, <1>4, <1>5 DEF TabIsSafe, OneWallet

\* A tab that was not touched stays safe as long as the saved type does not
\* change under its reconnections.
LEMMA OthersStaySafe ==
  ASSUME NEW u \in Tabs, TabIsSafe(u),
         connections'[u] = connections[u], walletType'[u] = walletType[u], restoring'[u] \subseteq restoring[u],
         restoring'[u] # {} => savedType' = savedType
  PROVE  TabIsSafe(u)'
BY DEF TabIsSafe, OneWallet, Consistent

\* The last connected chain leaves no other.
LEMMA LastChain ==
  ASSUME NEW t \in Tabs, NEW c \in Connected(t), Cardinality(Connected(t)) - 1 = 0
  PROVE  \A d \in Chains : d # c => connections[t][d] = None
<1>1. Connected(t) \subseteq Chains
  BY DEF Connected
<1>2. IsFiniteSet(Connected(t))
  BY <1>1, ChainsAssumption, FS_Subset
<1>3. Cardinality(Connected(t)) = 1
  BY <1>2, FS_CardinalityType
<1>4. PICK x : Connected(t) = {x}
  BY <1>2, <1>3, FS_Singleton
<1>. QED
  BY <1>4 DEF Connected

\* As long as nobody acts while a wallet is awaited, all that is saved belongs
\* to the saved wallet, and every connected chain of a tab to the tab's wallet:
\* the look at the saved type before the awaits of connect is then enough.
THEOREM CalmUse == Spec => []CalmUseHasOneWallet
<1>1. Init => CalmInv
  BY DEF Init, CalmInv, OneWallet, NoChains, TabIsSafe, ConnectingIsSafe
<1>2. TypeOK /\ TypeOK' /\ CalmInv /\ [Next]_vars => CalmInv'
  <2>. SUFFICES ASSUME TypeOK, TypeOK', CalmInv, [Next]_vars, calm' PROVE CalmInv'
    BY DEF CalmInv
  <2>0. None \in MaybeWallet /\ NoChains \in ChainMap /\ \A w : OneWallet(NoChains, w)
    BY DEF MaybeWallet, NoChains, ChainMap, OneWallet
  <2>. DEFINE Safe == OneWallet(saved, savedType) /\ \A t \in Tabs : TabIsSafe(t) /\ ConnectingIsSafe(t)
  <2>9. calm => Safe
    BY DEF CalmInv
  <2>10. ASSUME Safe' PROVE CalmInv'
    BY <2>10 DEF CalmInv
  <2>. HIDE DEF Safe
  <2>1. ASSUME NEW t \in Tabs, NEW w \in Wallets, NEW chains \in SUBSET Chains \ {{}}, ConnectBegins(t, w, chains)
        PROVE  Safe'
    <3>1. calm /\ Quiet
      BY <2>1 DEF ConnectBegins, Click
    <3>2. savedType \in {None, w}
      BY <2>1 DEF ConnectBegins, Refuses
    <3>3. OneWallet(connections[t], w)
      <4>1. OneWallet(connections[t], walletType[t])
        BY <2>9, <3>1 DEF Safe, TabIsSafe
      <4>2. isConnected(t) => walletType[t] = w
        BY <2>1 DEF ConnectBegins, Offered
      <4>. QED
        BY <4>1, <4>2 DEF OneWallet, isConnected, Connected
    <3>4. connecting'[t] = [wallet |-> w, chains |-> chains, snapshot |-> connections[t]]
      BY <2>1 DEF ConnectBegins, TypeOK
    <3>5. \A u \in Tabs \ {t} : connecting'[u] = None
      BY <2>1, <3>1 DEF ConnectBegins, Quiet, TypeOK
    <3>6. \A u \in Tabs : ConnectingIsSafe(u)'
      BY <2>1, <3>2, <3>3, <3>4, <3>5 DEF ConnectBegins, storage, ConnectingIsSafe, OneWallet
    <3>7. \A u \in Tabs : TabIsSafe(u)'
      BY <2>1, <2>9, <3>1, OthersStaySafe DEF ConnectBegins, storage, Safe
    <3>8. OneWallet(saved, savedType)'
      BY <2>1, <2>9, <3>1 DEF ConnectBegins, storage, Safe, OneWallet
    <3>. QED
      BY <3>6, <3>7, <3>8 DEF Safe
  <2>2. ASSUME NEW t \in Tabs, NEW keys \in SUBSET Chains, ConnectEnds(t, keys)
        PROVE  Safe'
    <3> DEFINE call == connecting[t]
    <3>1. Safe
      BY <2>2, <2>9 DEF ConnectEnds
    <3>2. call # None /\ call \in Call
      BY <2>2 DEF ConnectEnds, TypeOK
    <3>3. call.wallet \in MaybeWallet /\ call.wallet # None /\ call.snapshot \in ChainMap
      BY <3>2, NoneAssumption DEF Call, MaybeWallet
    <3>4. /\ savedType \in {None, call.wallet}
          /\ OneWallet(call.snapshot, call.wallet)
          /\ \A u \in Tabs : connecting[u] # None => u = t
      BY <3>1, <3>2 DEF Safe, ConnectingIsSafe
    <3>5. saved' = With(saved, keys, call.wallet) /\ savedType' = (IF keys = {} THEN savedType ELSE call.wallet)
      BY <2>2 DEF ConnectEnds
    <3>6. OneWallet(saved', savedType')
      <4>1. OneWallet(saved, savedType)
        BY <3>1 DEF Safe
      <4>. QED
        BY <3>4, <3>5, <4>1 DEF OneWallet, With
    <3>7. \A u \in Tabs : restoring[u] # {} => savedType = call.wallet
      <4>. SUFFICES ASSUME NEW u \in Tabs, NEW r \in restoring[u] PROVE savedType = call.wallet
        OBVIOUS
      <4>1. r.wallet = savedType
        BY <3>1 DEF Safe, TabIsSafe, Consistent
      <4>2. r \in Reconnection
        BY DEF TypeOK
      <4>3. r.wallet # None
        BY <4>2, NoneAssumption DEF Reconnection
      <4>. QED
        BY <3>4, <4>1, <4>3
    <3>8. \A u \in Tabs : restoring[u] # {} => savedType' = savedType
      BY <3>5, <3>7
    <3>9. \A r \in restoring[t] : Consistent(r, savedType', call.wallet)
      <4>. SUFFICES ASSUME NEW r \in restoring[t] PROVE Consistent(r, savedType', call.wallet)
        OBVIOUS
      <4>1. r.wallet = savedType
        BY <3>1 DEF Safe, TabIsSafe, Consistent
      <4>. QED
        BY <3>3, <3>7, <3>8, <4>1 DEF Consistent
    <3>10. With(call.snapshot, keys, call.wallet) \in ChainMap
      BY <3>3, WithType
    <3>11. OneWallet(With(call.snapshot, keys, call.wallet), call.wallet)
      BY <3>4, WithOneWallet
    <3>12. restoring[t] \in SUBSET Reconnection
      BY DEF TypeOK
    <3>13. Render(t, With(call.snapshot, keys, call.wallet), call.wallet, restoring[t])
      BY <2>2 DEF ConnectEnds
    <3>14. savedType' \in {None, call.wallet}
      BY <3>4, <3>5
    <3>15. /\ TabIsSafe(t)'
           /\ \A u \in Tabs \ {t} : /\ connections'[u] = connections[u]
                                  /\ walletType'[u] = walletType[u]
                                  /\ restoring'[u] = restoring[u]
      BY <3>3, <3>6, <3>9, <3>10, <3>11, <3>12, <3>13, <3>14, RenderIsSafe
    <3>16. \A u \in Tabs \ {t} : TabIsSafe(u)'
      BY <3>1, <3>8, <3>15, OthersStaySafe DEF Safe
    <3>17. \A u \in Tabs : connecting'[u] = None
      BY <2>2, <3>4 DEF ConnectEnds, TypeOK
    <3>. QED
      BY <3>6, <3>15, <3>16, <3>17 DEF Safe, ConnectingIsSafe, OneWallet
  <2>3. ASSUME NEW t \in Tabs, ConnectFails(t)
        PROVE  Safe'
    <3>1. Safe
      BY <2>3, <2>9 DEF ConnectFails
    <3>2. \A u \in Tabs : connecting'[u] = (IF u = t THEN None ELSE connecting[u])
      BY <2>3 DEF ConnectFails, TypeOK
    <3>3. \A u \in Tabs : TabIsSafe(u)'
      BY <2>3, <3>1, OthersStaySafe DEF ConnectFails, storage, Safe
    <3>. QED
      BY <2>3, <3>1, <3>2, <3>3 DEF ConnectFails, storage, Safe, ConnectingIsSafe, OneWallet
  <2>4. ASSUME NEW t \in Tabs, NEW c \in Chains, DisconnectChain(t, c)
        PROVE  Safe'
    <3> DEFINE type == IF Cardinality(Connected(t)) - 1 = 0 THEN None ELSE walletType[t]
    <3>1. Safe /\ Quiet
      BY <2>4, <2>9 DEF DisconnectChain, Click
    <3>2. OneWallet(saved, savedType) /\ OneWallet(connections[t], walletType[t])
      BY <3>1 DEF Safe, TabIsSafe
    <3>3. saved' = Without(saved, {c}) /\ savedType' = savedType
      BY <2>4 DEF DisconnectChain, TypeLeft
    <3>4. OneWallet(saved', savedType')
      BY <3>2, <3>3, WithOneWallet
    <3>5. OneWallet(Without(connections[t], {c}), type)
      <4>1. CASE Cardinality(Connected(t)) - 1 = 0
        <5>1. \A d \in Chains : d # c => connections[t][d] = None
          BY <2>4, <4>1, LastChain DEF DisconnectChain
        <5>. QED
          BY <4>1, <5>1 DEF OneWallet, Without, With
      <4>2. CASE Cardinality(Connected(t)) - 1 # 0
        BY <3>2, <4>2, WithOneWallet
      <4>. QED
        BY <4>1, <4>2
    <3>6. type # walletType[t] => type = None
      OBVIOUS
    <3>7. type \in MaybeWallet /\ Without(connections[t], {c}) \in ChainMap
      BY <2>0, WithType DEF TypeOK, Without
    <3>8. restoring[t] = {}
      BY <3>1 DEF Quiet
    <3>9. Render(t, Without(connections[t], {c}), type, restoring[t])
      BY <2>4 DEF DisconnectChain
    <3>. HIDE DEF type
    <3>10. /\ TabIsSafe(t)'
           /\ \A u \in Tabs \ {t} : /\ connections'[u] = connections[u]
                                  /\ walletType'[u] = walletType[u]
                                  /\ restoring'[u] = restoring[u]
      BY <3>4, <3>5, <3>6, <3>7, <3>8, <3>9, RenderIsSafe
    <3>11. \A u \in Tabs \ {t} : TabIsSafe(u)'
      BY <3>1, <3>3, <3>10, OthersStaySafe DEF Safe
    <3>12. \A u \in Tabs : connecting'[u] = None
      BY <2>4, <3>1 DEF DisconnectChain, Quiet
    <3>. QED
      BY <3>4, <3>10, <3>11, <3>12 DEF Safe, ConnectingIsSafe, OneWallet
  <2>5. ASSUME NEW t \in Tabs, DisconnectAll(t)
        PROVE  Safe'
    <3>1. Safe /\ Quiet
      BY <2>5, <2>9 DEF DisconnectAll, Click
    <3>2. saved' = NoChains /\ savedType' = None
      BY <2>5 DEF DisconnectAll
    <3>3. OneWallet(saved', savedType')
      BY <2>0, <3>2
    <3>4. \A u \in Tabs : restoring[u] = {}
      BY <3>1 DEF Quiet
    <3>5. Render(t, NoChains, None, restoring[t])
      BY <2>5 DEF DisconnectAll
    <3>6. /\ TabIsSafe(t)'
          /\ \A u \in Tabs \ {t} : /\ connections'[u] = connections[u]
                                 /\ walletType'[u] = walletType[u]
                                 /\ restoring'[u] = restoring[u]
      BY <2>0, <3>3, <3>4, <3>5, RenderIsSafe
    <3>7. \A u \in Tabs \ {t} : TabIsSafe(u)'
      BY <3>1, <3>4, <3>6, OthersStaySafe DEF Safe
    <3>8. \A u \in Tabs : connecting'[u] = None
      BY <2>5, <3>1 DEF DisconnectAll, Quiet
    <3>. QED
      BY <3>3, <3>6, <3>7, <3>8 DEF Safe, ConnectingIsSafe, OneWallet
  <2>6. ASSUME NEW t \in Tabs, Reload(t)
        PROVE  Safe'
    <3>1. Safe
      BY <2>6, <2>9 DEF Reload, storage
    <3>2. saved' = saved /\ savedType' = savedType /\ OneWallet(saved, savedType)
      BY <2>6, <3>1 DEF Reload, storage, Safe
    <3>3. /\ connections'[t] = NoChains /\ walletType'[t] = None
          /\ restoring'[t] = LoadAll(saved, savedType, FALSE)
      BY <2>6 DEF Reload, TypeOK
    <3>4. ASSUME NEW r \in LoadAll(saved, savedType, FALSE) PROVE Consistent(r, savedType, None)
      <4>1. savedType # None
        BY <3>4 DEF LoadAll
      <4>2. PICK c \in Chains : saved[c] # None /\ r = [chain |-> c, wallet |-> saved[c], known |-> FALSE]
        BY <3>4, <4>1 DEF LoadAll
      <4>. QED
        BY <3>2, <4>2 DEF OneWallet, Consistent
    <3>5. TabIsSafe(t)'
      BY <2>0, <3>2, <3>3, <3>4 DEF TabIsSafe, OneWallet
    <3>6. \A u \in Tabs \ {t} : /\ connections'[u] = connections[u] /\ walletType'[u] = walletType[u]
                              /\ restoring'[u] = restoring[u]
      BY <2>6 DEF Reload, TypeOK
    <3>7. \A u \in Tabs \ {t} : TabIsSafe(u)'
      BY <3>1, <3>2, <3>6, OthersStaySafe DEF Safe
    <3>8. \A u \in Tabs : connecting'[u] = (IF u = t THEN None ELSE connecting[u])
      BY <2>6 DEF Reload, TypeOK
    <3>9. \A u \in Tabs : ConnectingIsSafe(u)'
      BY <3>1, <3>2, <3>8 DEF Safe, ConnectingIsSafe, OneWallet
    <3>. QED
      BY <3>2, <3>5, <3>7, <3>9 DEF Safe, OneWallet
  <2>7. ASSUME NEW t \in Tabs, NEW r \in restoring[t], Reconnected(t, r)
        PROVE  Safe'
    <3>1. Safe
      BY <2>7, <2>9 DEF Reconnected
    <3>2. saved' = saved /\ savedType' = savedType /\ OneWallet(saved', savedType')
      BY <2>7, <3>1 DEF Reconnected, storage, Safe, OneWallet
    <3>3. OneWallet(connections[t], walletType[t]) /\ Consistent(r, savedType, walletType[t])
      BY <3>1 DEF Safe, TabIsSafe
    <3>4. TypeOfTab(t, r) = r.wallet
      BY <3>3 DEF TypeOfTab, Consistent
    <3>5. r \in Reconnection /\ r.wallet \in MaybeWallet /\ r.wallet # None
      BY NoneAssumption DEF TypeOK, Reconnection, MaybeWallet
    <3>6. OneWallet(connections[t], r.wallet)
      BY <3>3 DEF OneWallet, Consistent
    <3>7. OneWallet(With(connections[t], {r.chain}, r.wallet), r.wallet)
      BY <3>6, WithOneWallet
    <3>8. With(connections[t], {r.chain}, r.wallet) \in ChainMap
      BY <3>5, WithType DEF TypeOK
    <3>9. \A s \in restoring[t] \ {r} : Consistent(s, savedType', r.wallet)
      BY <3>1, <3>2, <3>3, <3>5 DEF Safe, TabIsSafe, Consistent
    <3>10. savedType' \in {None, r.wallet}
      BY <3>2, <3>3 DEF Consistent
    <3>11. restoring[t] \ {r} \in SUBSET Reconnection
      BY DEF TypeOK
    <3>12. Render(t, With(connections[t], {r.chain}, r.wallet), r.wallet, restoring[t] \ {r})
      BY <2>7, <3>4 DEF Reconnected
    <3>13. /\ TabIsSafe(t)'
           /\ \A u \in Tabs \ {t} : /\ connections'[u] = connections[u]
                                  /\ walletType'[u] = walletType[u]
                                  /\ restoring'[u] = restoring[u]
      BY <3>2, <3>5, <3>7, <3>8, <3>9, <3>10, <3>11, <3>12, RenderIsSafe
    <3>14. \A u \in Tabs \ {t} : TabIsSafe(u)'
      BY <3>1, <3>2, <3>13, OthersStaySafe DEF Safe
    <3>15. \A u \in Tabs : ConnectingIsSafe(u)'
      BY <2>7, <3>1, <3>2 DEF Reconnected, Safe, ConnectingIsSafe, OneWallet
    <3>. QED
      BY <3>2, <3>13, <3>14, <3>15 DEF Safe, OneWallet
  <2>8. ASSUME NEW t \in Tabs, NEW r \in restoring[t], ReconnectFails(t, r)
        PROVE  Safe'
    <3>1. Safe
      BY <2>8, <2>9 DEF ReconnectFails
    <3>2. saved' = Without(saved, {r.chain}) /\ savedType' = savedType
      BY <2>8 DEF ReconnectFails
    <3>3. OneWallet(saved', savedType')
      BY <3>1, <3>2, WithOneWallet DEF Safe
    <3>4. \A u \in Tabs : connections'[u] = connections[u] /\ walletType'[u] = walletType[u]
                         /\ restoring'[u] \subseteq restoring[u]
      BY <2>8 DEF ReconnectFails, TypeOK
    <3>5. \A u \in Tabs : TabIsSafe(u)'
      BY <3>1, <3>2, <3>4, OthersStaySafe DEF Safe
    <3>6. \A u \in Tabs : ConnectingIsSafe(u)'
      BY <2>8, <3>1, <3>2 DEF ReconnectFails, Safe, ConnectingIsSafe, OneWallet
    <3>. QED
      BY <3>3, <3>5, <3>6 DEF Safe, OneWallet
  <2>11. CASE UNCHANGED vars
    BY <2>11 DEF vars, page, storage, CalmInv, TabIsSafe, ConnectingIsSafe, OneWallet
  <2>. QED
    BY <2>1, <2>2, <2>3, <2>4, <2>5, <2>6, <2>7, <2>8, <2>10, <2>11 DEF Next, Restore
<1>3. TypeOK /\ CalmInv => CalmUseHasOneWallet
  <2>. SUFFICES ASSUME CalmInv, calm PROVE CalmUseHasOneWallet
    BY DEF CalmUseHasOneWallet
  <2>1. OneWallet(saved, savedType) /\ \A t \in Tabs : OneWallet(connections[t], walletType[t])
    BY DEF CalmInv, TabIsSafe
  <2>2. \A t \in Tabs : \A c \in Connected(t) : CanSign(t, c)
    BY <2>1 DEF OneWallet, Connected, CanSign
  <2>. QED
    BY <2>1, <2>2 DEF OneWallet, CalmUseHasOneWallet
<1>. QED
  BY <1>1, <1>2, <1>3, TypeCorrect, PTL DEF Spec
=============================================================================
