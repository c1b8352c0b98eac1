-------------------------- MODULE WalletConnections --------------------------
(***************************************************************************)
(* The wallet provider of client_app/src/context/walletContext.tsx and its *)
(* dialog, components/ui/wallet/walletModel.tsx, in several tabs of one    *)
(* browser: each tab keeps its connections in React state, all of them     *)
(* share localStorage, and nothing tells a tab what another has stored.    *)
(*                                                                         *)
(* The address on a chain is kept as the wallet it belongs to.  The route  *)
(* decides which chains the dialog requires, so any non-empty set of       *)
(* chains may be selected and any connected chain taken off.  Between a    *)
(* click and the keys, connect awaits the wallet several times without     *)
(* touching any state: that is one pending record.  An action is one event *)
(* with the effects of the renders it causes.                              *)
(***************************************************************************)
EXTENDS FiniteSets, Naturals

CONSTANTS
    Tabs,      \* the browser's tabs
    Chains,    \* chain ids
    Wallets,   \* WalletType
    None,      \* null, or a key that localStorage does not have
    MaxClicks  \* bound: clicks and reloads

ASSUME NoneAssumption   == None \notin Wallets
ASSUME ChainsAssumption == IsFiniteSet(Chains)
ASSUME ClicksAssumption == MaxClicks \in Nat

VARIABLES
    connections, \* per tab: the wallet of each connected chain
    walletType,  \* per tab: the wallet type of the React state
    connecting,  \* per tab: the connect call of the dialog, or None
    restoring,   \* per tab: the reconnections under way
    saved,       \* localStorage: spectra_portal_wallet_<chain>
    savedType,   \* localStorage: spectra_portal_wallet_type
    calm,        \* history: no user ever acted while a wallet was being awaited
    clicks       \* consumed bound

page    == <<connections, walletType, connecting, restoring>>
storage == <<saved, savedType>>
vars    == <<page, storage, calm, clicks>>

----------------------------------------------------------------------------
(* Data *)

MaybeWallet    == Wallets \cup {None}
ChainMap       == [Chains -> MaybeWallet]
NoChains       == [c \in Chains |-> None]
Call           == [wallet : Wallets, chains : SUBSET Chains \ {{}}, snapshot : ChainMap]
\* known: autoReconnectToChain was created in a render that had a wallet type.
Reconnection   == [chain : Chains, wallet : Wallets, known : BOOLEAN]

Connected(t) == {c \in Chains : connections[t][c] # None}
isConnected(t) == Connected(t) # {}
Quiet == \A t \in Tabs : connecting[t] = None /\ restoring[t] = {}

With(map, chains, wallet) == [c \in Chains |-> IF c \in chains THEN wallet ELSE map[c]]
Without(map, chains)      == With(map, chains, None)

\* loadAllWalletStates: nothing without a saved type.
LoadAll(entries, type, known) ==
    IF type = None THEN {}
    ELSE {[chain |-> c, wallet |-> entries[c], known |-> known] :
             c \in {d \in Chains : entries[d] # None}}

\* The effect's callback depends on the wallet type alone.
Restarts(t, type) == type # walletType[t]

\* setConnections and setWalletType of tab t, with the effect of the render:
\* a changed wallet type starts the reconnections again.
Render(t, chains, type, waiting) ==
    /\ connections' = [connections EXCEPT ![t] = chains]
    /\ walletType' = [walletType EXCEPT ![t] = type]
    /\ restoring' = [restoring EXCEPT ![t] =
           IF Restarts(t, type)
           THEN waiting \cup LoadAll(saved', savedType', type # None)
           ELSE waiting]

Click ==
    /\ clicks < MaxClicks /\ clicks' = clicks + 1
    /\ calm' = (calm /\ Quiet)

Init ==
    /\ connections = [t \in Tabs |-> NoChains]
    /\ walletType = [t \in Tabs |-> None]
    /\ connecting = [t \in Tabs |-> None]
    /\ restoring = [t \in Tabs |-> {}]
    /\ saved = NoChains /\ savedType = None
    /\ calm = TRUE /\ clicks = 0

----------------------------------------------------------------------------
(* connect *)

\* Mutant: the type is not looked up.
Refuses_Never(wallet) == FALSE
\* connect throws if localStorage holds another wallet.
Refuses(wallet) == savedType \notin {None, wallet}

\* The dialog offers a wallet while nothing else is connected in this tab.
Offered(t, wallet) == connecting[t] = None /\ (isConnected(t) => walletType[t] = wallet)

\* A wallet is clicked with some chains selected: a call that is refused changes
\* nothing, the others go on with the connections of the render that was clicked.
ConnectBegins(t, wallet, chains) ==
    /\ Click /\ Offered(t, wallet) /\ ~Refuses(wallet)
    /\ connecting' = [connecting EXCEPT ![t] =
           [wallet |-> wallet, chains |-> chains, snapshot |-> connections[t]]]
    /\ UNCHANGED <<connections, walletType, restoring, storage>>

\* The keys of the chains in keys arrive, the others are rejected: each is
\* saved, and the snapshot with them becomes the tab's connections.
ConnectEnds(t, keys) ==
    LET call == connecting[t] IN
    /\ call # None /\ keys \subseteq call.chains
    /\ connecting' = [connecting EXCEPT ![t] = None]
    /\ saved' = With(saved, keys, call.wallet)
    /\ savedType' = IF keys = {} THEN savedType ELSE call.wallet
    /\ Render(t, With(call.snapshot, keys, call.wallet), call.wallet, restoring[t])
    /\ UNCHANGED <<calm, clicks>>

\* The wallet is not installed, or enable or the suggestion is rejected.
ConnectFails(t) ==
    /\ connecting[t] # None
    /\ connecting' = [connecting EXCEPT ![t] = None]
    /\ UNCHANGED <<connections, walletType, restoring, storage, calm, clicks>>

----------------------------------------------------------------------------
(* disconnect *)

\* Mutant: the type goes with the last connection of the tab.
TypeLeft_OfTab(t, chain) == IF Connected(t) = {chain} THEN None ELSE savedType
\* clearWalletState of one chain leaves the saved type alone.
TypeLeft(t, chain) == savedType

\* disconnect([chain]); the last chain takes the type out of the React state.
DisconnectChain(t, chain) ==
    /\ Click /\ chain \in Connected(t)
    /\ saved' = Without(saved, {chain})
    /\ savedType' = TypeLeft(t, chain)
    /\ Render(t, Without(connections[t], {chain}),
              IF Cardinality(Connected(t)) - 1 = 0 THEN None ELSE walletType[t],
              restoring[t])
    /\ UNCHANGED connecting

\* disconnect(): every key with the prefix is removed, the type's too.
DisconnectAll(t) ==
    /\ Click /\ isConnected(t)
    /\ saved' = NoChains /\ savedType' = None
    /\ Render(t, NoChains, None, restoring[t])
    /\ UNCHANGED connecting

----------------------------------------------------------------------------
(* The provider is mounted, and reconnects *)

\* The tab is loaded anew: what it awaited is gone, the effect of the mount
\* reads localStorage.
Reload(t) ==
    /\ clicks < MaxClicks /\ clicks' = clicks + 1
    /\ connections' = [connections EXCEPT ![t] = NoChains]
    /\ walletType' = [walletType EXCEPT ![t] = None]
    /\ connecting' = [connecting EXCEPT ![t] = None]
    /\ restoring' = [restoring EXCEPT ![t] = LoadAll(saved, savedType, FALSE)]
    /\ UNCHANGED <<storage, calm>>

\* Mutant: every reconnection sets the type.
TypeOfTab_Always(t, r) == r.wallet
\* A tab that had no type when the reconnection started takes the saved one.
TypeOfTab(t, r) == IF r.known THEN walletType[t] ELSE r.wallet

\* A wallet gives the key: the chain is added to what is connected by now.
Reconnected(t, r) ==
    /\ r \in restoring[t]
    /\ UNCHANGED storage
    /\ Render(t, With(connections[t], {r.chain}, r.wallet), TypeOfTab(t, r), restoring[t] \ {r})
    /\ UNCHANGED <<connecting, calm, clicks>>

\* The wallet is missing, locked or rejects: the chain's entry is removed.
ReconnectFails(t, r) ==
    /\ r \in restoring[t]
    /\ restoring' = [restoring EXCEPT ![t] = @ \ {r}]
    /\ saved' = Without(saved, {r.chain})
    /\ UNCHANGED <<connections, walletType, connecting, savedType, calm, clicks>>

\* sendTransaction signs for the address of a connected chain: the wallet of
\* the tab's type must own it.
CanSign(t, chain) == walletType[t] # None /\ connections[t][chain] = walletType[t]

----------------------------------------------------------------------------
(* Specification *)

Restore(t) == \E r \in restoring[t] : Reconnected(t, r) \/ ReconnectFails(t, r)

Next == \E t \in Tabs :
    \/ \E w \in Wallets, chains \in SUBSET Chains \ {{}} : ConnectBegins(t, w, chains)
    \/ \E keys \in SUBSET Chains : ConnectEnds(t, keys)
    \/ ConnectFails(t)
    \/ \E c \in Chains : DisconnectChain(t, c)
    \/ DisconnectAll(t) \/ Reload(t) \/ Restore(t)

Spec == Init /\ [][Next]_vars

\* A wallet answers or rejects the keys it is asked for.  Whether the user ever
\* confirms a connection is left open.
FairSpec == Spec /\ \A t \in Tabs : WF_vars(Restore(t))

----------------------------------------------------------------------------
(* Properties *)

\* Every variable keeps its type; in particular a chain is only reconnected
\* with a wallet, and a snapshot holds chains of the tab.
TypeOK ==
    /\ connections \in [Tabs -> ChainMap]
    /\ walletType \in [Tabs -> MaybeWallet]
    /\ connecting \in [Tabs -> Call \cup {None}]
    /\ restoring \in [Tabs -> SUBSET Reconnection]
    /\ saved \in ChainMap /\ savedType \in MaybeWallet
    /\ calm \in BOOLEAN /\ clicks \in 0 .. MaxClicks

\* A chain that is saved is found again: loadAllWalletStates reads no chain
\* without a saved type, and no order of connects, disconnects, failures and
\* reloads in any number of tabs leaves a chain in localStorage without one.
SavedIsRestorable == (\E c \in Chains : saved[c] # None) => savedType # None

\* The check of the type in localStorage is enough as long as users wait for
\* their wallets: then localStorage holds the chains of one wallet, the saved
\* one, and every chain a tab shows as connected can be signed for.
CalmUseHasOneWallet ==
    calm =>
        /\ \A c \in Chains : saved[c] \in {None, savedType}
        /\ \A t \in Tabs : \A c \in Connected(t) : CanSign(t, c)

\* Reconnecting ends: the effect that a reconnection re-runs through the wallet
\* type it sets does not feed itself, not even when the chains of two wallets
\* are saved.
RestoringEnds == \A t \in Tabs : restoring[t] # {} ~> restoring[t] = {}

==============================================================================
