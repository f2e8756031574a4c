-------------------------------- MODULE Unspents --------------------------------
(***************************************************************************)
(* ListUnspent (vas/manager.go) and what is made of its outputs: the        *)
(* balances of getBalanceCalUnspent (vas/blockscaner.go) and the outputs    *)
(* that keepOmniCostUTXONotToUse (vas/tx_decode.go) lets a summary use.      *)
(*                                                                         *)
(* The node is asked for one page of addresses after the other, and between *)
(* two pages its outputs are received, confirmed and spent.                 *)
(***************************************************************************)
EXTENDS Integers, Sequences, FiniteSets

CONSTANTS Output,             \* the outputs there may be: an id, address and amount
          AddressLists,       \* the lists of addresses asked for
          Limit,              \* how many addresses a page has, 100 in the code
          OmniSupport,        \* Config.OmniSupport
          OmniTransferCost,   \* Config.OmniTransferCost
          Moves               \* bound: how often the node's outputs change

ASSUME UnspentsAssumption ==
    /\ IsFiniteSet(Output)
    /\ \A o \in Output : o.amount \in Nat
    /\ \A s \in AddressLists : Len(s) \in Nat
    /\ Limit \in Nat \ {0}
    /\ OmniSupport \in BOOLEAN
    /\ OmniTransferCost \in Nat
    /\ Moves \in Nat

VARIABLES
    unspent,     \* the node's unspent outputs, ...
    confirmed,   \* those with a confirmation, ...
    spent,       \* those that are spent
    moves,       \* bound: the changes left
    pc,          \* "idle", "page", "done", or "error" when a page failed
    addresses,   \* what ListUnspent was called with ...
    min,
    i,           \* its page, ...
    utxo,        \* the outputs listed so far, and whether they were confirmed
    \* what happened, for the properties only
    asked,       \* how often each place of the list was asked for
    request,     \* how many addresses the last request had
    moments      \* what the node had at each moment since the call began

nodeVars == <<unspent, confirmed, spent, moves>>
callVars == <<pc, addresses, min, i, utxo, asked, request>>
vars == <<nodeVars, callVars, moments>>

Moment == [unspent |-> unspent, confirmed |-> confirmed]

Init ==
    /\ unspent \in SUBSET Output
    /\ confirmed \in SUBSET unspent
    /\ spent = {}
    /\ moves = Moves
    /\ pc = "idle"
    /\ addresses = << >>
    /\ min = 0
    /\ i = 0
    /\ utxo = << >>
    /\ asked = << >>
    /\ request = 1
    /\ moments = {}

-------------------------------------------------------------------------------
(* The node.                                                               *)

\* A transaction spends outputs and makes others, which are not confirmed yet.
Transact(ins, outs) ==
    /\ ins \subseteq unspent
    /\ outs \cap (unspent \union spent) = {}
    /\ unspent' = (unspent \ ins) \union outs
    /\ spent' = spent \union ins
    /\ confirmed' = confirmed \ ins

\* A block confirms some.
Confirm(outs) ==
    /\ outs \subseteq unspent
    /\ confirmed' = confirmed \union outs
    /\ UNCHANGED <<unspent, spent>>

\* What the node does before the call is in Init.
NodeMoves ==
    /\ pc = "page"
    /\ moves > 0
    /\ moves' = moves - 1
    /\ \E ins, outs \in SUBSET Output : Transact(ins, outs) \/ (ins = {} /\ Confirm(outs))
    /\ moments' = moments \union {Moment'}
    /\ UNCHANGED callVars

-------------------------------------------------------------------------------
(* ListUnspent.                                                            *)

Call(s, m) ==
    /\ pc = "idle"
    /\ pc' = "page"
    /\ addresses' = s
    /\ min' = m
    /\ asked' = [k \in 1..Len(s) |-> 0]
    /\ moments' = {Moment}
    /\ UNCHANGED <<nodeVars, i, utxo, request>>

\* The page's addresses: those after the place Begin up to the place End.
Step == Len(addresses) \div Limit
Begin == i * Limit
EndOf == (i + 1) * Limit
End == IF EndOf > Len(addresses) THEN Len(addresses) ELSE EndOf

InPage == pc = "page" /\ i <= Step

\* A page without addresses is not asked for.
EmptyPageNever == FALSE                       \* mutant: it is asked for
EmptyPage == Begin = End

SkipPage ==
    /\ InPage
    /\ EmptyPage
    /\ i' = i + 1
    /\ UNCHANGED <<nodeVars, pc, addresses, min, utxo, asked, request, moments>>

\* What the node lists for the addresses of the page: in what order is its own.
Listed(S) == {o \in unspent : o.address \in S /\ (min = 0 \/ o \in confirmed)}
Orders(S) == {f \in [1..Cardinality(S) -> S] : \A j, k \in DOMAIN f : f[j] = f[k] => j = k}
WithConfirmations(f) == [k \in DOMAIN f |-> [out |-> f[k], conf |-> f[k] \in confirmed]]

CollectLast(pice) == pice                     \* mutant: the last page only
Collect(pice) == utxo \o pice

\* The node refuses a request that names an address twice.
Distinct(s, from, to) == \A j, k \in from..to : s[j] = s[k] => j = k

AskPage ==
    /\ InPage
    /\ ~EmptyPage
    /\ Distinct(addresses, Begin + 1, End)
    /\ \E f \in Orders(Listed({addresses[k] : k \in (Begin + 1)..End})) :
          utxo' = Collect(WithConfirmations(f))
    /\ asked' = [k \in DOMAIN asked |-> asked[k] + (IF k \in (Begin + 1)..End THEN 1 ELSE 0)]
    /\ request' = End - Begin
    /\ i' = i + 1
    /\ UNCHANGED <<nodeVars, pc, addresses, min, moments>>

\* The node's answer is an error, or there is none: what was listed is given up.
PageFails ==
    /\ InPage
    /\ ~EmptyPage
    /\ pc' = "error"
    /\ utxo' = << >>
    /\ UNCHANGED <<nodeVars, addresses, min, i, asked, request, moments>>

LastPage ==
    /\ pc = "page"
    /\ i > Step
    /\ pc' = "done"
    /\ UNCHANGED <<nodeVars, addresses, min, i, utxo, asked, request, moments>>

Next ==
    \/ NodeMoves
    \/ \E s \in AddressLists, m \in {0, 1} : Call(s, m)
    \/ SkipPage \/ AskPage \/ PageFails \/ LastPage

Spec == Init /\ [][Next]_vars

-------------------------------------------------------------------------------
(* What callers make of the list.                                          *)

\* calculateUnspent: what is confirmed, and what is not, for each address.
SumOf(s, a, c) ==
    LET sum[k \in 0..Len(s)] ==
            IF k = 0 THEN 0
            ELSE sum[k - 1] + (IF s[k].out.address = a /\ s[k].conf = c
                               THEN s[k].out.amount ELSE 0)
    IN  sum[Len(s)]

Balance(a) == [confirm |-> SumOf(utxo, a, TRUE), unconfirm |-> SumOf(utxo, a, FALSE)]

\* keepOmniCostUTXONotToUse: the first output of an address that is cheap and not
\* confirmed is kept back.
Cheap(u) == ~u.conf /\ u.out.amount <= OmniTransferCost

KeepEvery(u, keeped) == Cheap(u)              \* mutant: each of them
KeepBack(u, keeped) == Cheap(u) /\ u.out.address \notin keeped

KeepOmniCost(s) ==
    LET kept[k \in 0..Len(s)] ==
            IF k = 0 THEN {}
            ELSE IF KeepBack(s[k], {s[j].out.address : j \in kept[k - 1]})
                 THEN kept[k - 1] \union {k} ELSE kept[k - 1]
    IN  IF OmniSupport THEN kept[Len(s)] ELSE {}

-------------------------------------------------------------------------------
(* Properties.                                                             *)

\* Every address of the list is asked for once, however many there are: at a
\* multiple of the page size too, where the last page is empty.  No request is
\* longer than a page, and none is empty, which the node would take for a request
\* for all the addresses of its wallet.
AskedOnce ==
    /\ request \in 1..Limit
    /\ pc = "done" => \A k \in 1..Len(addresses) : asked[k] = 1

\* What the outputs of each subset of U are worth together.
AmountOver(U) ==
    LET sum[S \in SUBSET U] ==
            IF S = {} THEN 0 ELSE LET o == CHOOSE o \in S : TRUE IN o.amount + sum[S \ {o}]
    IN  sum

\* What address a has at moment m, as the node counts it.
HeldAt(m, a) ==
    LET held(c) == {o \in m.unspent : o.address = a /\ (o \in m.confirmed) = c}
        sum == AmountOver(m.unspent)
    IN  [confirm |-> sum[held(TRUE)], unconfirm |-> IF min = 0 THEN sum[held(FALSE)] ELSE 0]

\* The balance of an address is that of one moment between the call and its
\* answer, though those of two addresses need not be of the same one, and though
\* the node's outputs change between two pages.  An address listed twice, on two
\* pages, is counted twice.
BalanceOfOneMoment ==
    pc = "done" =>
        \A k \in 1..Len(addresses) :
            (\A j \in 1..Len(addresses) : addresses[j] = addresses[k] => j = k) =>
                \E m \in moments : Balance(addresses[k]) = HeldAt(m, addresses[k])

\* An address that has outputs of the cost of a token transfer or less, not yet
\* confirmed, keeps one of them back, and no address keeps anything else.
KeepsOneBack ==
    pc = "done" =>
        LET kept == KeepOmniCost(utxo) IN
        /\ kept \subseteq {k \in 1..Len(utxo) : Cheap(utxo[k])}
        /\ \A j, k \in kept : utxo[j].out.address = utxo[k].out.address => j = k
        /\ OmniSupport =>
              \A k \in 1..Len(utxo) :
                  Cheap(utxo[k]) => \E j \in kept : utxo[j].out.address = utxo[k].out.address
===============================================================================
