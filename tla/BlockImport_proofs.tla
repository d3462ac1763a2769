------------------------- MODULE BlockImport_proofs -------------------------
(***************************************************************************)
(* Proofs about a growing chain.  Its state, for every set of accounts,     *)
(* slots and codes: what is persisted and the consumer's copy of it follow  *)
(* the EVM's.  Its headers, for every gas limit, fee range, fork time,      *)
(* attributes and parent: the base fee stays in its range and moves in      *)
(* bounded steps, a sealed header survives the way through the engine API,  *)
(* time and forks only move forward, and an honest block is never refused.  *)
(***************************************************************************)
EXTENDS BlockImport, TLAPS

(* What an import check leaves alone, whatever its verdict.                   *)
LEMMA NewPayloadFrame ==
    ASSUME NewPayload
    PROVE  /\ step = "sealed" /\ step' \in {"valid", "rejected"}
           /\ UNCHANGED <<world, hashed, mirror, unzen, sealed, fresh, bundle, config, ops>>
           /\ UNCHANGED <<head, grandTime, attributes, honest, header>>
BY DEF NewPayload, ValidateRoot

Code(state, a) == IF state.info[a] = None THEN EmptyCode ELSE state.info[a].code
IsDestroyed(a) == bundle[a] # None /\ bundle[a].destroyed

(* A bundle entry tells what the block did to a slot, and to an account.      *)
SlotFollows(e, a, s) ==
    LET before == IF e.destroyed THEN 0 ELSE hashed.slots[a][s] IN
    IF e.slots[s] = None THEN world.slots[a][s] = before
    ELSE e.slots[s].original = before /\ e.slots[s].present = world.slots[a][s]

Follows(a) ==
    IF bundle[a] = None
    THEN world.info[a] = hashed.info[a] /\ world.slots[a] = hashed.slots[a]
    ELSE /\ bundle[a].original = hashed.info[a] /\ bundle[a].info = world.info[a]
         /\ bundle[a].info = None => bundle[a].destroyed
         /\ \A s \in Slots : SlotFollows(bundle[a], a, s)

StateTypes ==
    /\ world \in States /\ hashed \in States /\ fresh \subseteq Accounts
    /\ bundle \in [Accounts -> Entries \cup {None}]
    /\ unzen \in [parent : BOOLEAN, block : BOOLEAN]
    /\ step \in {"idle", "execute", "sealed", "valid", "traced", "rejected"}

(* Only contracts have storage, and only a destruction removes code; under    *)
(* Unzen what is destroyed had no storage when the block started.             *)
AccountInv(a) ==
    /\ Follows(a)
    /\ Code(world, a) = EmptyCode => world.slots[a] = NoSlots
    /\ Code(hashed, a) = EmptyCode => hashed.slots[a] = NoSlots
    /\ ~IsDestroyed(a) /\ Code(world, a) = EmptyCode => Code(hashed, a) = EmptyCode
    /\ unzen.block /\ (a \in fresh \/ IsDestroyed(a)) => hashed.slots[a] = NoSlots

StorageInv == \A a \in Accounts : AccountInv(a)

IdleInv == step = "idle" => hashed = world /\ bundle = Untouched /\ fresh = {}

StateInv == StateTypes /\ StorageInv /\ IdleInv

(* The consumer's copy is the state before the block, then the one after it.  *)
Copies(state) ==
    /\ mirror.info = state.info /\ mirror.slots = state.slots
    /\ \A a \in Accounts : Code(state, a) \in mirror.codes \cup {EmptyCode}

MirrorInv == IF step \in {"traced", "idle"} THEN Copies(world) ELSE Copies(hashed)

-----------------------------------------------------------------------------
(* The pieces of a state.                                                   *)

LEMMA StateShape ==
    ASSUME NEW x \in States
    PROVE  /\ x = [info |-> x.info, slots |-> x.slots]
           /\ x.info \in [Accounts -> Infos \cup {None}] /\ x.slots \in [Accounts -> [Slots -> Words]]
BY DEF States

(* Writing an account's info, or one of its slots. *)
LEMMA InfoWritten ==
    ASSUME world \in States, NEW a \in Accounts, NEW info \in Infos,
           world' = [world EXCEPT !.info[a] = info]
    PROVE  /\ world' \in States /\ world'.slots = world.slots /\ world'.info[a] = info
           /\ \A b \in Accounts \ {a} : world'.info[b] = world.info[b]
<1>1. /\ world = [info |-> world.info, slots |-> world.slots]
      /\ world.info \in [Accounts -> Infos \cup {None}] /\ world.slots \in [Accounts -> [Slots -> Words]]
    BY StateShape
<1>2. world' = [info |-> [world.info EXCEPT ![a] = info], slots |-> world.slots]
    BY <1>1
<1>3. [world.info EXCEPT ![a] = info] \in [Accounts -> Infos \cup {None}]
    BY <1>1
<1>. QED
    BY Zenon, <1>1, <1>2, <1>3 DEF States

LEMMA SlotWritten ==
    ASSUME world \in States, NEW a \in Accounts, NEW s \in Slots, NEW v \in Words,
           world' = [world EXCEPT !.slots[a][s] = v]
    PROVE  /\ world' \in States /\ world'.info = world.info /\ world'.slots[a][s] = v
           /\ \A t \in Slots \ {s} : world'.slots[a][t] = world.slots[a][t]
           /\ \A b \in Accounts \ {a} : world'.slots[b] = world.slots[b]
<1>1. /\ world = [info |-> world.info, slots |-> world.slots]
      /\ world.info \in [Accounts -> Infos \cup {None}] /\ world.slots \in [Accounts -> [Slots -> Words]]
    BY StateShape
<1>2. world' = [info |-> world.info, slots |-> [world.slots EXCEPT ![a] = [world.slots[a] EXCEPT ![s] = v]]]
    BY Zenon, <1>1
<1>3. [world.slots[a] EXCEPT ![s] = v] \in [Slots -> Words]
    BY <1>1
<1>4. [world.slots EXCEPT ![a] = [world.slots[a] EXCEPT ![s] = v]] \in [Accounts -> [Slots -> Words]]
    BY <1>1, <1>3
<1>5. world' \in States
    BY Zenon, <1>1, <1>2, <1>4 DEF States
<1>6. world'.info = world.info /\ world'.slots = [world.slots EXCEPT ![a] = [world.slots[a] EXCEPT ![s] = v]]
    BY <1>2
<1>7. world'.slots[a] = [world.slots[a] EXCEPT ![s] = v]
    BY <1>1, <1>6
<1>8. world'.slots[a][s] = v /\ \A t \in Slots \ {s} : world'.slots[a][t] = world.slots[a][t]
    BY <1>1, <1>7
<1>9. \A b \in Accounts \ {a} : world'.slots[b] = world.slots[b]
    BY <1>1, <1>6
<1>. QED
    BY <1>5, <1>6, <1>8, <1>9

LEMMA BundleWritten ==
    ASSUME bundle \in [Accounts -> Entries \cup {None}], NEW a \in Accounts, NEW e \in Entries,
           bundle' = [bundle EXCEPT ![a] = e]
    PROVE  /\ bundle' \in [Accounts -> Entries \cup {None}] /\ bundle'[a] = e
           /\ \A b \in Accounts \ {a} : bundle'[b] = bundle[b]
OBVIOUS

(* The entry an operation starts from describes the account as it is. *)
LEMMA EntryDescribes ==
    ASSUME StateTypes, NEW a \in Accounts, Follows(a)
    PROVE  /\ Entry(a) \in Entries /\ Entry(a).original = hashed.info[a] /\ Entry(a).info = world.info[a]
           /\ Entry(a).destroyed = IsDestroyed(a)
           /\ \A s \in Slots : SlotFollows(Entry(a), a, s)
<1>1. world.info[a] \in Infos \cup {None} /\ world \in States /\ hashed \in States
    BY StateShape DEF StateTypes
<1>2. CASE bundle[a] = None
    <2>. DEFINE e == [original |-> world.info[a], info |-> world.info[a], destroyed |-> FALSE,
                      slots |-> [s \in Slots |-> None]]
    <2>1. Entry(a) = e
        BY <1>2 DEF Entry
    <2>2. e \in Entries
        BY <1>1 DEF Entries
    <2>3. \A s \in Slots : SlotFollows(e, a, s)
        BY <1>2 DEF SlotFollows, Follows
    <2>4. e.original = world.info[a] /\ e.info = world.info[a] /\ e.destroyed = FALSE
        OBVIOUS
    <2>5. IsDestroyed(a) = FALSE /\ world.info[a] = hashed.info[a]
        BY <1>2 DEF IsDestroyed, Follows
    <2>. HIDE DEF e
    <2>. QED
        BY Zenon, <2>1, <2>2, <2>3, <2>4, <2>5
<1>3. CASE bundle[a] # None
    <2>1. Entry(a) = bundle[a] /\ bundle[a] \in Entries
        BY <1>3 DEF Entry, StateTypes
    <2>2. bundle[a].destroyed \in BOOLEAN
        BY <2>1 DEF Entries
    <2>3. bundle[a].destroyed = IsDestroyed(a)
        BY <1>3, <2>2 DEF IsDestroyed
    <2>. QED
        BY <1>3, <2>1, <2>3 DEF Follows
<1>. QED
    BY <1>2, <1>3

(* Setting the info of an entry. *)
LEMMA EntryInfo ==
    ASSUME NEW e \in Entries, NEW info \in Infos, NEW d, d = [e EXCEPT !.info = info]
    PROVE  /\ d \in Entries /\ d.original = e.original /\ d.info = info /\ d.destroyed = e.destroyed
           /\ d.slots = e.slots
BY DEF Entries

(* An account the step does not touch. *)
LEMMA OtherAccount ==
    ASSUME NEW b \in Accounts, AccountInv(b), UNCHANGED <<hashed, unzen>>, bundle'[b] = bundle[b],
           world'.info[b] = world.info[b], world'.slots[b] = world.slots[b], b \in fresh' => b \in fresh
    PROVE  AccountInv(b)'
<1>1. IsDestroyed(b)' = IsDestroyed(b) /\ Code(world, b)' = Code(world, b) /\ Code(hashed, b)' = Code(hashed, b)
    BY DEF IsDestroyed, Code
<1>2. Follows(b)'
    BY DEF AccountInv, Follows, SlotFollows
<1>. QED
    BY <1>1, <1>2 DEF AccountInv

LEMMA CodesOfInfos ==
    ASSUME NEW info \in Infos
    PROVE  info # None /\ info.balance \in Words /\ info.code \in Codes \cup {EmptyCode}
BY StateAssumption DEF Infos

(* A transfer, a nonce bump, a creation: the account's info is replaced.       *)
LEMMA InfoPreserved ==
    ASSUME StateInv, NEW a \in Accounts, NEW info \in Infos, step = "execute",
           UNCHANGED <<hashed, unzen, step>>,
           world' = [world EXCEPT !.info[a] = info],
           bundle' = [bundle EXCEPT ![a] = [Entry(a) EXCEPT !.info = info]],
           info.code = EmptyCode => Code(world, a) = EmptyCode,
           fresh' = fresh \/ (fresh' = fresh \cup {a} /\ Code(world, a) = EmptyCode)
    PROVE  StateInv'
<1>. DEFINE e == [Entry(a) EXCEPT !.info = info]
<1>1. StateTypes /\ AccountInv(a) /\ Follows(a)
    BY DEF StateInv, StorageInv, AccountInv
<1>2. /\ Entry(a) \in Entries /\ Entry(a).original = hashed.info[a] /\ Entry(a).destroyed = IsDestroyed(a)
      /\ \A s \in Slots : SlotFollows(Entry(a), a, s)
    BY <1>1, EntryDescribes
<1>3. /\ e \in Entries /\ e.original = Entry(a).original /\ e.info = info /\ e.destroyed = Entry(a).destroyed
      /\ e.slots = Entry(a).slots
    BY <1>2, EntryInfo
<1>. HIDE DEF e
<1>4. bundle' = [bundle EXCEPT ![a] = e]
    BY DEF e
<1>5. /\ bundle' \in [Accounts -> Entries \cup {None}] /\ bundle'[a] = e
      /\ \A b \in Accounts \ {a} : bundle'[b] = bundle[b]
    BY <1>1, <1>3, <1>4, BundleWritten DEF StateTypes
<1>6. /\ world' \in States /\ world'.slots = world.slots /\ world'.info[a] = info
      /\ \A b \in Accounts \ {a} : world'.info[b] = world.info[b]
    BY <1>1, InfoWritten DEF StateTypes
<1>7. StateTypes'
    BY <1>1, <1>5, <1>6 DEF StateTypes
<1>8. e # None /\ info # None
    BY <1>3, CodesOfInfos, StateAssumption
<1>9. Code(world, a)' = info.code /\ Code(hashed, a)' = Code(hashed, a)
    BY <1>6, <1>8 DEF Code
<1>10. IsDestroyed(a)' = IsDestroyed(a)
    <2>1. IsDestroyed(a)' = e.destroyed
        BY <1>5, <1>8, <1>3 DEF IsDestroyed, Entries
    <2>. QED
        BY <2>1, <1>2, <1>3
<1>11. Follows(a)'
    <2>1. \A s \in Slots : SlotFollows(bundle[a], a, s)'
        BY <1>2, <1>3, <1>5, <1>6 DEF SlotFollows
    <2>. QED
        BY <2>1, <1>2, <1>3, <1>5, <1>6, <1>8 DEF Follows
<1>12. unzen'.block /\ (a \in fresh' \/ IsDestroyed(a)) => hashed.slots[a] = NoSlots
    <2>1. CASE a \in fresh \/ IsDestroyed(a)
        BY <2>1, <1>1 DEF AccountInv
    <2>2. CASE Code(world, a) = EmptyCode /\ ~IsDestroyed(a)
        BY <2>2, <1>1 DEF AccountInv
    <2>. QED
        BY <2>1, <2>2
<1>13. AccountInv(a)'
    BY <1>1, <1>6, <1>9, <1>10, <1>11, <1>12 DEF AccountInv
<1>14. ASSUME NEW b \in Accounts \ {a}
       PROVE  AccountInv(b)'
    <2>1. AccountInv(b)
        BY DEF StateInv, StorageInv
    <2>. QED
        BY <2>1, <1>5, <1>6, OtherAccount
<1>15. StorageInv'
    BY <1>13, <1>14 DEF StorageInv
<1>. QED
    BY <1>7, <1>15 DEF StateInv, IdleInv

LEMMA FundPreserved ==
    ASSUME StateInv, NEW a \in Accounts, Fund(a)
    PROVE  StateInv'
<1>. DEFINE old == IF world.info[a] = None THEN EmptyInfo ELSE world.info[a]
<1>1. PICK b \in Words : /\ world' = [world EXCEPT !.info[a] = [old EXCEPT !.balance = b]]
                         /\ bundle' = [bundle EXCEPT ![a] = [Entry(a) EXCEPT !.info = [old EXCEPT !.balance = b]]]
    BY Zenon DEF Fund
<1>2. world.info[a] \in Infos \cup {None}
    BY StateShape DEF StateInv, StateTypes
<1>3. old \in Infos /\ old.code = Code(world, a)
    BY <1>2 DEF EmptyInfo, Infos, Words, Code
<1>. HIDE DEF old
<1>4. [old EXCEPT !.balance = b] \in Infos /\ [old EXCEPT !.balance = b].code = Code(world, a)
    BY <1>3 DEF Infos
<1>. QED
    BY Zenon, <1>1, <1>4, InfoPreserved DEF Fund, Operate

LEMMA CreatePreserved ==
    ASSUME StateInv, NEW a \in Accounts, Create(a)
    PROVE  StateInv'
<1>1. PICK c \in Codes : /\ world' = [world EXCEPT !.info[a] = [balance |-> 1, code |-> c]]
                         /\ bundle' = [bundle EXCEPT ![a] = [Entry(a) EXCEPT !.info = [balance |-> 1, code |-> c]]]
    BY Zenon DEF Create
<1>2. [balance |-> 1, code |-> c] \in Infos /\ [balance |-> 1, code |-> c].code = c /\ c # EmptyCode
    BY StateAssumption DEF Infos, Words
<1>3. Code(world, a) = EmptyCode
    BY DEF Create, CodeAt, Code
<1>. QED
    BY Zenon, <1>1, <1>2, <1>3, InfoPreserved DEF Create, Operate

(* A storage write: the account keeps its code, and the slot its original.     *)
LEMMA StorePreserved ==
    ASSUME StateInv, NEW a \in Accounts, NEW s \in Slots, Store(a, s)
    PROVE  StateInv'
<1>. DEFINE v == 1 - world.slots[a][s]
            entry == Entry(a)
            original == IF entry.slots[s] # None THEN entry.slots[s].original
                        ELSE IF entry.destroyed THEN 0 ELSE world.slots[a][s]
            x == [original |-> original, present |-> v]
            e == [entry EXCEPT !.slots[s] = x]
<1>1. StateTypes /\ AccountInv(a) /\ Follows(a) /\ world \in States /\ hashed \in States
    BY DEF StateInv, StorageInv, AccountInv, StateTypes
<1>2. /\ entry \in Entries /\ entry.original = hashed.info[a] /\ entry.info = world.info[a]
      /\ entry.destroyed = IsDestroyed(a)
      /\ \A t \in Slots : SlotFollows(entry, a, t)
    BY <1>1, EntryDescribes
<1>3. world.slots[a][s] \in Words /\ hashed.slots[a][s] \in Words /\ 0 \in Words
    BY <1>1, StateShape DEF Words
<1>4. v \in Words
    BY <1>3 DEF Words
<1>. DEFINE before == IF entry.destroyed THEN 0 ELSE hashed.slots[a][s]
<1>5. before \in Words
    BY <1>3
<1>6. original = before
    <2>1. SlotFollows(entry, a, s)
        BY <1>2
    <2>2. CASE entry.slots[s] # None
        BY <2>1, <2>2 DEF SlotFollows
    <2>3. CASE entry.slots[s] = None
        BY <2>1, <2>3 DEF SlotFollows
    <2>. QED
        BY <2>2, <2>3
<1>7. x \in SlotEntries /\ x.original = before /\ x.present = v
    BY <1>4, <1>5, <1>6 DEF SlotEntries
<1>8. world' = [world EXCEPT !.slots[a][s] = v] /\ bundle' = [bundle EXCEPT ![a] = e]
    BY DEF Store
<1>9. CodeAt(a) # EmptyCode /\ step = "execute" /\ UNCHANGED <<hashed, unzen, step, fresh>>
    BY DEF Store, Operate
<1>. HIDE DEF x, v, original, entry, e
<1>e. e = [entry EXCEPT !.slots[s] = x]
    BY DEF e
<1>10. /\ e \in Entries /\ e.original = entry.original /\ e.info = entry.info /\ e.destroyed = entry.destroyed
       /\ e.slots[s] = x /\ \A t \in Slots \ {s} : e.slots[t] = entry.slots[t]
    <2>1. entry.slots \in [Slots -> SlotEntries \cup {None}]
        BY <1>2 DEF Entries
    <2>2. e = [original |-> entry.original, info |-> entry.info, destroyed |-> entry.destroyed,
               slots |-> [entry.slots EXCEPT ![s] = x]]
        BY <1>2, <1>e DEF Entries
    <2>3. [entry.slots EXCEPT ![s] = x] \in [Slots -> SlotEntries \cup {None}]
        BY <1>7, <2>1
    <2>4. e \in Entries
        BY <1>2, <2>2, <2>3 DEF Entries
    <2>5. /\ e.slots = [entry.slots EXCEPT ![s] = x] /\ e.original = entry.original /\ e.info = entry.info
          /\ e.destroyed = entry.destroyed
        BY <2>2
    <2>. QED
        BY <2>1, <2>4, <2>5
<1>11. /\ bundle' \in [Accounts -> Entries \cup {None}] /\ bundle'[a] = e
       /\ \A b \in Accounts \ {a} : bundle'[b] = bundle[b]
    BY <1>1, <1>8, <1>10, BundleWritten DEF StateTypes
<1>12. /\ world' \in States /\ world'.info = world.info /\ world'.slots[a][s] = v
       /\ \A t \in Slots \ {s} : world'.slots[a][t] = world.slots[a][t]
       /\ \A b \in Accounts \ {a} : world'.slots[b] = world.slots[b]
    BY <1>1, <1>4, <1>8, SlotWritten
<1>13. StateTypes'
    BY <1>1, <1>9, <1>11, <1>12 DEF StateTypes
<1>14. e # None /\ x # None
    BY <1>10, <1>7, StateAssumption
<1>15. /\ Code(world, a)' = Code(world, a) /\ Code(hashed, a)' = Code(hashed, a)
       /\ Code(world, a) # EmptyCode /\ world.info[a] # None
    BY <1>9, <1>12 DEF Code, CodeAt
<1>16. IsDestroyed(a)' = IsDestroyed(a)
    <2>1. IsDestroyed(a)' = e.destroyed
        BY <1>11, <1>14, <1>10 DEF IsDestroyed, Entries
    <2>. QED
        BY <2>1, <1>2, <1>10
<1>17. \A t \in Slots : SlotFollows(bundle[a], a, t)'
    <2>1. SlotFollows(bundle[a], a, s)'
        BY <1>7, <1>9, <1>10, <1>11, <1>12, <1>14 DEF SlotFollows
    <2>2. ASSUME NEW t \in Slots \ {s}
          PROVE  SlotFollows(bundle[a], a, t)'
        <3>1. SlotFollows(entry, a, t)
            BY <1>2
        <3>. QED
            BY <3>1, <1>9, <1>10, <1>11, <1>12 DEF SlotFollows
    <2>. QED
        BY <2>1, <2>2
<1>18. Follows(a)'
    BY <1>2, <1>9, <1>10, <1>11, <1>12, <1>14, <1>15, <1>17 DEF Follows
<1>19. AccountInv(a)'
    BY <1>1, <1>9, <1>15, <1>16, <1>18 DEF AccountInv
<1>20. ASSUME NEW b \in Accounts \ {a}
       PROVE  AccountInv(b)'
    <2>1. AccountInv(b)
        BY DEF StateInv, StorageInv
    <2>. QED
        BY <2>1, <1>9, <1>11, <1>12, OtherAccount
<1>21. StorageInv'
    BY <1>19, <1>20 DEF StorageInv
<1>. QED
    BY <1>9, <1>13, <1>21 DEF StateInv, IdleInv

(* A destruction: the account and its storage go, and the bundle remembers.    *)
LEMMA DestroyPreserved ==
    ASSUME StateInv, NEW a \in Accounts, Destroy(a)
    PROVE  StateInv'
<1>. DEFINE e == [original |-> Entry(a).original, info |-> None, destroyed |-> TRUE, slots |-> [s \in Slots |-> None]]
            infos == [world.info EXCEPT ![a] = None]
            slots == [world.slots EXCEPT ![a] = NoSlots]
<1>1. StateTypes /\ AccountInv(a) /\ Follows(a) /\ world \in States /\ hashed \in States
    BY DEF StateInv, StorageInv, AccountInv, StateTypes
<1>2. Entry(a) \in Entries /\ Entry(a).original = hashed.info[a]
    BY <1>1, EntryDescribes
<1>3. /\ e \in Entries /\ e.original = hashed.info[a] /\ e.info = None /\ e.destroyed = TRUE
      /\ e.slots = [s \in Slots |-> None] /\ e # None
    <2>1. e \in Entries
        BY <1>2 DEF Entries
    <2>. QED
        BY Zenon, <2>1, <1>2, StateAssumption
<1>4. /\ world' = [info |-> infos, slots |-> slots] /\ bundle' = [bundle EXCEPT ![a] = e]
      /\ UNCHANGED <<hashed, unzen, step, fresh>> /\ step = "execute" /\ (unzen.block => a \in fresh)
    BY DEF Destroy, Operate
<1>. HIDE DEF e
<1>5. /\ world.info \in [Accounts -> Infos \cup {None}] /\ world.slots \in [Accounts -> [Slots -> Words]]
      /\ NoSlots \in [Slots -> Words]
    BY <1>1, StateShape DEF NoSlots, Words
<1>6. /\ infos \in [Accounts -> Infos \cup {None}] /\ infos[a] = None
      /\ slots \in [Accounts -> [Slots -> Words]] /\ slots[a] = NoSlots
      /\ \A b \in Accounts \ {a} : infos[b] = world.info[b] /\ slots[b] = world.slots[b]
    BY <1>5
<1>. HIDE DEF infos, slots
<1>7. world' \in States /\ world'.info = infos /\ world'.slots = slots
    BY <1>4, <1>6 DEF States
<1>8. /\ bundle' \in [Accounts -> Entries \cup {None}] /\ bundle'[a] = e
      /\ \A b \in Accounts \ {a} : bundle'[b] = bundle[b]
    BY <1>1, <1>3, <1>4, BundleWritten DEF StateTypes
<1>9. StateTypes'
    BY <1>1, <1>4, <1>7, <1>8 DEF StateTypes
<1>10. Code(world, a)' = EmptyCode /\ Code(hashed, a)' = Code(hashed, a) /\ IsDestroyed(a)'
    BY <1>3, <1>4, <1>6, <1>7, <1>8 DEF Code, IsDestroyed
<1>11. Follows(a)'
    BY <1>3, <1>4, <1>6, <1>7, <1>8 DEF Follows, SlotFollows, NoSlots
<1>12. AccountInv(a)'
    BY <1>1, <1>4, <1>6, <1>7, <1>10, <1>11 DEF AccountInv
<1>13. ASSUME NEW b \in Accounts \ {a}
       PROVE  AccountInv(b)'
    <2>1. AccountInv(b)
        BY DEF StateInv, StorageInv
    <2>. QED
        BY <2>1, <1>4, <1>6, <1>7, <1>8, OtherAccount
<1>14. StorageInv'
    BY <1>12, <1>13 DEF StorageInv
<1>. QED
    BY <1>4, <1>9, <1>14 DEF StateInv, IdleInv

(* The step leaves the state as it is and the block at work.                   *)
LEMMA SameState ==
    ASSUME StateInv, UNCHANGED <<world, bundle, hashed, unzen>>, fresh' \subseteq fresh,
           step' \in {"execute", "sealed", "valid", "traced", "rejected"}
    PROVE  StateInv'
<1>1. StateTypes'
    BY DEF StateInv, StateTypes
<1>2. ASSUME NEW b \in Accounts
      PROVE  AccountInv(b)'
    BY OtherAccount DEF StateInv, StorageInv
<1>. QED
    BY <1>1, <1>2 DEF StateInv, StorageInv, IdleInv

LEMMA ExecutePreserved ==
    ASSUME StateInv, ExecuteStep
    PROVE  StateInv'
<1>1. ASSUME NextTransaction PROVE StateInv'
    BY <1>1, SameState DEF NextTransaction
<1>. QED
    BY <1>1, FundPreserved, CreatePreserved, StorePreserved, DestroyPreserved DEF ExecuteStep

(* A state in which no block is at work.                                       *)
Quiet ==
    /\ world \in States /\ hashed = world /\ bundle = Untouched /\ fresh = {} /\ step = "idle"
    /\ unzen \in [parent : BOOLEAN, block : BOOLEAN]
    /\ \A a \in Accounts : Code(world, a) = EmptyCode => world.slots[a] = NoSlots

LEMMA QuietIsSound == Quiet => StateInv
<1>. SUFFICES ASSUME Quiet PROVE StateInv
    OBVIOUS
<1>. USE DEF Quiet
<1>1. StateTypes
    BY DEF StateTypes, Untouched
<1>2. \A a \in Accounts : bundle[a] = None /\ ~IsDestroyed(a)
    BY DEF Untouched, IsDestroyed
<1>3. StorageInv
    BY <1>2 DEF StorageInv, AccountInv, Follows
<1>. QED
    BY <1>1, <1>3 DEF StateInv, IdleInv

LEMMA OpenPreserved ==
    ASSUME StateInv, NEW active \in BOOLEAN, OpenBlock(active)
    PROVE  StateInv'
<1>1. /\ StateTypes /\ hashed = world /\ bundle = Untouched /\ fresh = {}
      /\ UNCHANGED <<world, fresh, bundle, hashed>> /\ step' = "execute"
      /\ unzen' = [parent |-> unzen.block, block |-> active]
    BY DEF StateInv, IdleInv, OpenBlock
<1>2. StateTypes'
    BY <1>1 DEF StateTypes
<1>3. \A a \in Accounts : bundle'[a] = None /\ ~IsDestroyed(a)'
    BY <1>1 DEF Untouched, IsDestroyed
<1>4. \A a \in Accounts : Code(world, a) = EmptyCode => world.slots[a] = NoSlots
    BY DEF StateInv, StorageInv, AccountInv
<1>5. \A a \in Accounts : Code(world, a)' = Code(world, a) /\ Code(hashed, a)' = Code(hashed, a)
    BY <1>1 DEF Code
<1>6. StorageInv'
    BY <1>1, <1>3, <1>4, <1>5 DEF StorageInv, AccountInv, Follows
<1>. QED
    BY <1>1, <1>2, <1>6 DEF StateInv, IdleInv

-----------------------------------------------------------------------------
(* What a block persists.                                                   *)

(* What a bundle makes of an account and of a slot. *)
LEMMA ApplyAt ==
    ASSUME NEW zeroes, NEW a \in Accounts
    PROVE  /\ Apply(hashed, bundle, zeroes).info[a]
                = IF bundle[a] # None THEN bundle[a].info ELSE hashed.info[a]
           /\ \A s \in Slots : Apply(hashed, bundle, zeroes).slots[a][s]
                = IF bundle[a] # None /\ bundle[a].slots[s] # None THEN bundle[a].slots[s].present
                  ELSE IF a \in zeroes THEN 0 ELSE hashed.slots[a][s]
<1>. DEFINE touched == {b \in Accounts : bundle[b] # None}
            slot(b, s) == CASE b \in touched /\ bundle[b].slots[s] # None -> bundle[b].slots[s].present
                            [] b \in zeroes /\ ~(b \in touched /\ bundle[b].slots[s] # None) -> 0
                            [] OTHER -> hashed.slots[b][s]
            infos == [b \in Accounts |-> IF b \in touched THEN bundle[b].info ELSE hashed.info[b]]
            slots == [b \in Accounts |-> [s \in Slots |-> slot(b, s)]]
<1>1. Apply(hashed, bundle, zeroes) = [info |-> infos, slots |-> slots]
    BY DEF Apply
<1>2. Apply(hashed, bundle, zeroes).info = infos /\ Apply(hashed, bundle, zeroes).slots = slots
    <2>. HIDE DEF infos, slots
    <2>. QED
        BY <1>1
<1>3. infos[a] = IF bundle[a] # None THEN bundle[a].info ELSE hashed.info[a]
    OBVIOUS
<1>4. \A s \in Slots : slots[a][s] = slot(a, s)
    <2>. HIDE DEF slot
    <2>. QED
        OBVIOUS
<1>5. \A s \in Slots : slot(a, s)
                = IF bundle[a] # None /\ bundle[a].slots[s] # None THEN bundle[a].slots[s].present
                  ELSE IF a \in zeroes THEN 0 ELSE hashed.slots[a][s]
    OBVIOUS
<1>. HIDE DEF infos, slots, slot
<1>. QED
    BY <1>2, <1>3, <1>4, <1>5

LEMMA ApplyIs ==
    ASSUME NEW zeroes, NEW x \in States,
           \A a \in Accounts : Apply(hashed, bundle, zeroes).info[a] = x.info[a],
           \A a \in Accounts : \A s \in Slots : Apply(hashed, bundle, zeroes).slots[a][s] = x.slots[a][s]
    PROVE  Apply(hashed, bundle, zeroes) = x
<1>. DEFINE touched == {b \in Accounts : bundle[b] # None}
            slot(b, s) == CASE b \in touched /\ bundle[b].slots[s] # None -> bundle[b].slots[s].present
                            [] b \in zeroes /\ ~(b \in touched /\ bundle[b].slots[s] # None) -> 0
                            [] OTHER -> hashed.slots[b][s]
            infos == [b \in Accounts |-> IF b \in touched THEN bundle[b].info ELSE hashed.info[b]]
            slots == [b \in Accounts |-> [s \in Slots |-> slot(b, s)]]
<1>1. Apply(hashed, bundle, zeroes) = [info |-> infos, slots |-> slots]
    BY DEF Apply
<1>2. infos = [a \in Accounts |-> infos[a]]
    OBVIOUS
<1>3. slots = [a \in Accounts |-> slots[a]] /\ \A a \in Accounts : slots[a] = [s \in Slots |-> slots[a][s]]
    <2>. HIDE DEF slot
    <2>. QED
        OBVIOUS
<1>. HIDE DEF infos, slots
<1>4. Apply(hashed, bundle, zeroes).info = infos /\ Apply(hashed, bundle, zeroes).slots = slots
    BY <1>1
<1>5. /\ x = [info |-> x.info, slots |-> x.slots]
      /\ x.info = [a \in Accounts |-> x.info[a]] /\ x.slots = [a \in Accounts |-> x.slots[a]]
      /\ \A a \in Accounts : x.slots[a] = [s \in Slots |-> x.slots[a][s]]
    BY StateShape
<1>6. infos = x.info
    BY <1>2, <1>4, <1>5
<1>7. \A a \in Accounts : slots[a] = x.slots[a]
    BY <1>3, <1>4, <1>5
<1>8. slots = x.slots
    BY <1>3, <1>5, <1>7
<1>. QED
    BY <1>1, <1>5, <1>6, <1>8

(* The provider's post state is the state the EVM left. *)
LEMMA ProviderIsExact ==
    ASSUME StateInv
    PROVE  HashedPostState = world
<1>1. ASSUME NEW a \in Accounts
      PROVE  HashedPostState.info[a] = world.info[a]
    BY ApplyAt DEF HashedPostState, StateInv, StorageInv, AccountInv, Follows
<1>2. ASSUME NEW a \in Accounts, NEW s \in Slots
      PROVE  HashedPostState.slots[a][s] = world.slots[a][s]
    <2>1. HashedPostState.slots[a][s]
                = IF bundle[a] # None /\ bundle[a].slots[s] # None THEN bundle[a].slots[s].present
                  ELSE IF a \in Destroyed THEN 0 ELSE hashed.slots[a][s]
        BY ApplyAt DEF HashedPostState
    <2>2. Follows(a)
        BY DEF StateInv, StorageInv, AccountInv
    <2>3. CASE bundle[a] = None
        BY <2>1, <2>2, <2>3 DEF Follows, Destroyed
    <2>4. CASE bundle[a] # None
        <3>1. SlotFollows(bundle[a], a, s) /\ (a \in Destroyed <=> bundle[a].destroyed)
            BY <2>2, <2>4 DEF Follows, Destroyed
        <3>. QED
            BY <2>1, <2>4, <3>1 DEF SlotFollows
    <2>. QED
        BY <2>3, <2>4
<1>. QED
    BY <1>1, <1>2, ApplyIs DEF HashedPostState, StateInv, StateTypes

(* Under Unzen what was destroyed had no storage, so the other two agree. *)
LEMMA RawIsExact ==
    ASSUME StateInv, unzen.block
    PROVE  RawPostState = world
<1>1. ASSUME NEW a \in Accounts
      PROVE  RawPostState.info[a] = world.info[a]
    BY ApplyAt DEF RawPostState, StateInv, StorageInv, AccountInv, Follows
<1>2. ASSUME NEW a \in Accounts, NEW s \in Slots
      PROVE  RawPostState.slots[a][s] = world.slots[a][s]
    <2>1. RawPostState.slots[a][s]
                = IF bundle[a] # None /\ bundle[a].slots[s] # None THEN bundle[a].slots[s].present
                  ELSE hashed.slots[a][s]
        BY ApplyAt DEF RawPostState
    <2>2. Follows(a) /\ (IsDestroyed(a) => hashed.slots[a] = NoSlots)
        BY DEF StateInv, StorageInv, AccountInv
    <2>3. CASE bundle[a] = None
        BY <2>1, <2>2, <2>3 DEF Follows
    <2>4. CASE bundle[a] # None
        <3>1. SlotFollows(bundle[a], a, s) /\ (bundle[a].destroyed => hashed.slots[a][s] = 0)
            BY <2>2, <2>4 DEF Follows, IsDestroyed, NoSlots
        <3>. QED
            BY <2>1, <2>4, <3>1 DEF SlotFollows
    <2>. QED
        BY <2>3, <2>4
<1>. QED
    BY <1>1, <1>2, ApplyIs DEF RawPostState, StateInv, StateTypes

LEMMA SparseIsExact ==
    ASSUME StateInv, unzen.block
    PROVE  SparsePostState = world
<1>1. RawPostState = world
    BY RawIsExact
<1>2. /\ world = [info |-> world.info, slots |-> world.slots]
      /\ world.info = [a \in Accounts |-> world.info[a]]
    BY StateShape DEF StateInv, StateTypes
<1>3. \A a \in Accounts : world.info[a] = None => world.slots[a] = NoSlots
    BY DEF StateInv, StorageInv, AccountInv, Code
<1>4. SparsePostState = [info |-> [a \in Accounts |->
                            IF a \in Destroyed /\ world.info[a] = None /\ world.slots[a] # NoSlots
                            THEN EmptyInfo ELSE world.info[a]], slots |-> world.slots]
    BY <1>1, <1>2 DEF SparsePostState
<1>5. \A a \in Accounts : (IF a \in Destroyed /\ world.info[a] = None /\ world.slots[a] # NoSlots
                            THEN EmptyInfo ELSE world.info[a]) = world.info[a]
    BY <1>3
<1>. QED
    BY <1>2, <1>4, <1>5

(* Whichever computation the configuration selects settles on that state. *)
LEMMA ValidatedIsExact ==
    ASSUME StateInv, NEW root
    PROVE  \A x \in ValidatedPostStates(root) : x = world
<1>1. HashedPostState = world
    BY ProviderIsExact
<1>2. ~RootsThroughProvider => RawPostState = world
    BY RawIsExact DEF RootsThroughProvider
<1>. QED
    BY <1>1, <1>2 DEF ValidatedPostStates, StateRootWithParentStorage

LEMMA PersistPreserved ==
    ASSUME StateInv, PersistBlock
    PROVE  StateInv'
<1>1. hashed' = world
    BY ValidatedIsExact DEF PersistBlock
<1>2. /\ UNCHANGED <<world, unzen>> /\ bundle' = Untouched /\ fresh' = {} /\ step' = "idle"
      /\ world \in States /\ unzen \in [parent : BOOLEAN, block : BOOLEAN]
    BY DEF PersistBlock, ForgetBlock, StateInv, StateTypes
<1>3. \A a \in Accounts : Code(world, a) = EmptyCode => world.slots[a] = NoSlots
    BY DEF StateInv, StorageInv, AccountInv
<1>4. \A a \in Accounts : Code(world, a)' = Code(world, a)
    BY <1>2 DEF Code
<1>5. Quiet'
    BY <1>1, <1>2, <1>3, <1>4 DEF Quiet
<1>. QED
    BY <1>5, QuietIsSound, PTL

LEMMA AbandonPreserved ==
    ASSUME StateInv, AbandonBlock
    PROVE  StateInv'
<1>1. /\ world' = hashed /\ hashed' = hashed /\ bundle' = Untouched /\ fresh' = {} /\ step' = "idle"
      /\ hashed \in States /\ unzen \in [parent : BOOLEAN, block : BOOLEAN]
      /\ unzen' = [unzen EXCEPT !.block = unzen.parent]
    BY DEF AbandonBlock, ForgetBlock, StateInv, StateTypes
<1>2. \A a \in Accounts : Code(hashed, a) = EmptyCode => hashed.slots[a] = NoSlots
    BY DEF StateInv, StorageInv, AccountInv
<1>3. \A a \in Accounts : Code(world, a)' = Code(hashed, a)
    BY <1>1 DEF Code
<1>4. Quiet'
    BY <1>1, <1>2, <1>3 DEF Quiet
<1>. QED
    BY <1>4, QuietIsSound, PTL

LEMMA StateInitInv == StateInit => StateInv
<1>. SUFFICES ASSUME StateInit PROVE StateInv
    OBVIOUS
<1>1. PICK alloc \in SUBSET Accounts, c \in Codes :
        world = [info |-> [a \in Accounts |-> IF a \in alloc THEN [balance |-> 1, code |-> c] ELSE None],
                 slots |-> [a \in Accounts |-> [s \in Slots |-> IF a \in alloc THEN 1 ELSE 0]]]
    BY Zenon DEF StateInit
<1>2. [balance |-> 1, code |-> c] \in Infos
    BY DEF Infos, Words
<1>3. world \in States
    BY <1>1, <1>2 DEF States, Words
<1>4. ASSUME NEW a \in Accounts, Code(world, a) = EmptyCode
      PROVE  world.slots[a] = NoSlots
    <2>1. world.info[a] = IF a \in alloc THEN [balance |-> 1, code |-> c] ELSE None
        BY <1>1
    <2>2. a \notin alloc
        BY <2>1, <1>2, <1>4, StateAssumption DEF Code
    <2>. QED
        BY <1>1, <2>2 DEF NoSlots
<1>5. unzen \in [parent : BOOLEAN, block : BOOLEAN]
    BY Zenon DEF StateInit
<1>. QED
    BY <1>3, <1>4, <1>5, QuietIsSound DEF Quiet, StateInit

-----------------------------------------------------------------------------
(* The whole chain.                                                         *)

LEMMA NextState ==
    ASSUME StateInv, [Next]_vars
    PROVE  StateInv'
<1>1. ASSUME ForkchoiceUpdated PROVE StateInv'
    BY Zenon, <1>1, OpenPreserved DEF ForkchoiceUpdated
<1>2. ASSUME ExecuteTransactions PROVE StateInv'
    BY <1>2, ExecutePreserved DEF ExecuteTransactions
<1>3. ASSUME GetPayload PROVE StateInv'
    BY <1>3, SameState DEF GetPayload, SealBlock
<1>4. ASSUME NewPayload PROVE StateInv'
    <2>1. UNCHANGED <<world, fresh, bundle, hashed, unzen>> /\ step' \in {"valid", "rejected"}
        BY Zenon, <1>4, NewPayloadFrame
    <2>. QED
        BY <2>1, SameState
<1>5. ASSUME Trace PROVE StateInv'
    <2>1. UNCHANGED <<world, fresh, bundle, hashed, unzen>> /\ step' \in {"valid", "traced", "rejected"}
        BY <1>5 DEF Trace, TraceBlock
    <2>. QED
        BY <2>1, SameState
<1>6. ASSUME Persist PROVE StateInv'
    BY <1>6, PersistPreserved DEF Persist
<1>7. ASSUME Abandon PROVE StateInv'
    BY Zenon, <1>7, AbandonPreserved DEF Abandon
<1>8. ASSUME UNCHANGED vars PROVE StateInv'
    BY <1>8 DEF vars, stateVars, StateInv, StateTypes, StorageInv, AccountInv, Follows, SlotFollows, Code,
               IsDestroyed, IdleInv
<1>. QED
    BY <1>1, <1>2, <1>3, <1>4, <1>5, <1>6, <1>7, <1>8 DEF Next

THEOREM StateHolds == Spec => []StateInv
<1>1. Init => StateInv
    BY StateInitInv DEF Init
<1>2. StateInv /\ [Next]_vars => StateInv'
    BY NextState
<1>. QED
    BY <1>1, <1>2, PTL DEF Spec

(* The hashed state the node persists is the state the EVM left, for every     *)
(* sequence of creations, destructions and recreations, under every root       *)
(* strategy and across the fork.                                               *)
THEOREM PersistedStateIsExact == Spec => []HashedStateIsExact
<1>1. StateInv => HashedStateIsExact
    BY DEF StateInv, IdleInv, HashedStateIsExact
<1>. QED
    BY <1>1, StateHolds, PTL

-----------------------------------------------------------------------------
(* The consumer's copy.                                                     *)

(* The rows a diff has for an account. *)
Row(e) == e # None /\ ~(e.destroyed /\ e.original = None /\ e.info = None)
Live(e) == Row(e) /\ e.info # None
Named(e) == Live(e) /\ (e.info # e.original \/ e.destroyed \/ DiffSlots(e) # {})
Stored(e) == Live(e) /\ (DiffSlots(e) # {} \/ e.destroyed)
ProvesCode(e) == ~e.destroyed /\ e.original # None /\ e.original.code = e.info.code

LEMMA DiffShape ==
    StorageDiff(bundle) =
        [accounts |-> [a \in {b \in Accounts : Named(bundle[b])} |-> bundle[a].info],
         deleted  |-> {a \in Accounts : Row(bundle[a]) /\ bundle[a].destroyed},
         storage  |-> [a \in {b \in Accounts : Stored(bundle[b])} |->
                        [s \in DiffSlots(bundle[a]) |-> bundle[a].slots[s].present]],
         codes    |-> {bundle[a].info.code : a \in {b \in Accounts : Live(bundle[b]) /\ ~ProvesCode(bundle[b])}}
                      \ {EmptyCode}]
<1>. DEFINE skipped(e) == e = None \/ (e.destroyed /\ e.original = None /\ e.info = None)
            rows == {a \in Accounts : ~skipped(bundle[a])}
            live == {a \in rows : bundle[a].info # None}
            parentProvesCode(e) == ~e.destroyed /\ e.original # None /\ e.original.code = e.info.code
            named == {a \in live : \/ bundle[a].info # bundle[a].original
                                   \/ bundle[a].destroyed
                                   \/ DiffSlots(bundle[a]) # {}}
            stored == {a \in live : DiffSlots(bundle[a]) # {} \/ bundle[a].destroyed}
<1>1. rows = {a \in Accounts : Row(bundle[a])}
    BY DEF Row
<1>2. live = {a \in Accounts : Live(bundle[a])}
    BY DEF Row, Live
<1>. HIDE DEF live
<1>3. named = {b \in Accounts : Named(bundle[b])}
    BY <1>2 DEF Named
<1>4. stored = {b \in Accounts : Stored(bundle[b])}
    BY <1>2 DEF Stored
<1>5. {x \in live : ~parentProvesCode(bundle[x])} = {b \in Accounts : Live(bundle[b]) /\ ~ProvesCode(bundle[b])}
    BY <1>2 DEF ProvesCode
<1>6. {a \in rows : bundle[a].destroyed} = {a \in Accounts : Row(bundle[a]) /\ bundle[a].destroyed}
    BY <1>1
<1>7. StorageDiff(bundle) =
        [accounts |-> [a \in named |-> bundle[a].info],
         deleted  |-> {a \in rows : bundle[a].destroyed},
         storage  |-> [a \in stored |-> [s \in DiffSlots(bundle[a]) |-> bundle[a].slots[s].present]],
         codes    |-> {bundle[a].info.code : a \in {x \in live : ~parentProvesCode(bundle[x])}} \ {EmptyCode}]
    BY ZenonT(30) DEF StorageDiff, live
<1>. HIDE DEF rows, named, stored, parentProvesCode
<1>. QED
    BY Zenon, <1>3, <1>4, <1>5, <1>6, <1>7

(* The rows of one account. *)
LEMMA DiffAt ==
    ASSUME NEW a \in Accounts, NEW diff, diff = StorageDiff(bundle)
    PROVE  /\ a \in DOMAIN diff.accounts <=> Named(bundle[a])
           /\ Named(bundle[a]) => diff.accounts[a] = bundle[a].info
           /\ a \in diff.deleted <=> Row(bundle[a]) /\ bundle[a].destroyed
           /\ a \in DOMAIN diff.storage <=> Stored(bundle[a])
           /\ Stored(bundle[a]) => /\ DOMAIN diff.storage[a] = DiffSlots(bundle[a])
                                   /\ \A s \in DiffSlots(bundle[a]) : diff.storage[a][s] = bundle[a].slots[s].present
           /\ Live(bundle[a]) /\ ~ProvesCode(bundle[a]) => bundle[a].info.code \in diff.codes \cup {EmptyCode}
<1>. DEFINE accounts == [b \in {b \in Accounts : Named(bundle[b])} |-> bundle[b].info]
            deleted == {b \in Accounts : Row(bundle[b]) /\ bundle[b].destroyed}
            storage == [b \in {b \in Accounts : Stored(bundle[b])} |->
                        [s \in DiffSlots(bundle[b]) |-> bundle[b].slots[s].present]]
            codes == {bundle[b].info.code : b \in {b \in Accounts : Live(bundle[b]) /\ ~ProvesCode(bundle[b])}}
                      \ {EmptyCode}
<1>1. diff = [accounts |-> accounts, deleted |-> deleted, storage |-> storage, codes |-> codes]
    BY Zenon, DiffShape
<1>2. /\ a \in DOMAIN accounts <=> Named(bundle[a])
      /\ Named(bundle[a]) => accounts[a] = bundle[a].info
    OBVIOUS
<1>3. a \in deleted <=> Row(bundle[a]) /\ bundle[a].destroyed
    OBVIOUS
<1>4. a \in DOMAIN storage <=> Stored(bundle[a])
    OBVIOUS
<1>5. ASSUME Stored(bundle[a])
      PROVE  storage[a] = [s \in DiffSlots(bundle[a]) |-> bundle[a].slots[s].present]
    BY <1>5
<1>6. Live(bundle[a]) /\ ~ProvesCode(bundle[a]) => bundle[a].info.code \in codes \cup {EmptyCode}
    OBVIOUS
<1>. HIDE DEF accounts, deleted, storage, codes
<1>7. diff.accounts = accounts /\ diff.deleted = deleted /\ diff.storage = storage /\ diff.codes = codes
    BY <1>1
<1>. QED
    BY <1>2, <1>3, <1>4, <1>5, <1>6, <1>7

(* What applying a diff makes of an account and of a slot. *)
LEMMA AppliedAt ==
    ASSUME NEW x, NEW diff, NEW a \in Accounts
    PROVE  /\ ApplyDiff(x, diff).info[a]
                = IF a \in DOMAIN diff.accounts THEN diff.accounts[a]
                  ELSE IF a \in diff.deleted THEN None ELSE x.info[a]
           /\ \A s \in Slots : ApplyDiff(x, diff).slots[a][s]
                = IF a \in DOMAIN diff.storage /\ s \in DOMAIN diff.storage[a] THEN diff.storage[a][s]
                  ELSE IF a \in diff.deleted THEN 0 ELSE x.slots[a][s]
<1>. DEFINE info(b) == CASE b \in DOMAIN diff.accounts -> diff.accounts[b]
                         [] b \in diff.deleted \ DOMAIN diff.accounts -> None
                         [] OTHER -> x.info[b]
            slot(b, s) == IF b \in DOMAIN diff.storage /\ s \in DOMAIN diff.storage[b] THEN diff.storage[b][s]
                          ELSE IF b \in diff.deleted THEN 0 ELSE x.slots[b][s]
            infos == [b \in Accounts |-> info(b)]
            slots == [b \in Accounts |-> [s \in Slots |-> slot(b, s)]]
<1>1. ApplyDiff(x, diff) = [info |-> infos, slots |-> slots]
    BY DEF ApplyDiff
<1>2. info(a) = IF a \in DOMAIN diff.accounts THEN diff.accounts[a]
                ELSE IF a \in diff.deleted THEN None ELSE x.info[a]
    OBVIOUS
<1>. HIDE DEF info, slot
<1>3. infos[a] = info(a) /\ \A s \in Slots : slots[a][s] = slot(a, s)
    OBVIOUS
<1>. HIDE DEF infos, slots
<1>4. ApplyDiff(x, diff).info = infos /\ ApplyDiff(x, diff).slots = slots
    BY <1>1
<1>. QED
    BY <1>2, <1>3, <1>4 DEF slot

LEMMA AppliedIs ==
    ASSUME NEW x, NEW diff, NEW y \in States,
           \A a \in Accounts : ApplyDiff(x, diff).info[a] = y.info[a],
           \A a \in Accounts : \A s \in Slots : ApplyDiff(x, diff).slots[a][s] = y.slots[a][s]
    PROVE  ApplyDiff(x, diff) = y
<1>. DEFINE info(b) == CASE b \in DOMAIN diff.accounts -> diff.accounts[b]
                         [] b \in diff.deleted \ DOMAIN diff.accounts -> None
                         [] OTHER -> x.info[b]
            slot(b, s) == IF b \in DOMAIN diff.storage /\ s \in DOMAIN diff.storage[b] THEN diff.storage[b][s]
                          ELSE IF b \in diff.deleted THEN 0 ELSE x.slots[b][s]
            infos == [b \in Accounts |-> info(b)]
            slots == [b \in Accounts |-> [s \in Slots |-> slot(b, s)]]
<1>1. ApplyDiff(x, diff) = [info |-> infos, slots |-> slots]
    BY DEF ApplyDiff
<1>. HIDE DEF info, slot
<1>2. infos = [a \in Accounts |-> infos[a]]
    OBVIOUS
<1>3. slots = [a \in Accounts |-> slots[a]] /\ \A a \in Accounts : slots[a] = [s \in Slots |-> slots[a][s]]
    OBVIOUS
<1>. HIDE DEF infos, slots
<1>4. ApplyDiff(x, diff).info = infos /\ ApplyDiff(x, diff).slots = slots
    BY <1>1
<1>5. /\ y = [info |-> y.info, slots |-> y.slots]
      /\ y.info = [a \in Accounts |-> y.info[a]] /\ y.slots = [a \in Accounts |-> y.slots[a]]
      /\ \A a \in Accounts : y.slots[a] = [s \in Slots |-> y.slots[a][s]]
    BY StateShape
<1>6. infos = y.info
    BY <1>2, <1>4, <1>5
<1>7. \A a \in Accounts : slots[a] = y.slots[a]
    BY <1>3, <1>4, <1>5
<1>8. slots = y.slots
    BY <1>3, <1>5, <1>7
<1>. QED
    BY <1>1, <1>5, <1>6, <1>8

(* A diff takes the state before the block to the state after it. *)
LEMMA DiffIsExact ==
    ASSUME StateInv, NEW x, x.info = hashed.info, x.slots = hashed.slots
    PROVE  ApplyDiff(x, StorageDiff(bundle)) = world
<1>. DEFINE diff == StorageDiff(bundle)
<1>d. diff = StorageDiff(bundle)
    BY Zenon
<1>. HIDE DEF diff
<1>1. ASSUME NEW a \in Accounts
      PROVE  ApplyDiff(x, diff).info[a] = world.info[a]
    <2>1. /\ a \in DOMAIN diff.accounts <=> Named(bundle[a])
          /\ Named(bundle[a]) => diff.accounts[a] = bundle[a].info
          /\ a \in diff.deleted <=> Row(bundle[a]) /\ bundle[a].destroyed
        BY <1>d, DiffAt
    <2>2. ApplyDiff(x, diff).info[a]
            = IF a \in DOMAIN diff.accounts THEN diff.accounts[a]
              ELSE IF a \in diff.deleted THEN None ELSE hashed.info[a]
        BY AppliedAt
    <2>3. Follows(a)
        BY DEF StateInv, StorageInv, AccountInv
    <2>. QED
        BY <2>1, <2>2, <2>3 DEF Follows, Named, Live, Row
<1>2. ASSUME NEW a \in Accounts, NEW s \in Slots
      PROVE  ApplyDiff(x, diff).slots[a][s] = world.slots[a][s]
    <2>. DEFINE e == bundle[a]
    <2>1. /\ a \in diff.deleted <=> Row(e) /\ e.destroyed
          /\ a \in DOMAIN diff.storage <=> Stored(e)
          /\ Stored(e) => /\ DOMAIN diff.storage[a] = DiffSlots(e)
                          /\ \A t \in DiffSlots(e) : diff.storage[a][t] = e.slots[t].present
        BY <1>d, DiffAt
    <2>2. ApplyDiff(x, diff).slots[a][s]
            = IF a \in DOMAIN diff.storage /\ s \in DOMAIN diff.storage[a] THEN diff.storage[a][s]
              ELSE IF a \in diff.deleted THEN 0 ELSE hashed.slots[a][s]
        BY AppliedAt
    <2>3. /\ Follows(a) /\ (Code(world, a) = EmptyCode => world.slots[a] = NoSlots)
          /\ (Code(hashed, a) = EmptyCode => hashed.slots[a] = NoSlots)
        BY ZenonT(30) DEF StateInv, StorageInv, AccountInv
    <2>4. CASE e = None
        BY <2>1, <2>2, <2>3, <2>4 DEF Follows, Row, Live, Stored
    <2>5. CASE e # None /\ e.info = None
        <3>1. e.destroyed /\ world.slots[a][s] = 0
            BY <2>3, <2>5 DEF Follows, Code, NoSlots
        <3>2. e.original = None => hashed.slots[a][s] = 0
            BY <2>3, <2>5 DEF Follows, Code, NoSlots
        <3>. QED
            BY Zenon, <2>1, <2>2, <2>5, <3>1, <3>2 DEF Row, Live, Stored
    <2>6. CASE e # None /\ e.info # None
        <3>1. SlotFollows(e, a, s)
            BY <2>3, <2>6 DEF Follows
        <3>2. s \in DiffSlots(e) <=> IF e.destroyed THEN e.slots[s] # None /\ e.slots[s].present # 0
                                     ELSE Changed(e.slots[s])
            BY Zenon, <2>6 DEF DiffSlots
        <3>3. CASE s \in DiffSlots(e)
            <4>1. e.slots[s] # None
                BY <3>2, <3>3 DEF Changed
            <4>2. Stored(e)
                BY <3>3, <2>6 DEF Stored, Live, Row
            <4>. QED
                BY <2>1, <2>2, <3>1, <3>3, <4>1, <4>2 DEF SlotFollows
        <3>4. CASE s \notin DiffSlots(e)
            <4>1. ApplyDiff(x, diff).slots[a][s] = IF e.destroyed THEN 0 ELSE hashed.slots[a][s]
                BY <2>1, <2>2, <2>6, <3>4 DEF Row
            <4>. QED
                BY <3>1, <3>2, <3>4, <4>1 DEF SlotFollows, Changed
        <3>. QED
            BY <3>3, <3>4
    <2>. QED
        BY <2>4, <2>5, <2>6
<1>. QED
    BY <1>1, <1>2, <1>d, AppliedIs DEF StateInv, StateTypes

(* It ships the code of every account the consumer may not know. *)
LEMMA CodesAreShipped ==
    ASSUME StateInv, NEW known, NEW a \in Accounts, Code(hashed, a) \in known \cup {EmptyCode}
    PROVE  Code(world, a) \in (known \cup StorageDiff(bundle).codes) \cup {EmptyCode}
<1>1. Follows(a)
    BY DEF StateInv, StorageInv, AccountInv
<1>2. CASE bundle[a] = None \/ world.info[a] = None
    BY <1>1, <1>2 DEF Follows, Code
<1>3. CASE bundle[a] # None /\ world.info[a] # None
    <2>1. Live(bundle[a]) /\ Code(world, a) = bundle[a].info.code /\ bundle[a].original = hashed.info[a]
        BY <1>1, <1>3 DEF Follows, Code, Live, Row
    <2>2. CASE ProvesCode(bundle[a])
        BY Zenon, <2>1, <2>2 DEF ProvesCode, Code
    <2>3. CASE ~ProvesCode(bundle[a])
        BY <2>1, <2>3, DiffAt
    <2>. QED
        BY <2>2, <2>3
<1>. QED
    BY <1>2, <1>3

(* Its decoder finds it exact. *)
LEMMA DiffDecodes == DecodesExactly(StorageDiff(bundle))
<1>. DEFINE diff == StorageDiff(bundle)
            accounts == [a \in {b \in Accounts : Named(bundle[b])} |-> bundle[a].info]
            deleted == {a \in Accounts : Row(bundle[a]) /\ bundle[a].destroyed}
            storage == [a \in {b \in Accounts : Stored(bundle[b])} |->
                        [s \in DiffSlots(bundle[a]) |-> bundle[a].slots[s].present]]
            codes == {bundle[a].info.code : a \in {b \in Accounts : Live(bundle[b]) /\ ~ProvesCode(bundle[b])}}
                      \ {EmptyCode}
<1>1. diff.accounts = accounts /\ diff.storage = storage /\ diff.codes = codes
    <2>1. diff = [accounts |-> accounts, deleted |-> deleted, storage |-> storage, codes |-> codes]
        BY Zenon, DiffShape
    <2>. HIDE DEF diff, accounts, deleted, storage, codes
    <2>. QED
        BY <2>1
<1>2. DOMAIN storage \subseteq DOMAIN accounts
    BY DEF Stored, Named
<1>3. ASSUME NEW c \in codes
      PROVE  c \in {accounts[b].code : b \in DOMAIN accounts}
    <2>1. PICK b \in Accounts : Live(bundle[b]) /\ ~ProvesCode(bundle[b]) /\ c = bundle[b].info.code
        OBVIOUS
    <2>2. Named(bundle[b])
        BY <2>1 DEF Live, ProvesCode, Named
    <2>3. b \in DOMAIN accounts /\ accounts[b].code = c
        BY <2>1, <2>2
    <2>. QED
        BY <2>3
<1>. HIDE DEF accounts, storage, codes, diff
<1>4. DecodesExactly(diff)
    BY <1>1, <1>2, <1>3 DEF DecodesExactly
<1>. QED
    BY <1>4 DEF diff

LEMMA MirrorInit == StateInit => MirrorInv
<1>. SUFFICES ASSUME StateInit PROVE MirrorInv
    OBVIOUS
<1>. DEFINE alloc == {a \in Accounts : world.info[a] # None}
            accounts == [a \in alloc |-> world.info[a]]
            storage == [a \in alloc |-> [s \in {x \in Slots : world.slots[a][x] # 0} |-> world.slots[a][s]]]
            codes == {world.info[a].code : a \in alloc} \ {EmptyCode}
            genesis == BuildGenesisStorageDiff(world)
            nothing == [info |-> [a \in Accounts |-> None], slots |-> [a \in Accounts |-> NoSlots]]
            copy == ApplyDiff(nothing, genesis)
<1>0. StateInv /\ world \in States /\ step = "idle"
    BY Zenon, StateInitInv DEF StateInv, StateTypes, StateInit
<1>1. mirror = [info |-> copy.info, slots |-> copy.slots, codes |-> genesis.codes]
    BY Zenon DEF StateInit
<1>2. genesis.accounts = accounts /\ genesis.deleted = {} /\ genesis.storage = storage /\ genesis.codes = codes
    BY Zenon DEF BuildGenesisStorageDiff
<1>3. \A a \in Accounts : nothing.info[a] = None /\ \A s \in Slots : nothing.slots[a][s] = 0
    BY DEF NoSlots
<1>4. \A a \in Accounts : /\ a \in DOMAIN accounts <=> world.info[a] # None
                          /\ a \in DOMAIN accounts => accounts[a] = world.info[a]
    OBVIOUS
<1>5. ASSUME NEW a \in Accounts
      PROVE  /\ a \in DOMAIN storage <=> world.info[a] # None
             /\ a \in DOMAIN storage => /\ DOMAIN storage[a] = {x \in Slots : world.slots[a][x] # 0}
                                        /\ \A s \in DOMAIN storage[a] : storage[a][s] = world.slots[a][s]
    OBVIOUS
<1>6. \A a \in Accounts : Code(world, a) \in codes \cup {EmptyCode}
    BY DEF Code
<1>. HIDE DEF accounts, storage, codes, genesis, nothing, copy
<1>7. ASSUME NEW a \in Accounts
      PROVE  copy.info[a] = world.info[a]
    <2>1. copy.info[a] = IF a \in DOMAIN genesis.accounts THEN genesis.accounts[a]
                         ELSE IF a \in genesis.deleted THEN None ELSE nothing.info[a]
        BY AppliedAt DEF copy
    <2>. QED
        BY <1>2, <1>3, <1>4, <2>1
<1>8. ASSUME NEW a \in Accounts, NEW s \in Slots
      PROVE  copy.slots[a][s] = world.slots[a][s]
    <2>1. copy.slots[a][s]
            = IF a \in DOMAIN genesis.storage /\ s \in DOMAIN genesis.storage[a] THEN genesis.storage[a][s]
              ELSE IF a \in genesis.deleted THEN 0 ELSE nothing.slots[a][s]
        BY AppliedAt DEF copy
    <2>2. world.info[a] = None => world.slots[a][s] = 0
        BY <1>0 DEF StateInv, StorageInv, AccountInv, Code, NoSlots
    <2>. QED
        BY <1>2, <1>3, <1>5, <2>1, <2>2
<1>9. copy = world
    BY <1>0, <1>7, <1>8, AppliedIs DEF copy
<1>10. mirror.info = world.info /\ mirror.slots = world.slots /\ mirror.codes = codes
    BY Zenon, <1>1, <1>2, <1>9
<1>. QED
    BY <1>0, <1>6, <1>10 DEF MirrorInv, Copies

LEMMA MirrorTraced ==
    ASSUME StateInv, MirrorInv, TraceBlock
    PROVE  MirrorInv'
<1>. DEFINE diff == StorageDiff(bundle)
<1>1. Copies(hashed) /\ UNCHANGED <<world, hashed>>
    BY DEF TraceBlock, MirrorInv
<1>2. CASE step' = "rejected" /\ UNCHANGED mirror
    BY Zenon, <1>1, <1>2 DEF MirrorInv, Copies, Code
<1>3. CASE step' = "traced" /\ mirror' = [info |-> ApplyDiff(mirror, diff).info, slots |-> ApplyDiff(mirror, diff).slots,
                                          codes |-> mirror.codes \cup diff.codes]
    <2>1. ApplyDiff(mirror, diff) = world
        BY <1>1, DiffIsExact DEF Copies
    <2>2. mirror'.info = world.info /\ mirror'.slots = world.slots /\ mirror'.codes = mirror.codes \cup diff.codes
        BY <1>3, <2>1
    <2>3. \A a \in Accounts : Code(world, a) \in mirror'.codes \cup {EmptyCode}
        BY <1>1, <2>2, CodesAreShipped DEF Copies
    <2>. QED
        BY <1>1, <1>3, <2>2, <2>3 DEF MirrorInv, Copies, Code
<1>4. CASE step' = step /\ UNCHANGED mirror
    BY Zenon, <1>1, <1>4 DEF TraceBlock, MirrorInv, Copies, Code
<1>. QED
    BY Zenon, <1>2, <1>3, <1>4 DEF TraceBlock, BuildStorageDiff

LEMMA MirrorKept ==
    ASSUME MirrorInv, UNCHANGED <<hashed, mirror>>, step \notin {"traced", "idle"} \/ hashed = world,
           step' \notin {"traced", "idle"} \/ world' = hashed, step # "traced"
    PROVE  MirrorInv'
<1>1. Copies(hashed)
    BY DEF MirrorInv
<1>2. Copies(hashed)' /\ (world' = hashed => Copies(world)')
    BY <1>1 DEF Copies, Code
<1>. QED
    BY <1>2 DEF MirrorInv

LEMMA NextMirror ==
    ASSUME StateInv, MirrorInv, [Next]_vars
    PROVE  MirrorInv'
<1>0. step = "idle" => hashed = world
    BY DEF StateInv, IdleInv
<1>1. ASSUME ForkchoiceUpdated PROVE MirrorInv'
    BY <1>0, <1>1, MirrorKept DEF ForkchoiceUpdated, OpenBlock
<1>2. ASSUME ExecuteTransactions PROVE MirrorInv'
    <2>1. step = "execute" /\ UNCHANGED <<step, hashed, mirror>>
        BY <1>2 DEF ExecuteTransactions, ExecuteStep, Fund, Create, Store, Destroy, NextTransaction, Operate
    <2>. QED
        BY <2>1, MirrorKept
<1>3. ASSUME GetPayload PROVE MirrorInv'
    BY <1>3, MirrorKept DEF GetPayload, SealBlock
<1>4. ASSUME NewPayload PROVE MirrorInv'
    <2>1. step = "sealed" /\ UNCHANGED <<hashed, mirror>> /\ step' \in {"valid", "rejected"}
        BY Zenon, <1>4, NewPayloadFrame
    <2>. QED
        BY <2>1, MirrorKept
<1>5. ASSUME Trace PROVE MirrorInv'
    <2>1. CASE TraceBlock
        BY Zenon, <2>1, MirrorTraced
    <2>2. CASE ~TraceBlock
        BY <1>5, <2>2, MirrorKept DEF Trace
    <2>. QED
        BY <2>1, <2>2
<1>6. ASSUME Persist PROVE MirrorInv'
    <2>1. UNCHANGED <<world, mirror>> /\ step = "traced" /\ step' = "idle"
        BY <1>6 DEF Persist, PersistBlock
    <2>. QED
        BY <2>1 DEF MirrorInv, Copies, Code
<1>7. ASSUME Abandon PROVE MirrorInv'
    BY <1>7, MirrorKept DEF Abandon, AbandonBlock
<1>8. ASSUME UNCHANGED vars PROVE MirrorInv'
    BY <1>8 DEF vars, stateVars, MirrorInv, Copies, Code
<1>. QED
    BY <1>1, <1>2, <1>3, <1>4, <1>5, <1>6, <1>7, <1>8 DEF Next

(* A consumer that starts from the genesis diff and applies every block's diff  *)
(* holds the chain's accounts, storage and code.                               *)
THEOREM MirrorIsExact == Spec => []MirrorFollowsChain
<1>1. Init => MirrorInv
    BY MirrorInit DEF Init
<1>2. StateInv /\ MirrorInv /\ [Next]_vars => MirrorInv'
    BY NextMirror
<1>3. StateInv /\ MirrorInv => MirrorFollowsChain
    <2>. SUFFICES ASSUME StateInv, MirrorInv, step \in {"traced", "idle"}
                  PROVE  /\ [info |-> mirror.info, slots |-> mirror.slots] = world
                         /\ \A a \in Accounts : CodeAt(a) \in mirror.codes \cup {EmptyCode}
        BY DEF MirrorFollowsChain
    <2>1. world = [info |-> world.info, slots |-> world.slots]
        BY StateShape DEF StateInv, StateTypes
    <2>. QED
        BY <2>1 DEF MirrorInv, Copies, CodeAt, Code
<1>. QED
    BY <1>1, <1>2, <1>3, StateHolds, PTL DEF Spec

-----------------------------------------------------------------------------
(* Headers.                                                                 *)

(* What a quotient is bounded by. *)
LEMMA QuotientBound ==
    ASSUME NEW a \in Nat, NEW b \in Nat \ {0}, NEW c \in Nat, a <= c * b
    PROVE  (a \div b) \in Nat /\ (a \div b) <= c
<1>1. (a \div b) \in Nat /\ b * (a \div b) <= a
    OBVIOUS
<1>2. b * (a \div b) <= c * b
    BY <1>1
<1>. QED
    BY <1>1, <1>2

(* The gas limit is at most three times its half, and a block uses no more  *)
(* than the limit: the fee moves by at most three eighths.                  *)
LEMMA DeltaBound ==
    ASSUME NEW fee \in Nat, NEW gas \in Nat, gas <= GasLimit
    PROVE  FeeDelta(fee, gas) \in Nat /\ 8 * FeeDelta(fee, gas) <= 3 * fee
<1>. DEFINE half == GasLimit \div 2
            x == (fee * gas) \div half
<1>1. half \in Nat \ {0} /\ GasLimit <= 3 * half
    BY FeeAssumption
<1>2. fee * gas \in Nat /\ 3 * fee \in Nat /\ fee * gas <= (3 * fee) * half
    <2>1. gas <= 3 * half
        BY <1>1, FeeAssumption
    <2>2. fee * gas <= fee * (3 * half)
        BY <1>1, <2>1
    <2>. QED
        BY <1>1, <2>2
<1>. HIDE DEF half
<1>3. x \in Nat /\ x <= 3 * fee
    BY Zenon, <1>1, <1>2, QuotientBound
<1>. HIDE DEF x
<1>4. (x \div 8) \in Nat /\ 8 * (x \div 8) <= x
    BY <1>3
<1>5. FeeDelta(fee, gas) = x \div 8
    BY DEF FeeDelta, x, half
<1>. QED
    BY <1>3, <1>4, <1>5

(* The gas target is within the gas limit. *)
LEMMA TargetBound ==
    ASSUME NEW blockTime \in Nat
    PROVE  AdjustedGasTarget(blockTime) \in Nat /\ AdjustedGasTarget(blockTime) <= GasLimit
<1>. DEFINE cap == (GasLimit * 95) \div 100
            y == (GasLimit \div 2) * blockTime
<1>1. cap \in Nat /\ cap <= GasLimit
    BY FeeAssumption
<1>2. GasLimit \div 2 \in Nat
    BY FeeAssumption
<1>. HIDE DEF cap
<1>3. y \in Nat
    BY <1>2
<1>. HIDE DEF y
<1>4. y \div 2 \in Nat
    BY <1>3
<1>5. AdjustedGasTarget(blockTime) = IF y \div 2 <= cap THEN y \div 2 ELSE cap
    BY DEF AdjustedGasTarget, y, cap
<1>. QED
    BY <1>1, <1>4, <1>5, FeeAssumption

(* The fee of a block on a parent whose own fee is in range is in range, is *)
(* at most three eighths (or one wei) away from it, and only rises if the   *)
(* parent used more than its target: before the clamp nothing saturates, so *)
(* calculate_next_block_eip4396_base_fee loses nothing to saturating_sub.   *)
THEOREM BaseFeeStep ==
    ASSUME NEW parent, parent.number \in Nat \ {0},
           parent.baseFee \in MinBaseFee .. MaxBaseFee, parent.gasUsed \in 0 .. GasLimit,
           NEW blockTime \in Nat
    PROVE  LET fee == parent.baseFee
               next == NextBaseFee(parent, blockTime)
           IN  /\ next \in MinBaseFee .. MaxBaseFee
               /\ UnclampedBaseFee(parent, blockTime) \in Nat
               /\ 8 * (next - fee) <= 3 * fee + 8
               /\ 8 * (fee - next) <= 3 * fee
               /\ next > fee => parent.gasUsed > AdjustedGasTarget(blockTime)
<1>. DEFINE fee == parent.baseFee
            used == parent.gasUsed
            target == AdjustedGasTarget(blockTime)
            raw == UnclampedBaseFee(parent, blockTime)
            next == NextBaseFee(parent, blockTime)
<1>1. /\ fee \in Nat /\ used \in Nat /\ used <= GasLimit
      /\ target \in Nat /\ target <= GasLimit /\ GasLimit \in Nat
    BY TargetBound, FeeAssumption
<1>2. next = Clamp(raw)
    BY DEF NextBaseFee
<1>3. /\ raw \in Nat /\ 8 * (raw - fee) <= 3 * fee + 8 /\ 8 * (fee - raw) <= 3 * fee
      /\ raw > fee => used > target
    <2>1. CASE used = target
        <3>1. raw = fee
            BY <2>1 DEF UnclampedBaseFee
        <3>. QED
            BY <1>1, <3>1
    <2>2. CASE used > target
        <3>. DEFINE d == FeeDelta(fee, used - target)
        <3>1. used - target \in Nat /\ used - target <= GasLimit
            BY <1>1, <2>2
        <3>2. d \in Nat /\ 8 * d <= 3 * fee
            BY Zenon, <1>1, <3>1, DeltaBound
        <3>3. raw = fee + (IF d < 1 THEN 1 ELSE d)
            BY <1>1, <2>2 DEF UnclampedBaseFee
        <3>. HIDE DEF d
        <3>. QED
            BY <1>1, <2>2, <3>2, <3>3
    <2>3. CASE used < target
        <3>. DEFINE d == FeeDelta(fee, target - used)
        <3>1. target - used \in Nat /\ target - used <= GasLimit
            BY <1>1, <2>3
        <3>2. d \in Nat /\ 8 * d <= 3 * fee
            BY Zenon, <1>1, <3>1, DeltaBound
        <3>3. raw = fee - d
            BY <1>1, <2>3 DEF UnclampedBaseFee
        <3>. HIDE DEF d
        <3>. QED
            BY <1>1, <2>3, <3>2, <3>3
    <2>. QED
        BY <1>1, <2>1, <2>2, <2>3
<1>4. fee \in MinBaseFee .. MaxBaseFee
    OBVIOUS
<1>. HIDE DEF raw, next, fee, used, target
<1>5. /\ next \in MinBaseFee .. MaxBaseFee
      /\ 8 * (next - fee) <= 3 * fee + 8 /\ 8 * (fee - next) <= 3 * fee
      /\ next > fee => used > target
    BY <1>1, <1>2, <1>3, <1>4, FeeAssumption DEF Clamp
<1>. QED
    BY <1>3, <1>5 DEF raw, next, fee, used, target

(* Whatever the parent's fee, its child's is in range. *)
LEMMA FeeInRange ==
    ASSUME NEW parent, parent.baseFee \in Nat, parent.gasUsed \in 0 .. GasLimit, NEW blockTime \in Nat
    PROVE  NextBaseFee(parent, blockTime) \in MinBaseFee .. MaxBaseFee
<1>. DEFINE fee == parent.baseFee
            used == parent.gasUsed
            target == AdjustedGasTarget(blockTime)
            raw == UnclampedBaseFee(parent, blockTime)
<1>1. /\ fee \in Nat /\ used \in Nat /\ used <= GasLimit
      /\ target \in Nat /\ target <= GasLimit /\ GasLimit \in Nat
    BY TargetBound, FeeAssumption
<1>2. raw \in Int
    <2>1. CASE used = target
        BY <1>1, <2>1 DEF UnclampedBaseFee
    <2>2. CASE used > target
        <3>1. used - target \in Nat /\ used - target <= GasLimit
            BY <1>1, <2>2
        <3>2. FeeDelta(fee, used - target) \in Nat
            BY Zenon, <1>1, <3>1, DeltaBound
        <3>. QED
            BY <1>1, <2>2, <3>2 DEF UnclampedBaseFee
    <2>3. CASE used < target
        <3>1. target - used \in Nat /\ target - used <= GasLimit
            BY <1>1, <2>3
        <3>2. FeeDelta(fee, target - used) \in Nat
            BY Zenon, <1>1, <3>1, DeltaBound
        <3>. QED
            BY <1>1, <2>3, <3>2 DEF UnclampedBaseFee
    <2>. QED
        BY <1>1, <2>1, <2>2, <2>3
<1>. HIDE DEF raw
<1>3. NextBaseFee(parent, blockTime) = IF parent.number = 0 THEN InitialBaseFee ELSE Clamp(raw)
    BY DEF NextBaseFee, raw
<1>4. Clamp(raw) \in MinBaseFee .. MaxBaseFee
    BY <1>2, FeeAssumption DEF Clamp
<1>. QED
    BY <1>3, <1>4, FeeAssumption

(* Behind a block that took at least a second the target is not zero, and so    *)
(* the fee rises by at most a quarter, or one wei.                             *)
LEMMA QuarterStep ==
    ASSUME NEW parent, parent.number \in Nat \ {0},
           parent.baseFee \in MinBaseFee .. MaxBaseFee, parent.gasUsed \in 0 .. GasLimit,
           NEW blockTime \in Nat \ {0}
    PROVE  4 * (NextBaseFee(parent, blockTime) - parent.baseFee) <= parent.baseFee + 4
<1>. DEFINE fee == parent.baseFee
            used == parent.gasUsed
            half == GasLimit \div 2
            y == half * blockTime
            cap == (GasLimit * 95) \div 100
            target == AdjustedGasTarget(blockTime)
            raw == UnclampedBaseFee(parent, blockTime)
            next == NextBaseFee(parent, blockTime)
<1>1. /\ fee \in Nat /\ used \in Nat /\ used <= GasLimit
      /\ target \in Nat /\ target <= GasLimit /\ GasLimit \in Nat
    BY TargetBound, FeeAssumption
<1>2. half \in Nat /\ half >= 2 /\ GasLimit <= 2 * half + 1 /\ cap \in Nat /\ cap >= 1
    BY FeeAssumption
<1>3. target >= 1
    <2>1. target = IF y \div 2 <= cap THEN y \div 2 ELSE cap
        BY DEF AdjustedGasTarget
    <2>. HIDE DEF half, cap, target
    <2>2. y \in Nat /\ y >= 2
        BY <1>2
    <2>. HIDE DEF y
    <2>3. y \div 2 \in Nat /\ y \div 2 >= 1
        BY <2>2
    <2>. QED
        BY <1>2, <2>1, <2>3
<1>4. next = Clamp(raw)
    BY DEF NextBaseFee
<1>5. CASE used > target
    <2>. DEFINE gas == used - target
                x == (fee * gas) \div half
                d == FeeDelta(fee, gas)
    <2>0. raw = fee + (IF d < 1 THEN 1 ELSE d)
        BY <1>1, <1>5 DEF UnclampedBaseFee
    <2>. HIDE DEF half, target
    <2>1. gas \in Nat /\ gas <= 2 * half
        BY <1>1, <1>2, <1>3, <1>5
    <2>. HIDE DEF gas
    <2>2. fee * gas \in Nat /\ 2 * fee \in Nat /\ fee * gas <= (2 * fee) * half
        <3>1. fee * gas <= fee * (2 * half)
            BY <1>1, <1>2, <2>1
        <3>. QED
            BY <1>1, <1>2, <2>1, <3>1
    <2>3. x \in Nat /\ x <= 2 * fee
        BY <1>2, <2>2, QuotientBound
    <2>4. d = x \div 8
        BY DEF FeeDelta, half
    <2>. HIDE DEF x, d
    <2>5. d \in Nat /\ 4 * d <= fee
        BY <1>1, <2>3, <2>4
    <2>. HIDE DEF raw, next, fee
    <2>6. raw \in Nat /\ raw > fee /\ 4 * (raw - fee) <= fee + 4
        BY <1>1, <2>0, <2>5
    <2>7. next \in Int /\ next <= raw
        <3>1. fee \in MinBaseFee .. MaxBaseFee
            BY DEF fee
        <3>. QED
            BY <1>4, <2>6, <3>1, FeeAssumption DEF Clamp
    <2>8. 4 * (next - fee) <= fee + 4
        BY <1>1, <2>6, <2>7
    <2>. QED
        BY <2>8 DEF next, fee
<1>6. CASE ~(used > target)
    <2>1. next \in MinBaseFee .. MaxBaseFee /\ ~(next > fee)
        BY Zenon, <1>6, BaseFeeStep
    <2>. QED
        BY <1>1, <2>1, FeeAssumption
<1>. QED
    BY <1>5, <1>6

(* h is, field by field, the header the assembler seals. *)
Assembled(h, att, parent, gas, zk) ==
    /\ h.number = parent.number + 1 /\ h.timestamp = att.timestamp /\ h.baseFee = att.baseFee
    /\ h.gasUsed = gas /\ h.extra = att.extra /\ h.withdrawalsRoot = EmptyRoot
    /\ h.beaconRoot = NormalizeBeaconRoot(IsUnzenActive(att.timestamp), att.beaconRoot)
    /\ h.difficulty = IF IsUnzenActive(att.timestamp) THEN zk ELSE 0
    /\ h.requestsHash = IF IsUnzenActive(att.timestamp) THEN EmptyRoot ELSE Absent

LEMMA AssembledFields ==
    ASSUME NEW att, NEW parent, NEW gas, NEW zk, NEW h, h = AssembleBlock(att, parent, gas, zk)
    PROVE  Assembled(h, att, parent, gas, zk)
BY DEF Assembled, AssembleBlock

LEMMA PayloadFields ==
    ASSUME NEW h, NEW p, p = ToPayload(h)
    PROVE  /\ p.number = h.number /\ p.timestamp = h.timestamp /\ p.baseFee = h.baseFee
           /\ p.gasUsed = h.gasUsed /\ p.extra = h.extra /\ p.hash = h
BY DEF ToPayload

(* What newPayloadV2 gets back of a header. *)
LEMMA PayloadShape ==
    ASSUME NEW h, NEW data \in {BlockToPayload(h)} \cup DriverPayloads(h)
    PROVE  /\ data.payload = ToPayload(h)
           /\ data.sidecar.withdrawalsHash \in {h.withdrawalsRoot, Zero, EmptyRoot}
           /\ IF IsUnzenActive(h.timestamp) THEN data.sidecar.difficulty = h.difficulty
              ELSE data.sidecar.difficulty \in {NoValue, h.difficulty}
<1>. DEFINE Data(w, d) == [payload |-> ToPayload(h), sidecar |-> [withdrawalsHash |-> w, difficulty |-> d]]
<1>1. ASSUME NEW w, NEW d, data = Data(w, d)
      PROVE  data.payload = ToPayload(h) /\ data.sidecar.withdrawalsHash = w /\ data.sidecar.difficulty = d
    BY <1>1
<1>2. CASE data = BlockToPayload(h)
    <2>1. data = Data(h.withdrawalsRoot, h.difficulty)
        BY Zenon, <1>2 DEF BlockToPayload
    <2>. HIDE DEF Data
    <2>. QED
        BY Zenon, <1>1, <2>1
<1>3. CASE data \in DriverPayloads(h)
    <2>1. PICK w \in {Zero, EmptyRoot} :
            data = Data(w, IF IsUnzenActive(h.timestamp) THEN BlockValue(h) ELSE NoValue)
        BY Zenon, <1>3 DEF DriverPayloads
    <2>. HIDE DEF Data
    <2>. QED
        BY Zenon, <1>1, <2>1 DEF BlockValue
<1>. QED
    BY Zenon, <1>2, <1>3

(* A header the assembler seals, sent to the driver by getPayloadV2 and     *)
(* back by newPayloadV2 with either spelling of the withdrawals hash, is    *)
(* rebuilt field by field: convert_payload_to_block accepts it.  So is a    *)
(* block that stays inside the node (block_to_payload).                     *)
THEOREM PayloadRoundTrip ==
    ASSUME NEW attrs, NEW parent, NEW gasUsed, NEW zkGas \in Nat,
           attrs.beaconRoot \in {Absent, Zero},
           NEW data,
           LET sent == AssembleBlock(attrs, parent, gasUsed, zkGas)
           IN  data \in DriverPayloads(sent) \cup {BlockToPayload(sent)}
    PROVE  ConvertsToBlock(data)
<1>. DEFINE active == IsUnzenActive(attrs.timestamp)
<1>1. PICK h : h = AssembleBlock(attrs, parent, gasUsed, zkGas) /\ data \in {BlockToPayload(h)} \cup DriverPayloads(h)
    BY Zenon
<1>2. /\ h.number = parent.number + 1 /\ h.timestamp = attrs.timestamp /\ h.baseFee = attrs.baseFee
      /\ h.gasUsed = gasUsed /\ h.extra = attrs.extra /\ h.difficulty = (IF active THEN zkGas ELSE 0)
      /\ h.withdrawalsRoot = EmptyRoot
    <2>1. Assembled(h, attrs, parent, gasUsed, zkGas)
        BY Zenon, <1>1, AssembledFields
    <2>. QED
        BY <2>1 DEF Assembled
<1>3. /\ data.payload = ToPayload(h)
      /\ data.sidecar.withdrawalsHash \in {h.withdrawalsRoot, Zero, EmptyRoot}
      /\ IF IsUnzenActive(h.timestamp) THEN data.sidecar.difficulty = h.difficulty
         ELSE data.sidecar.difficulty \in {NoValue, h.difficulty}
    BY Zenon, <1>1, PayloadShape
<1>4. /\ data.payload.number = parent.number + 1 /\ data.payload.timestamp = attrs.timestamp
      /\ data.payload.baseFee = attrs.baseFee /\ data.payload.gasUsed = gasUsed
      /\ data.payload.extra = attrs.extra /\ data.payload.hash = h
    BY <1>2, <1>3, PayloadFields
<1>. DEFINE d == data.sidecar.difficulty
            w == data.sidecar.withdrawalsHash
<1>5. w \in {Zero, EmptyRoot} /\ (active => d = zkGas) /\ (~active => d \in {NoValue, 0})
    BY Zenon, <1>2, <1>3
<1>. HIDE DEF active, d, w
<1>6. (active => d # NoValue) /\ (IF d = NoValue THEN 0 ELSE d) = IF active THEN zkGas ELSE 0
    <2>1. zkGas # NoValue
        BY DEF NoValue
    <2>. QED
        BY Zenon, <1>5, <2>1
<1>7. (IF w = Zero THEN EmptyRoot ELSE w) = EmptyRoot
    BY Zenon, <1>5
<1>8. (IF active THEN Zero ELSE Absent) = NormalizeBeaconRoot(active, attrs.beaconRoot)
    BY Zenon DEF NormalizeBeaconRoot
<1>9. RebuildHeader(data) = h
    BY Zenon, <1>1, <1>4, <1>6, <1>7, <1>8 DEF RebuildHeader, AssembleBlock, active, d, w
<1>. QED
    BY Zenon, <1>4, <1>6, <1>9 DEF ConvertsToBlock, active, d

-----------------------------------------------------------------------------
(* What holds along a chain.                                                *)

(* The head: time never stands still between two Shasta blocks.               *)
ChainTypes ==
    /\ head.number \in Nat /\ head.timestamp \in Nat /\ grandTime \in Nat /\ grandTime <= head.timestamp
    /\ head.number > 0 /\ IsShastaActive(head.timestamp) => grandTime < head.timestamp
    /\ head.gasUsed \in 0 .. GasLimit /\ head.baseFee \in Nat
    /\ honest \in BOOLEAN /\ feeChecked \in BOOLEAN

(* What is known of the block between its build and its import.               *)
Building == step \in {"execute", "sealed", "valid", "traced"}
Sealed == step \in {"sealed", "valid", "traced"}

AttributesInv ==
    Building =>
        /\ attributes.timestamp \in Nat /\ attributes.baseFee \in Nat
        /\ attributes.beaconRoot \in {Absent, Zero}
        /\ honest => /\ attributes.timestamp > head.timestamp
                     /\ attributes.baseFee = ProtocolBaseFee(attributes.timestamp)
                     /\ IsShastaActive(attributes.timestamp) => attributes.extra = "shasta"

ForkInv ==
    /\ Building => unzen.block = IsUnzenActive(attributes.timestamp)
    /\ step # "idle" => unzen.parent = IsUnzenActive(head.timestamp)
    /\ step = "idle" => unzen.block = IsUnzenActive(head.timestamp)

HeaderInv == Sealed => \E gas \in {0, GasLimit} : header = AssembleBlock(attributes, head, gas, ZkGas[gas])

RootInv == Sealed /\ honest => sealed = Root(world)

CheckedInv ==
    step \in {"valid", "traced"} =>
        \E time \in GrandparentTimes : ValidateAgainstParent(header, head, time) /\ (feeChecked <=> time # NoValue)

ChainInv == ChainTypes /\ AttributesInv /\ ForkInv /\ HeaderInv /\ CheckedInv

-----------------------------------------------------------------------------
(* The chain.                                                               *)

(* The fee the protocol prescribes is a fee. *)
LEMMA ProtocolFeeType ==
    ASSUME ChainTypes, NEW t
    PROVE  ProtocolBaseFee(t) \in Nat
<1>1. head.timestamp - grandTime \in Nat
    BY SMT, Z3 DEF ChainTypes
<1>2. NextBaseFee(head, head.timestamp - grandTime) \in MinBaseFee .. MaxBaseFee
    BY <1>1, FeeInRange DEF ChainTypes
<1>. QED
    BY SMT, Z3, <1>2, FeeAssumption, ImportAssumption DEF ProtocolBaseFee

(* The attributes a build starts from. *)
LEMMA HonestShape ==
    ASSUME ChainTypes, NEW gap \in Nat \ {0}, NEW root, NEW a, a = HonestAttributes(gap, root)
    PROVE  /\ a = [timestamp |-> a.timestamp, metaTimestamp |-> a.metaTimestamp, baseFee |-> a.baseFee,
                   extra |-> a.extra, beaconRoot |-> a.beaconRoot]
           /\ a.metaTimestamp \in Nat /\ a.metaTimestamp > head.timestamp
           /\ a.baseFee \in Nat /\ a.baseFee = ProtocolBaseFee(a.metaTimestamp)
           /\ IsShastaActive(a.metaTimestamp) => a.extra = "shasta"
<1>1. head.timestamp + gap \in Nat /\ head.timestamp + gap > head.timestamp
    BY SMT, Z3 DEF ChainTypes
<1>2. ProtocolBaseFee(head.timestamp + gap) \in Nat
    BY ProtocolFeeType
<1>. QED
    BY <1>1, <1>2 DEF HonestAttributes

LEMMA DriverAttributes ==
    ASSUME ChainTypes, NEW isHonest \in BOOLEAN, NEW a \in AttributesFromDriver(isHonest)
    PROVE  /\ a.metaTimestamp \in Nat /\ a.baseFee \in Nat
           /\ isHonest => /\ a.metaTimestamp > head.timestamp
                          /\ a.baseFee = ProtocolBaseFee(a.metaTimestamp)
                          /\ IsShastaActive(a.metaTimestamp) => a.extra = "shasta"
<1>1. CASE isHonest
    <2>1. PICK gap \in Nat \ {0}, root \in {Zero, Absent} : a = HonestAttributes(gap, root)
        <3>1. a \in {HonestAttributes(g, Zero) : g \in Gaps} \/ a = HonestAttributes(1, Absent)
            BY <1>1 DEF AttributesFromDriver
        <3>2. Gaps \subseteq Nat \ {0} /\ 1 \in Nat \ {0}
            BY SMT, Z3, ImportAssumption
        <3>. QED
            BY <3>1, <3>2
    <2>. QED
        BY <2>1, HonestShape
<1>2. CASE ~isHonest
    <2>. DEFINE h == HonestAttributes(1, Absent)
                earlier == IF head.timestamp = 0 THEN 0 ELSE head.timestamp - 1
    <2>1. /\ h = [timestamp |-> h.timestamp, metaTimestamp |-> h.metaTimestamp, baseFee |-> h.baseFee,
                  extra |-> h.extra, beaconRoot |-> h.beaconRoot]
          /\ h.metaTimestamp \in Nat /\ h.baseFee \in Nat
        BY SMT, Z3, HonestShape
    <2>2. head.timestamp \in Nat /\ earlier \in Nat
        BY SMT, Z3 DEF ChainTypes
    <2>3. a \in {[h EXCEPT !.metaTimestamp = head.timestamp], [h EXCEPT !.metaTimestamp = earlier],
                 [h EXCEPT !.baseFee = @ + 1], [h EXCEPT !.extra = "empty"], [h EXCEPT !.beaconRoot = "other"]}
        BY <1>2 DEF AttributesFromDriver, FaultyAttributes
    <2>. HIDE DEF h, earlier
    <2>4. CASE a = [h EXCEPT !.metaTimestamp = head.timestamp] \/ a = [h EXCEPT !.metaTimestamp = earlier]
        BY <1>2, <2>1, <2>2, <2>4
    <2>5. CASE a = [h EXCEPT !.baseFee = @ + 1]
        BY SMT, Z3, <1>2, <2>1, <2>5
    <2>6. CASE a = [h EXCEPT !.extra = "empty"] \/ a = [h EXCEPT !.beaconRoot = "other"]
        BY <1>2, <2>1, <2>6
    <2>. QED
        BY <2>3, <2>4, <2>5, <2>6
<1>. QED
    BY <1>1, <1>2

LEMMA OpenChain ==
    ASSUME ChainInv, ForkchoiceUpdated
    PROVE  ChainInv'
<1>1. PICK a \in AttributesFromDriver(honest') :
        /\ AttributesAccepted(a, head) /\ attributes' = BuilderAttributes(a)
        /\ OpenBlock(EthSpec(attributes'.timestamp) = "OSAKA")
    BY DEF ForkchoiceUpdated
<1>2. /\ step = "idle" /\ step' = "execute" /\ UNCHANGED <<head, grandTime, header, feeChecked>>
      /\ honest' \in BOOLEAN
      /\ unzen' = [parent |-> unzen.block, block |-> EthSpec(attributes'.timestamp) = "OSAKA"]
    BY <1>1 DEF ForkchoiceUpdated, OpenBlock
<1>3. /\ a.metaTimestamp \in Nat /\ a.baseFee \in Nat
      /\ honest' => /\ a.metaTimestamp > head.timestamp
                    /\ a.baseFee = ProtocolBaseFee(a.metaTimestamp)
                    /\ IsShastaActive(a.metaTimestamp) => a.extra = "shasta"
    BY <1>2, DriverAttributes DEF ChainInv
<1>4. /\ attributes'.timestamp = a.metaTimestamp /\ attributes'.baseFee = a.baseFee
      /\ attributes'.extra = a.extra /\ attributes'.beaconRoot = a.beaconRoot /\ a.beaconRoot \in {Absent, Zero}
    BY <1>1 DEF BuilderAttributes, AttributesAccepted
<1>5. \A t : ProtocolBaseFee(t)' = ProtocolBaseFee(t)
    BY <1>2 DEF ProtocolBaseFee
<1>6. ChainTypes'
    BY Zenon, <1>2 DEF ChainInv, ChainTypes
<1>7. AttributesInv'
    BY <1>2, <1>3, <1>4, <1>5 DEF AttributesInv, ProtocolBaseFee
<1>8. (EthSpec(attributes'.timestamp) = "OSAKA") = IsUnzenActive(attributes'.timestamp)
    BY SMT, Z3 DEF EthSpec, TaikoSpec, IsUnzenActive, IsShastaActive
<1>9. ForkInv'
    BY Zenon, <1>2, <1>8 DEF ForkInv, Building, ChainInv
<1>. QED
    BY <1>2, <1>6, <1>7, <1>9 DEF ChainInv, HeaderInv, CheckedInv, Sealed

(* The block is at work and its attributes, its forks and the head stay.       *)
LEMMA SameChain ==
    ASSUME ChainInv, Building, UNCHANGED <<head, grandTime, attributes, honest, unzen>>,
           step' \in {"execute", "sealed", "valid", "traced", "rejected"}, feeChecked' \in BOOLEAN,
           HeaderInv', CheckedInv'
    PROVE  ChainInv'
<1>1. ChainTypes'
    BY DEF ChainInv, ChainTypes
<1>2. AttributesInv'
    BY DEF ChainInv, AttributesInv, ProtocolBaseFee
<1>3. ForkInv'
    BY DEF ChainInv, ForkInv, Building
<1>. QED
    BY <1>1, <1>2, <1>3 DEF ChainInv

LEMMA PersistChain ==
    ASSUME ChainInv, Persist
    PROVE  ChainInv' /\ head'.timestamp >= head.timestamp
<1>1. /\ step = "traced" /\ step' = "idle" /\ head' = header /\ grandTime' = head.timestamp /\ honest' = TRUE
      /\ feeChecked' = TRUE /\ unzen' = unzen
    BY DEF Persist, PersistBlock
<1>2. PICK gas \in {0, GasLimit} : header = AssembleBlock(attributes, head, gas, ZkGas[gas])
    BY Zenon, <1>1 DEF ChainInv, HeaderInv, Sealed
<1>3. /\ header.number = head.number + 1 /\ header.timestamp = attributes.timestamp
      /\ header.baseFee = attributes.baseFee /\ header.gasUsed = gas
    <2>1. Assembled(header, attributes, head, gas, ZkGas[gas])
        BY Zenon, <1>2, AssembledFields
    <2>. QED
        BY <2>1 DEF Assembled
<1>4. PICK time \in GrandparentTimes : ValidateAgainstParent(header, head, time)
    BY <1>1 DEF ChainInv, CheckedInv
<1>5. /\ header.timestamp \in Nat /\ head.timestamp \in Nat /\ header.timestamp >= head.timestamp
      /\ IsShastaActive(header.timestamp) => header.timestamp > head.timestamp
    <2>1. header.timestamp \in Nat /\ head.timestamp \in Nat
        BY <1>1, <1>3 DEF ChainInv, AttributesInv, Building, ChainTypes
    <2>. QED
        BY SMT, Z3, <2>1, <1>4 DEF ValidateAgainstParent
<1>6. ChainTypes'
    <2>1. head.number \in Nat /\ attributes.baseFee \in Nat
        BY <1>1 DEF ChainInv, AttributesInv, Building, ChainTypes
    <2>. QED
        BY SMT, Z3, <1>1, <1>3, <1>5, <2>1, FeeAssumption DEF ChainTypes
<1>7. ForkInv'
    BY <1>1, <1>3 DEF ChainInv, ForkInv, Building
<1>8. AttributesInv' /\ HeaderInv' /\ CheckedInv'
    BY <1>1 DEF AttributesInv, HeaderInv, CheckedInv, Building, Sealed
<1>. QED
    BY <1>1, <1>5, <1>6, <1>7, <1>8 DEF ChainInv

LEMMA NextChain ==
    ASSUME ChainInv, StateInv, [Next]_vars
    PROVE  ChainInv'
<1>1. ASSUME ForkchoiceUpdated PROVE ChainInv'
    BY <1>1, OpenChain
<1>2. ASSUME ExecuteTransactions PROVE ChainInv'
    <2>1. step = "execute" /\ UNCHANGED <<step, unzen, chainVars>>
        BY <1>2 DEF ExecuteTransactions, ExecuteStep, Fund, Create, Store, Destroy, NextTransaction, Operate
    <2>2. HeaderInv' /\ CheckedInv' /\ Building /\ feeChecked \in BOOLEAN
        BY <2>1 DEF HeaderInv, CheckedInv, Building, Sealed, ChainInv, ChainTypes
    <2>. QED
        BY <2>1, <2>2, SameChain DEF chainVars
<1>3. ASSUME GetPayload PROVE ChainInv'
    <2>1. /\ step = "execute" /\ step' = "sealed" /\ UNCHANGED <<head, grandTime, attributes, honest, unzen, feeChecked>>
          /\ \E gas \in {0, GasLimit} : header' = AssembleBlock(attributes, head, gas, ZkGas[gas])
        BY <1>3 DEF GetPayload, SealBlock
    <2>2. HeaderInv' /\ CheckedInv' /\ Building /\ feeChecked \in BOOLEAN
        BY <2>1 DEF HeaderInv, CheckedInv, Building, Sealed, ChainInv, ChainTypes
    <2>. QED
        BY <2>1, <2>2, SameChain
<1>4. ASSUME NewPayload PROVE ChainInv'
    <2>1. /\ step = "sealed" /\ step' \in {"valid", "rejected"}
          /\ UNCHANGED <<head, grandTime, attributes, honest, header, unzen>>
        BY Zenon, <1>4, NewPayloadFrame
    <2>2. HeaderInv' /\ Building /\ feeChecked \in BOOLEAN
        BY <2>1 DEF HeaderInv, Building, Sealed, ChainInv, ChainTypes
    <2>3. CASE step' = "rejected"
        <3>1. feeChecked' \in BOOLEAN
            BY Zenon, <1>4, <2>2 DEF NewPayload
        <3>. QED
            BY <2>1, <2>2, <2>3, <3>1, SameChain DEF CheckedInv
    <2>4. CASE step' = "valid"
        <3>1. PICK time \in GrandparentTimes :
                ValidateAgainstParent(header, head, time) /\ feeChecked' = (time # NoValue)
            BY <1>4, <2>4 DEF NewPayload
        <3>2. CheckedInv' /\ feeChecked' \in BOOLEAN
            BY Zenon, <2>1, <3>1 DEF CheckedInv, GrandparentTimes
        <3>. QED
            BY Zenon, <2>1, <2>2, <3>2, SameChain
    <2>. QED
        BY Zenon, <2>1, <2>3, <2>4
<1>5. ASSUME Trace PROVE ChainInv'
    <2>1. /\ step = "valid" /\ step' \in {"valid", "traced", "rejected"} /\ UNCHANGED <<chainVars, unzen>>
        BY Zenon, <1>5 DEF Trace, TraceBlock
    <2>2. HeaderInv' /\ CheckedInv' /\ Building /\ feeChecked \in BOOLEAN
        BY <2>1 DEF HeaderInv, CheckedInv, Building, Sealed, ChainInv, ChainTypes, chainVars, GrandparentTimes
    <2>. QED
        BY Zenon, <2>1, <2>2, SameChain DEF chainVars
<1>6. ASSUME Persist PROVE ChainInv'
    BY <1>6, PersistChain
<1>7. ASSUME Abandon PROVE ChainInv'
    <2>1. /\ step = "rejected" /\ step' = "idle" /\ honest' = TRUE /\ feeChecked' = TRUE
          /\ UNCHANGED <<head, grandTime>> /\ unzen' = [unzen EXCEPT !.block = unzen.parent]
        BY <1>7 DEF Abandon, AbandonBlock
    <2>2. unzen'.block = unzen.parent
        BY <2>1 DEF StateInv, StateTypes
    <2>. QED
        BY <2>1, <2>2 DEF ChainInv, ChainTypes, AttributesInv, ForkInv, HeaderInv, CheckedInv, Building, Sealed
<1>8. ASSUME UNCHANGED vars PROVE ChainInv'
    BY ZenonT(30), <1>8 DEF vars, stateVars, chainVars, ChainInv, ChainTypes, AttributesInv,
       ForkInv, HeaderInv, CheckedInv, Building, Sealed, ProtocolBaseFee, GrandparentTimes
<1>. QED
    BY <1>1, <1>2, <1>3, <1>4, <1>5, <1>6, <1>7, <1>8 DEF Next

LEMMA ChainInit == Init => ChainInv
<1>. SUFFICES ASSUME Init PROVE ChainInv
    OBVIOUS
<1>1. head = Genesis /\ grandTime = 0 /\ honest = TRUE /\ feeChecked = TRUE /\ step = "idle"
      /\ unzen.block = IsUnzenActive(Genesis.timestamp)
    BY DEF Init, StateInit
<1>2. ChainTypes
    BY SMT, Z3, <1>1, FeeAssumption DEF ChainTypes, Genesis
<1>3. ForkInv
    BY <1>1 DEF ForkInv, Building
<1>. QED
    BY <1>1, <1>2, <1>3 DEF ChainInv, AttributesInv, HeaderInv, CheckedInv, Building, Sealed

THEOREM ChainHolds == Spec => []ChainInv
<1>1. Init => ChainInv
    BY ChainInit
<1>2. ChainInv /\ StateInv /\ [Next]_vars => ChainInv'
    BY NextChain
<1>. QED
    BY <1>1, <1>2, StateHolds, PTL DEF Spec

(* Only importing a block moves the head. *)
LEMMA HeadMoves ==
    ASSUME [Next]_vars, head' # head
    PROVE  Persist
BY DEF Next, vars, chainVars, ForkchoiceUpdated, ExecuteTransactions, GetPayload, NewPayload, Trace, Abandon

(* Time never runs backwards and no fork is ever left: a head is only replaced *)
(* by a block that validate_header_against_parent compared with it.            *)
THEOREM ForksAreKept == Spec => ForksNeverRevert
<1>1. ASSUME ChainInv, [Next]_vars, head' # head
      PROVE  /\ head'.timestamp >= head.timestamp
             /\ IsUnzenActive(head.timestamp) => IsUnzenActive(head'.timestamp)
    <2>1. ChainInv' /\ head'.timestamp >= head.timestamp
        BY <1>1, HeadMoves, PersistChain
    <2>2. head.timestamp \in Nat /\ head'.timestamp \in Nat /\ UnzenTime \in Nat
        BY <1>1, <2>1, ImportAssumption DEF ChainInv, ChainTypes
    <2>. QED
        BY SMT, Z3, <2>1, <2>2 DEF IsUnzenActive
<1>2. ChainInv /\ [Next]_vars =>
        [head' # head => /\ head'.timestamp >= head.timestamp
                         /\ IsUnzenActive(head.timestamp) => IsUnzenActive(head'.timestamp)]_vars
    BY Zenon, <1>1
<1>. QED
    BY <1>2, ChainHolds, PTL DEF Spec, ForksNeverRevert

(* The fee of a block whose fee was compared is the one EIP-4396 prescribes.   *)
LEMMA ComparedFee ==
    ASSUME ChainInv, Persist, feeChecked, IsShastaActive(head'.timestamp)
    PROVE  /\ head.timestamp - grandTime \in Nat
           /\ head'.baseFee = NextBaseFee(head, head.timestamp - grandTime)
<1>1. step = "traced" /\ head' = header
    BY Zenon DEF Persist, PersistBlock
<1>2. PICK time \in GrandparentTimes : ValidateAgainstParent(header, head, time) /\ (feeChecked <=> time # NoValue)
    BY Zenon, <1>1 DEF ChainInv, CheckedInv
<1>3. grandTime \in Nat /\ head.timestamp \in Nat /\ grandTime <= head.timestamp
    BY Zenon DEF ChainInv, ChainTypes
<1>4. time = grandTime /\ time # NoValue
    BY Zenon, <1>2 DEF GrandparentTimes
<1>5. header.baseFee = ExpectedBaseFee(header, head, grandTime)
    BY Zenon, <1>1, <1>2, <1>4 DEF ValidateAgainstParent
<1>6. ExpectedBaseFee(header, head, grandTime) = NextBaseFee(head, head.timestamp - grandTime)
    BY Zenon, <1>4 DEF ExpectedBaseFee, NextBaseFee
<1>. QED
    BY SMT, Z3, <1>1, <1>3, <1>5, <1>6

(* The base fee moves in small steps between its bounds, and up only behind a  *)
(* block above the adjusted target (calculate_next_block_eip4396_base_fee).    *)
THEOREM FeesAreBounded == Spec => FeeStepsAreBounded
<1>. DEFINE time == head.timestamp - grandTime
            fee == head.baseFee
            Range == MinBaseFee .. MaxBaseFee
<1>1. ASSUME ChainInv, [Next]_vars, head' # head, IsShastaActive(head'.timestamp), feeChecked
      PROVE  /\ head'.baseFee \in Range
             /\ IsShastaActive(head.timestamp) /\ head.number > 0 /\ fee \in Range =>
                    /\ head'.baseFee > fee => head.gasUsed > AdjustedGasTarget(time)
                    /\ 4 * (head'.baseFee - fee) <= fee + 4
    <2>1. time \in Nat /\ head'.baseFee = NextBaseFee(head, time)
        BY Zenon, <1>1, HeadMoves, ComparedFee
    <2>2. /\ head.number \in Nat /\ head.gasUsed \in 0 .. GasLimit /\ fee \in Nat
          /\ head.timestamp \in Nat /\ grandTime \in Nat
          /\ head.number > 0 /\ IsShastaActive(head.timestamp) => grandTime < head.timestamp
        BY Zenon, <1>1 DEF ChainInv, ChainTypes
    <2>3. head'.baseFee \in Range
        BY Zenon, <2>1, <2>2, FeeInRange
    <2>4. ASSUME IsShastaActive(head.timestamp), head.number > 0, fee \in Range
          PROVE  /\ head'.baseFee > fee => head.gasUsed > AdjustedGasTarget(time)
                 /\ 4 * (head'.baseFee - fee) <= fee + 4
        <3>1. head.number \in Nat \ {0} /\ time \in Nat \ {0}
            BY SMT, Z3, <2>2, <2>4
        <3>. HIDE DEF time, Range
        <3>2. NextBaseFee(head, time) > head.baseFee => head.gasUsed > AdjustedGasTarget(time)
            BY Zenon, <2>1, <2>2, <2>4, <3>1, BaseFeeStep DEF Range
        <3>3. 4 * (NextBaseFee(head, time) - head.baseFee) <= head.baseFee + 4
            BY Zenon, <2>1, <2>2, <2>4, <3>1, QuarterStep DEF Range
        <3>. QED
            BY Zenon, <2>1, <3>2, <3>3
    <2>. QED
        BY Zenon, <2>3, <2>4
<1>2. ChainInv /\ [Next]_vars =>
        [head' # head /\ IsShastaActive(head'.timestamp) /\ feeChecked =>
            /\ head'.baseFee \in MinBaseFee .. MaxBaseFee
            /\ IsShastaActive(head.timestamp) /\ head.number > 0 /\ head.baseFee \in MinBaseFee .. MaxBaseFee =>
                /\ head'.baseFee > head.baseFee => head.gasUsed > AdjustedGasTarget(head.timestamp - grandTime)
                /\ 4 * (head'.baseFee - head.baseFee) <= head.baseFee + 4]_vars
    BY Zenon, <1>1
<1>. QED
    BY <1>2, ChainHolds, PTL DEF Spec, FeeStepsAreBounded

-----------------------------------------------------------------------------
(* An honest block is never refused.                                        *)

(* What transactions see of a block: not its difficulty, nor the expected one. *)
LEMMA VisibleIs ==
    ASSUME NEW n, NEW t, NEW d, NEW f, NEW u, NEW b, NEW x, NEW expected
    PROVE  Visible([env |-> Environment(n, t, d, f), ctx |-> Context(u, b, x, expected)])
           = [env |-> Environment(n, t, 0, f), ctx |-> Context(u, b, x, NoValue)]
<1>1. [Environment(n, t, d, f) EXCEPT !.difficulty = 0] = Environment(n, t, 0, f)
    BY SMT, Z3 DEF Environment
<1>2. [Context(u, b, x, expected) EXCEPT !.expectedDifficulty = NoValue] = Context(u, b, x, NoValue)
    BY SMT, Z3 DEF Context
<1>. QED
    BY Zenon, <1>1, <1>2 DEF Visible

LEMMA ExpectedIs ==
    ASSUME NEW env, NEW u, NEW b, NEW x, NEW expected, NEW zk
    PROVE  DifficultyMatches([env |-> env, ctx |-> Context(u, b, x, expected)], zk) <=> expected \in {NoValue, zk}
BY DEF DifficultyMatches, Context

(* The two ways the beacon root is given lead to the same one. *)
LEMMA SameBeaconRoot ==
    ASSUME NEW active, NEW root \in {Absent, Zero}
    PROVE  NormalizeBeaconRoot(active, Absent) = NormalizeBeaconRoot(active, root)
BY DEF NormalizeBeaconRoot, Absent, Zero

(* The header of a sealed block, and what both sides of the engine API say.    *)
LEMMA SealedHeader ==
    ASSUME ChainInv, Sealed
    PROVE  \E gas \in {0, GasLimit} :
             /\ header = AssembleBlock(attributes, head, gas, ZkGas[gas])
             /\ gas \in Nat /\ gas <= GasLimit /\ ZkGas[gas] \in Nat
             /\ attributes.beaconRoot \in {Absent, Zero}
<1>1. PICK gas \in {0, GasLimit} : header = AssembleBlock(attributes, head, gas, ZkGas[gas])
    BY Zenon DEF ChainInv, HeaderInv
<1>2. gas \in Nat /\ gas <= GasLimit
    BY SMT, Z3, FeeAssumption
<1>3. ZkGas[gas] \in Nat
    BY SMT, Z3, <1>2, FeeAssumption, ImportAssumption
<1>4. attributes.beaconRoot \in {Absent, Zero}
    BY ZenonT(30) DEF ChainInv, AttributesInv, Building, Sealed
<1>. QED
    BY Zenon, <1>1, <1>2, <1>3, <1>4

(* A sealed block is imported with what it was built with. *)
LEMMA ImportSeesBuild ==
    ASSUME ChainInv, Sealed, NEW data \in {BlockToPayload(header)} \cup DriverPayloads(header)
    PROVE  /\ ConvertsToBlock(data)
           /\ Visible(PayloadExecution(data)) = Visible(NextBlockExecution(attributes, head))
           /\ DifficultyMatches(PayloadExecution(data), ZkGas[header.gasUsed])
<1>1. PICK gas \in {0, GasLimit} :
        /\ header = AssembleBlock(attributes, head, gas, ZkGas[gas])
        /\ gas \in Nat /\ ZkGas[gas] \in Nat /\ attributes.beaconRoot \in {Absent, Zero}
    BY ZenonT(30), SealedHeader
<1>. DEFINE active == IsUnzenActive(attributes.timestamp)
            root == NormalizeBeaconRoot(active, attributes.beaconRoot)
            expected == IF active THEN data.sidecar.difficulty ELSE NoValue
            env == Environment(head.number + 1, attributes.timestamp, 0, attributes.baseFee)
            Seen(e) == [env |-> env, ctx |-> Context(active, root, attributes.extra, e)]
<1>2. /\ header.number = head.number + 1 /\ header.timestamp = attributes.timestamp
      /\ header.baseFee = attributes.baseFee /\ header.gasUsed = gas /\ header.extra = attributes.extra
      /\ header.difficulty = IF active THEN ZkGas[gas] ELSE 0
    <2>1. Assembled(header, attributes, head, gas, ZkGas[gas])
        BY Zenon, <1>1, AssembledFields
    <2>. QED
        BY <2>1 DEF Assembled
<1>3. ConvertsToBlock(data)
    BY Zenon, <1>1, PayloadRoundTrip
<1>4. /\ data.payload = ToPayload(header)
      /\ active => data.sidecar.difficulty = ZkGas[gas]
    BY ZenonT(30), <1>2, PayloadShape
<1>5. /\ data.payload.number = head.number + 1 /\ data.payload.timestamp = attributes.timestamp
      /\ data.payload.baseFee = attributes.baseFee /\ data.payload.extra = attributes.extra
    BY SMT, Z3, <1>2, <1>4, PayloadFields
<1>6. NormalizeBeaconRoot(active, Absent) = root
    BY Zenon, <1>1, SameBeaconRoot
<1>7. PayloadExecution(data) = Seen(expected)
    BY Zenon, <1>5, <1>6 DEF PayloadExecution, EvmEnvForPayload, ContextForPayload
<1>8. NextBlockExecution(attributes, head) = Seen(NoValue)
    BY Zenon DEF NextBlockExecution, NextEvmEnv, ContextForNextBlock
<1>9. expected \in {NoValue, ZkGas[gas]}
    BY <1>4
<1>10. Visible(Seen(expected)) = Seen(NoValue) /\ Visible(Seen(NoValue)) = Seen(NoValue)
    <2>. HIDE DEF active, root, expected
    <2>. QED
        BY SMT, Z3, VisibleIs
<1>11. DifficultyMatches(Seen(expected), ZkGas[gas])
    <2>. HIDE DEF active, root, expected, env
    <2>. QED
        BY SMT, Z3, <1>9, ExpectedIs
<1>. HIDE DEF Seen
<1>. QED
    BY Zenon, <1>2, <1>3, <1>7, <1>8, <1>10, <1>11

(* It is traced with what it was built with. *)
LEMMA TraceSeesBuild ==
    ASSUME ChainInv, Sealed
    PROVE  LET execution == BlockExecution(header)
           IN  /\ Visible(execution) = Visible(NextBlockExecution(attributes, head))
               /\ DifficultyMatches(execution, ZkGas[header.gasUsed])
               /\ header.requestsHash = IF execution.ctx.unzen THEN EmptyRoot ELSE Absent
<1>1. PICK gas \in {0, GasLimit} : header = AssembleBlock(attributes, head, gas, ZkGas[gas])
    BY ZenonT(30), SealedHeader
<1>. DEFINE active == IsUnzenActive(attributes.timestamp)
            root == NormalizeBeaconRoot(active, attributes.beaconRoot)
            difficulty == IF active THEN header.difficulty ELSE 0
            expected == IF active THEN header.difficulty ELSE NoValue
            Env(d) == Environment(head.number + 1, attributes.timestamp, d, attributes.baseFee)
            Seen(d, e) == [env |-> Env(d), ctx |-> Context(active, root, attributes.extra, e)]
<1>2. /\ header.number = head.number + 1 /\ header.timestamp = attributes.timestamp
      /\ header.baseFee = attributes.baseFee /\ header.gasUsed = gas /\ header.extra = attributes.extra
      /\ header.difficulty = (IF active THEN ZkGas[gas] ELSE 0)
      /\ header.beaconRoot = root /\ header.requestsHash = IF active THEN EmptyRoot ELSE Absent
    <2>1. Assembled(header, attributes, head, gas, ZkGas[gas])
        BY Zenon, <1>1, AssembledFields
    <2>. QED
        BY <2>1 DEF Assembled
<1>3. BlockExecution(header) = Seen(difficulty, expected)
    BY Zenon, <1>2 DEF BlockExecution, EvmEnvOf, ContextForBlock
<1>4. NextBlockExecution(attributes, head) = Seen(0, NoValue)
    BY ZenonT(30) DEF NextBlockExecution, NextEvmEnv, ContextForNextBlock
<1>5. expected \in {NoValue, ZkGas[gas]}
    BY <1>2
<1>6. Visible(Seen(difficulty, expected)) = Seen(0, NoValue) /\ Visible(Seen(0, NoValue)) = Seen(0, NoValue)
    <2>. HIDE DEF active, root, difficulty, expected
    <2>. QED
        BY SMT, Z3, VisibleIs
<1>7. /\ DifficultyMatches(Seen(difficulty, expected), ZkGas[gas])
      /\ Seen(difficulty, expected).ctx.unzen = active
    <2>. HIDE DEF active, root, difficulty, expected, Env
    <2>1. DifficultyMatches(Seen(difficulty, expected), ZkGas[gas])
        BY SMT, Z3, <1>5, ExpectedIs
    <2>2. Seen(difficulty, expected).ctx.unzen = active
        BY DEF Context
    <2>. QED
        BY ZenonT(30), <2>1, <2>2
<1>. HIDE DEF Seen, active
<1>. QED
    BY Zenon, <1>2, <1>3, <1>4, <1>6, <1>7

(* The header of an honest block obeys the rules of its fork. *)
LEMMA HonestHeaderIsValid ==
    ASSUME ChainInv, Sealed, honest, NEW time \in GrandparentTimes
    PROVE  ValidateHeader(header) /\ ValidateAgainstParent(header, head, time)
<1>1. PICK gas \in {0, GasLimit} :
        /\ header = AssembleBlock(attributes, head, gas, ZkGas[gas]) /\ gas \in Nat /\ gas <= GasLimit
    BY ZenonT(30), SealedHeader
<1>2. /\ header.number = head.number + 1 /\ header.timestamp = attributes.timestamp
      /\ header.baseFee = attributes.baseFee /\ header.gasUsed = gas /\ header.extra = attributes.extra
      /\ header.difficulty = IF IsUnzenActive(attributes.timestamp) THEN ZkGas[gas] ELSE 0
    <2>1. Assembled(header, attributes, head, gas, ZkGas[gas])
        BY Zenon, <1>1, AssembledFields
    <2>. QED
        BY <2>1 DEF Assembled
<1>3. /\ attributes.timestamp \in Nat /\ attributes.timestamp > head.timestamp /\ head.timestamp \in Nat
      /\ attributes.baseFee = ProtocolBaseFee(attributes.timestamp)
      /\ IsShastaActive(attributes.timestamp) => attributes.extra = "shasta"
    BY Zenon DEF ChainInv, ChainTypes, AttributesInv, Building, Sealed
<1>4. ValidateHeader(header)
    BY ZenonT(30), <1>1, <1>2, <1>3 DEF ValidateHeader
<1>5. header.timestamp >= head.timestamp
    BY SMT, Z3, <1>2, <1>3
<1>6. ASSUME IsShastaActive(header.timestamp)
      PROVE  header.baseFee = ExpectedBaseFee(header, head, time)
    <2>1. header.baseFee = NextBaseFee(head, head.timestamp - grandTime)
        BY Zenon, <1>2, <1>3, <1>6 DEF ProtocolBaseFee
    <2>2. time = grandTime \/ time = NoValue
        BY Zenon DEF GrandparentTimes
    <2>. QED
        BY Zenon, <2>1, <2>2 DEF ExpectedBaseFee, NextBaseFee
<1>7. ValidateAgainstParent(header, head, time)
    BY Zenon, <1>2, <1>3, <1>5, <1>6 DEF ValidateAgainstParent
<1>. QED
    BY Zenon, <1>4, <1>7

(* Whatever way an honest block was rooted, its root is that of its state.     *)
LEMMA HonestRoot ==
    ASSUME StateInv, ChainInv, step = "execute", honest, NEW root \in BuiltRoots
    PROVE  root = Root(world)
<1>1. HashedPostState = world
    BY Zenon, ProviderIsExact
<1>2. unzen.parent => unzen.block
    <2>1. /\ unzen.parent = IsUnzenActive(head.timestamp) /\ unzen.block = IsUnzenActive(attributes.timestamp)
          /\ head.timestamp \in Nat /\ attributes.timestamp \in Nat /\ attributes.timestamp > head.timestamp
        BY Zenon DEF ChainInv, ForkInv, AttributesInv, ChainTypes, Building
    <2>2. UnzenTime \in Nat
        BY ImportAssumption
    <2>3. IsUnzenActive(head.timestamp) => IsUnzenActive(attributes.timestamp)
        BY SMT, Z3, <2>1, <2>2 DEF IsUnzenActive
    <2>. QED
        BY Zenon, <2>1, <2>3
<1>3. unzen.parent => SparsePostState = world
    BY Zenon, <1>2, SparseIsExact
<1>4. root = Root(HashedPostState) \/ (unzen.parent /\ root = Root(SparsePostState))
    BY Zenon DEF BuiltRoots, PayloadBuilderMayShareSparseTrie
<1>. QED
    BY Zenon, <1>1, <1>3, <1>4

(* The state validation computes has the root of the block's state. *)
LEMMA HonestRootIsFound ==
    ASSUME StateInv
    PROVE  ValidatedPostStates(Root(world)) # {}
<1>1. HashedPostState = world
    BY Zenon, ProviderIsExact
<1>2. world \in {x \in {world} : Root(x) = Root(world)}
    BY Zenon
<1>. QED
    BY Zenon, <1>1, <1>2 DEF ValidatedPostStates, StateRootWithParentStorage

(* The trace of a block with the right root passes its own checks. *)
LEMMA HonestTrace ==
    ASSUME StateInv, TraceBlock, sealed = Root(world)
    PROVE  step' \in {step, "traced"}
<1>. DEFINE diff == StorageDiff(bundle)
            after == ApplyDiff(hashed, diff)
<1>1. DecodesExactly(diff)
    BY Zenon, DiffDecodes
<1>2. HashedPostState = world /\ after = world
    BY Zenon, ProviderIsExact, DiffIsExact
<1>3. Root(HashedPostState) = sealed /\ Root(after) = sealed
    BY Zenon, <1>2
<1>. HIDE DEF after
<1>. QED
    BY Zenon, <1>1, <1>3 DEF TraceBlock, BuildStorageDiff, after

ImportInv == HonestBlockImports /\ RootInv

LEMMA NextImport ==
    ASSUME StateInv, ChainInv, ImportInv, [Next]_vars
    PROVE  ImportInv'
<1>1. ASSUME step' \in {"idle", "execute"} PROVE ImportInv'
    BY Zenon, <1>1 DEF ImportInv, HonestBlockImports, RootInv, Sealed
<1>2. CASE ForkchoiceUpdated
    <2>1. step' = "execute"
        BY ZenonT(30), <1>2 DEF ForkchoiceUpdated, OpenBlock
    <2>. QED
        BY Zenon, <1>1, <2>1
<1>3. CASE ExecuteTransactions
    <2>1. step' = "execute"
        BY <1>3 DEF ExecuteTransactions, ExecuteStep, Fund, Create, Store, Destroy, NextTransaction, Operate
    <2>. QED
        BY Zenon, <1>1, <2>1
<1>4. CASE GetPayload
    <2>1. step = "execute" /\ step' = "sealed" /\ sealed' \in BuiltRoots /\ UNCHANGED <<world, honest>>
        BY Zenon, <1>4 DEF GetPayload, SealBlock
    <2>2. honest => sealed' = Root(world)
        BY Zenon, <2>1, HonestRoot
    <2>. QED
        BY Zenon, <2>1, <2>2 DEF ImportInv, HonestBlockImports, RootInv, Root
<1>5. CASE NewPayload
    <2>1. step = "sealed" /\ step' \in {"valid", "rejected"} /\ UNCHANGED <<world, sealed, honest>>
        BY Zenon, <1>5, NewPayloadFrame
    <2>2. ASSUME honest PROVE step' = "valid"
        <3>1. Sealed /\ sealed = Root(world)
            BY Zenon, <2>1, <2>2 DEF Sealed, ImportInv, RootInv
        <3>2. ValidatedPostStates(sealed) # {}
            BY Zenon, <3>1, HonestRootIsFound
        <3>3. PICK data \in {BlockToPayload(header)} \cup DriverPayloads(header), time \in GrandparentTimes :
                IF /\ ConvertsToBlock(data)
                   /\ ValidateHeader(header)
                   /\ ValidateAgainstParent(header, head, time)
                   /\ Visible(PayloadExecution(data)) = Visible(NextBlockExecution(attributes, head))
                   /\ DifficultyMatches(PayloadExecution(data), ZkGas[header.gasUsed])
                THEN ValidateRoot ELSE step' = "rejected"
            BY Zenon, <1>5 DEF NewPayload
        <3>4. ValidateRoot
            BY Zenon, <2>2, <3>1, <3>3, ImportSeesBuild, HonestHeaderIsValid
        <3>. QED
            BY Zenon, <3>2, <3>4 DEF ValidateRoot
    <2>. QED
        BY Zenon, <2>1, <2>2 DEF ImportInv, HonestBlockImports, RootInv, Root, Sealed
<1>6. CASE Trace
    <2>1. step = "valid" /\ step' \in {"valid", "traced", "rejected"} /\ UNCHANGED <<world, sealed, honest>>
        BY Zenon, <1>6 DEF Trace, TraceBlock, chainVars
    <2>2. ASSUME honest PROVE step' \in {"valid", "traced"}
        <3>1. Sealed /\ sealed = Root(world)
            BY Zenon, <2>1, <2>2 DEF Sealed, ImportInv, RootInv
        <3>2. TraceBlock
            BY Zenon, <1>6, <3>1, TraceSeesBuild DEF Trace
        <3>. QED
            BY Zenon, <2>1, <3>1, <3>2, HonestTrace
    <2>. QED
        BY Zenon, <2>1, <2>2 DEF ImportInv, HonestBlockImports, RootInv, Root, Sealed
<1>7. CASE Persist
    <2>1. step' = "idle"
        BY Zenon, <1>7 DEF Persist, PersistBlock
    <2>. QED
        BY Zenon, <1>1, <2>1
<1>8. CASE Abandon
    <2>1. step' = "idle"
        BY Zenon, <1>8 DEF Abandon, AbandonBlock
    <2>. QED
        BY Zenon, <1>1, <2>1
<1>9. CASE UNCHANGED vars
    BY Zenon, <1>9 DEF vars, stateVars, chainVars, ImportInv, HonestBlockImports, RootInv, Root,
       Sealed
<1>. QED
    BY Zenon, <1>2, <1>3, <1>4, <1>5, <1>6, <1>7, <1>8, <1>9 DEF Next

(* A block built from what the protocol asks for is never refused: not by the  *)
(* conversion, the header rules, the execution and state-root checks of        *)
(* newPayloadV2, nor by the checks of trace_debankBlock on its own diff.       *)
THEOREM HonestBlocksImport == Spec => []HonestBlockImports
<1>1. Init => ImportInv
    BY Zenon DEF Init, StateInit, ImportInv, HonestBlockImports, RootInv, Sealed
<1>2. StateInv /\ ChainInv /\ ImportInv /\ [Next]_vars => ImportInv'
    BY NextImport
<1>3. ImportInv => HonestBlockImports
    BY Zenon DEF ImportInv
<1>. QED
    BY <1>1, <1>2, <1>3, StateHolds, ChainHolds, PTL DEF Spec
=============================================================================
