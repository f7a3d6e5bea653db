---------------------------- MODULE BackupProofs ----------------------------
(***************************************************************************)
(* An import leaves the tables well-formed, gives no label twice unless it *)
(* could not read the labels in use, enables nothing without a secret,     *)
(* stores a rule with all the channels it knows or not at all, and leaves  *)
(* every item of the document in its place when nobody disturbs it and no  *)
(* statement fails: for any document, any tables, any number of imports,   *)
(* failures and deletions at any step.                                     *)
(***************************************************************************)
EXTENDS Backup, TLAPS

\* What the import has noted of the labels in use, if it could list them.
LabelsKnown ==
    ~blind \/ import.whole =>
       /\ import.pc = "keys" =>
             \A k \in keys : k.label # Blank => k.label \in import.keyLabels
       /\ import.pc = "channels" =>
             \A c \in channels : c.label # Blank => c.label \in DOMAIN import.chanIds

\* An id that the import has noted for a label is no other channel's.
ChannelsKnown ==
    /\ \A c, d \in channels : c.id = d.id => c = d
    /\ \A l \in DOMAIN import.chanIds : \A c \in channels :
          c.id = import.chanIds[l] => c.label = l

\* The label of a channel of the document that the table takes has an id.
Noted(j) == Bundle.channels[j].supported => Bundle.channels[j].label \in DOMAIN import.chanIds

\* How many channels of the document have been gone through without a failure.
ChannelsSeen ==
    /\ import.pc \in {"listAssets", "listKeys", "listChannels"} => import.next = 1
    /\ import.pc = "channels" /\ import.whole =>
          \A j \in Indices(Bundle.channels) : j < import.next => Noted(j)
    /\ import.pc = "rules" /\ import.whole =>
          \A j \in Indices(Bundle.channels) : Noted(j)

\* What a request has to pass.
source == <<import.mode, import.origin, import.named>>

Accepted == import.pc # "idle" => Accepts(import.mode, import.origin, import.named)

Inv == /\ TypeOK
       /\ LabelsStayUnique
       /\ LabelsKnown
       /\ ChannelsKnown
       /\ ChannelsSeen
       /\ Accepted

----------------------------------------------------------------------------
(* Operators *)

LEMMA PartialIntro ==
  ASSUME NEW S, NEW D \in SUBSET S, NEW f \in [D -> Ids]
  PROVE  f \in Partial(S)
BY DEF Partial

LEMMA PartialType ==
  ASSUME NEW S, NEW f \in Partial(S)
  PROVE  DOMAIN f \subseteq S /\ f \in [DOMAIN f -> Ids]
BY DEF Partial

LEMMA WithType ==
  ASSUME NEW S, NEW f \in Partial(S), NEW x \in S, NEW y \in Ids
  PROVE  With(f, x, y) \in Partial(S)
<1>1. DOMAIN f \union {x} \in SUBSET S /\ \A z \in DOMAIN f : f[z] \in Ids
  BY PartialType
<1>2. With(f, x, y) \in [DOMAIN f \union {x} -> Ids]
  BY <1>1 DEF With
<1> QED
  BY <1>1, <1>2, PartialIntro

LEMMA FreshType ==
  ASSUME NEW used, NEW id \in Fresh(used)
  PROVE  id \in Ids /\ id \notin used
BY DEF Fresh

\* A new row is well-formed.  In an accepted document it is enabled only with a
\* secret, and only an instance_key document has one that this instance cannot open.
LEMMA RowType ==
  ASSUME TypeOK, NEW id \in Ids, NEW item \in KeyItem \union ChannelItem
  PROVE  /\ Row(id, item) \in Sealed
         /\ Row(id, item).id = id
         /\ Row(id, item).label = item.label
         /\ Accepts(import.mode, import.origin, import.named) /\ Row(id, item).enabled =>
               \/ Row(id, item).secret = "ours"
               \/ /\ import.mode = "instance_key" /\ Row(id, item).secret # "none"
                  /\ Row(id, item).secret = "broken" \/ ~import.named
<1>1. import.mode \in Modes /\ import.origin \in {"ours", "theirs"}
  BY DEF TypeOK, Import
<1>2. /\ item.label \in Labels \union {Blank} /\ item.enabled \in BOOLEAN
      /\ item.secret \in {"none", "sealed", "broken"}
  BY DEF KeyItem, ChannelItem
<1>3. Localized(item) \in Secrets
  BY <1>1 DEF Localized, Modes, Secrets
<1>4. Accepts(import.mode, import.origin, import.named) /\ Localized(item) # "none" =>
         \/ Localized(item) = "ours"
         \/ /\ import.mode = "instance_key"
            /\ Localized(item) = "broken" \/ ~import.named
  BY <1>1 DEF Accepts, Localized, Modes
<1> HIDE DEF Secrets
<1> DEFINE enabled == item.enabled /\ Localized(item) # "none"
<1>5. enabled \in BOOLEAN /\ (enabled => Localized(item) # "none")
  OBVIOUS
<1>6. Row(id, item) = [id |-> id, label |-> item.label, secret |-> Localized(item),
                       enabled |-> enabled]
  BY DEF Row
<1> HIDE DEF enabled
<1> QED
  BY <1>2, <1>3, <1>4, <1>5, <1>6 DEF Sealed

LEMMA BundleType ==
  /\ \A i \in Indices(Bundle.assets) : Bundle.assets[i] \in Assets
  /\ \A i \in Indices(Bundle.keys) : Bundle.keys[i] \in KeyItem
  /\ \A i \in Indices(Bundle.channels) : Bundle.channels[i] \in ChannelItem
<1>1. \A S : \A s \in Seq(S) : \A i \in Indices(s) : s[i] \in S
  BY DEF Indices
<1> QED
  BY <1>1, BackupConstants

----------------------------------------------------------------------------
(* Steps that leave the tables as they are *)

LEMMA TablesKept ==
  ASSUME Inv, UNCHANGED tables, import' \in Import, imports' \in 0..MaxImports,
         faults' \in 0..MaxFaults, blind' \in BOOLEAN, blind => blind'
  PROVE  TypeOK' /\ LabelsStayUnique'
BY DEF Inv, TypeOK, LabelsStayUnique, AssetIds, ChannelIds, tables

LEMMA IdleType == Idle \in Import
<1>1. Nothing \in [{} -> Ids] /\ DOMAIN Nothing = {}
  BY DEF Nothing
<1>2. Nothing \in Partial(Assets) /\ Nothing \in Partial(Labels \union {Blank})
  BY <1>1, PartialIntro
<1> QED
  BY <1>2 DEF Idle, Import, Phases, Modes

LEMMA IdleFields == Idle.pc = "idle" /\ DOMAIN Idle.chanIds = {}
BY DEF Idle, Nothing

LEMMA BackToIdle ==
  ASSUME Inv, UNCHANGED <<tables, notes>>, import' = Idle
  PROVE  Inv'
<1>1. import'.pc = "idle" /\ DOMAIN import'.chanIds = {}
  BY IdleFields
<1>2. TypeOK' /\ LabelsStayUnique'
  BY TablesKept, IdleType DEF Inv, TypeOK, notes
<1> QED
  BY <1>1, <1>2
  DEF Inv, LabelsKnown, ChannelsKnown, ChannelsSeen, Accepted, tables

LEMMA RequestStep ==
  ASSUME Inv, NEW mode \in Modes, NEW origin \in {"ours", "theirs"}, NEW named \in BOOLEAN,
         Request(mode, origin, named)
  PROVE  Inv'
<1> DEFINE again == InPlace
           usedKeys == LabelsIn(keys) \ {Blank}
           usedChannels == LabelsIn(channels) \ {Blank}
<1>1. again \in BOOLEAN /\ usedKeys \subseteq Labels /\ usedChannels \subseteq Labels
  BY DEF InPlace, LabelsIn, Inv, TypeOK, Sealed
<1>2. import' = [Idle EXCEPT !.pc = "listAssets", !.mode = mode, !.origin = origin,
                             !.named = named, !.again = again,
                             !.usedKeys = usedKeys, !.usedChannels = usedChannels]
  BY DEF Request
<1> HIDE DEF again, usedKeys, usedChannels
<1>3. /\ import'.pc = "listAssets" /\ import'.mode = mode /\ import'.origin = origin
      /\ import'.named = named /\ import' \in Import /\ import'.next = 1
      /\ import'.chanIds = Idle.chanIds
  <2>1. Idle.next = 1
    BY DEF Idle
  <2> QED
    BY <1>1, <1>2, <2>1, IdleType DEF Import, Phases
<1>4. imports' \in 0..MaxImports /\ UNCHANGED <<tables, faults, blind>>
  BY BackupConstants DEF Inv, TypeOK, Request
<1>5. TypeOK' /\ LabelsStayUnique'
  BY <1>3, <1>4, TablesKept DEF Inv, TypeOK
<1>6. Accepted'
  BY <1>3 DEF Accepted, Request
<1> QED
  BY <1>3, <1>4, <1>5, <1>6, IdleFields DEF Inv, LabelsKnown, ChannelsKnown, ChannelsSeen, tables

LEMMA ListAssetsStep ==
  ASSUME Inv, ListAssets
  PROVE  Inv'
<1> DEFINE ids == [a \in DOMAIN assets |-> assets[a].id]
<1>1. ids \in Partial(Assets)
  <2>1. DOMAIN assets \in SUBSET Assets /\ ids \in [DOMAIN assets -> Ids]
    BY DEF Inv, TypeOK
  <2> QED
    BY <2>1, PartialIntro
<1>2. import' = [import EXCEPT !.pc = "assets", !.assetIds = ids]
  BY DEF ListAssets
<1> HIDE DEF ids
<1>3. /\ import' \in Import /\ import.pc = "listAssets" /\ import'.pc = "assets"
      /\ UNCHANGED source /\ import'.chanIds = import.chanIds
      /\ UNCHANGED <<tables, imports, faults, blind>>
  BY <1>1, <1>2 DEF Inv, TypeOK, Import, Phases, ListAssets, source, notes
<1>4. TypeOK' /\ LabelsStayUnique'
  BY <1>3, TablesKept DEF Inv, TypeOK
<1> QED
  BY <1>3, <1>4 DEF Inv, LabelsKnown, ChannelsKnown, ChannelsSeen, Accepted, source, tables

LEMMA ListKeysStep ==
  ASSUME Inv, ListKeys
  PROVE  Inv'
<1> DEFINE labels == {k.label : k \in keys} \ {Blank}
<1>1. labels \subseteq Labels
  BY DEF Inv, TypeOK, Sealed
<1>2. /\ import' = [import EXCEPT !.pc = "keys", !.keyLabels = labels]
      /\ \A k \in keys : k.label # Blank => k.label \in labels
  BY DEF ListKeys
<1> HIDE DEF labels
<1>3. /\ import' \in Import /\ import.pc = "listKeys" /\ import'.pc = "keys"
      /\ UNCHANGED source /\ import'.chanIds = import.chanIds
      /\ import'.keyLabels = labels
      /\ UNCHANGED <<tables, imports, faults, blind>>
  BY <1>1, <1>2 DEF Inv, TypeOK, Import, Phases, ListKeys, source, notes
<1>4. TypeOK' /\ LabelsStayUnique'
  BY <1>3, TablesKept DEF Inv, TypeOK
<1> QED
  BY <1>2, <1>3, <1>4
  DEF Inv, LabelsKnown, ChannelsKnown, ChannelsSeen, Accepted, source, tables

LEMMA ListChannelsStep ==
  ASSUME Inv, ListChannels
  PROVE  Inv'
<1>1. PICK labels \in SUBSET {c.label : c \in channels} : \E ids \in [labels -> ChannelIds] :
         Known(ids) /\ import' = [import EXCEPT !.pc = "channels", !.chanIds = ids]
  BY DEF ListChannels
<1>2. PICK ids \in [labels -> ChannelIds] :
         Known(ids) /\ import' = [import EXCEPT !.pc = "channels", !.chanIds = ids]
  BY <1>1
<1>3. ids \in Partial(Labels \union {Blank})
  <2>1. labels \in SUBSET (Labels \union {Blank}) /\ ChannelIds \subseteq Ids
    BY DEF Inv, TypeOK, Sealed, ChannelIds
  <2>2. ids \in [labels -> Ids]
    BY <2>1
  <2> QED
    BY <2>1, <2>2, PartialIntro
<1>4. /\ import' \in Import /\ import.pc = "listChannels" /\ import'.pc = "channels"
      /\ UNCHANGED source
      /\ import'.chanIds = ids /\ import'.next = 1
      /\ UNCHANGED <<tables, imports, faults, blind>>
  BY <1>2, <1>3 DEF Inv, TypeOK, Import, Phases, ListChannels, ChannelsSeen, source, notes
<1>5. TypeOK' /\ LabelsStayUnique'
  BY <1>4, TablesKept DEF Inv, TypeOK
<1>6. \A c \in channels : c.label \in DOMAIN ids
  BY <1>2 DEF Known
<1>7. \A l \in DOMAIN ids : \A c \in channels : c.id = ids[l] => c.label = l
  BY <1>2 DEF Known, Inv, ChannelsKnown
<1>8. LabelsKnown' /\ ChannelsKnown'
  BY <1>4, <1>6, <1>7 DEF LabelsKnown, ChannelsKnown, Inv, tables
<1>9. ChannelsSeen' /\ Accepted'
  BY <1>4 DEF ChannelsSeen, Accepted, Inv, Indices, source
<1> QED
  BY <1>5, <1>8, <1>9 DEF Inv

\* A list that fails: nothing is noted, and the import knows nothing whole.
LEMMA ListFailsStep ==
  ASSUME Inv, NEW pc, NEW then, ListFails(pc, then),
         \/ pc = "listAssets" /\ then = "assets"
         \/ pc = "listKeys" /\ then = "keys"
         \/ pc = "listChannels" /\ then = "channels"
  PROVE  Inv'
<1>1. /\ import' = [import EXCEPT !.pc = then, !.whole = FALSE] /\ import.pc = pc
      /\ blind' = (blind \/ pc # "listAssets") /\ UNCHANGED <<tables, imports>>
      /\ faults' \in 0..MaxFaults
  BY BackupConstants DEF ListFails, Fault, Inv, TypeOK
<1>2. /\ import' \in Import /\ import'.pc = then /\ ~import'.whole
      /\ UNCHANGED source /\ import'.chanIds = import.chanIds
  BY <1>1 DEF Inv, TypeOK, Import, Phases, source
<1>3. TypeOK' /\ LabelsStayUnique'
  BY <1>1, <1>2, TablesKept DEF Inv, TypeOK
<1>4. LabelsKnown'
  BY <1>1, <1>2 DEF LabelsKnown
<1>5. ChannelsKnown' /\ ChannelsSeen' /\ Accepted'
  BY <1>1, <1>2 DEF Inv, ChannelsKnown, ChannelsSeen, Accepted, source, tables
<1> QED
  BY <1>3, <1>4, <1>5 DEF Inv

LEMMA ItemFailsStep ==
  ASSUME Inv, ItemFails
  PROVE  Inv'
<1> DEFINE n == import.next + 1
<1>1. /\ import' = [import EXCEPT !.next = n, !.whole = FALSE]
      /\ import.pc \in {"assets", "keys", "channels", "rules"}
      /\ UNCHANGED <<tables, imports, blind>> /\ faults' \in 0..MaxFaults
      /\ n \in Nat
  BY BackupConstants DEF ItemFails, At, Fault, Inv, TypeOK, Import
<1> HIDE DEF n
<1>2. /\ import' \in Import /\ import'.pc = import.pc /\ ~import'.whole
      /\ UNCHANGED source
      /\ import'.chanIds = import.chanIds /\ import'.keyLabels = import.keyLabels
  BY <1>1 DEF Inv, TypeOK, Import, source
<1>3. TypeOK' /\ LabelsStayUnique'
  BY <1>1, <1>2, TablesKept DEF Inv, TypeOK
<1> QED
  BY <1>1, <1>2, <1>3
  DEF Inv, LabelsKnown, ChannelsKnown, ChannelsSeen, Accepted, source, tables

\* From one list of the document to the next step.
LEMMA PhaseEndsStep ==
  ASSUME Inv, NEW pc, NEW list, NEW then, PhaseEnds(pc, list, then),
         \/ pc \in {"assets", "keys"} /\ then \in {"listKeys", "listChannels"}
         \/ pc = "channels" /\ list = Bundle.channels /\ then = "rules"
         \/ then = "idle"
  PROVE  Inv'
<1>1. CASE then = "idle"
  BY <1>1, BackToIdle DEF PhaseEnds
<1>2. CASE then # "idle"
  <2>1. import' = [import EXCEPT !.pc = then, !.next = 1]
    BY <1>2 DEF PhaseEnds
  <2> then \in Phases
    BY DEF Phases
  <2>2. import.pc = pc /\ UNCHANGED <<tables, imports, faults, blind>>
    BY DEF PhaseEnds, notes
  <2>3. import \in Import
    BY DEF Inv, TypeOK
  <2>4. /\ import' \in Import /\ import'.pc = then /\ import'.next = 1
        /\ UNCHANGED source /\ import'.whole = import.whole
        /\ import'.chanIds = import.chanIds /\ import.pc = pc
    BY <2>1, <2>2, <2>3 DEF Import, source
  <2>5. TypeOK' /\ LabelsStayUnique'
    BY <2>2, <2>4, TablesKept DEF Inv, TypeOK
  <2>6. CASE pc \in {"assets", "keys"} /\ then \in {"listKeys", "listChannels"}
    BY <2>2, <2>4, <2>5, <2>6
    DEF Inv, LabelsKnown, ChannelsKnown, ChannelsSeen, Accepted, source, tables
  <2>7. CASE pc = "channels" /\ list = Bundle.channels /\ then = "rules"
    <3>1. \A j \in Indices(Bundle.channels) : j < import.next
      BY <2>7, BackupConstants DEF PhaseEnds, Indices, Inv, TypeOK, Import
    <3>2. ChannelsSeen'
      BY <2>4, <2>7, <3>1 DEF Inv, ChannelsSeen, Noted
    <3> QED
      BY <2>2, <2>4, <2>5, <2>7, <3>2
      DEF Inv, LabelsKnown, ChannelsKnown, Accepted, source, tables
  <2> QED
    BY <1>2, <2>6, <2>7
<1> QED
  BY <1>1, <1>2

----------------------------------------------------------------------------
(* Steps that change the assets *)

LEMMA SkipType ==
  ASSUME Inv, Skip
  PROVE  /\ import' \in Import
         /\ import' = [import EXCEPT !.next = import.next + 1]
         /\ import'.next = import.next + 1 /\ import'.pc = import.pc
         /\ UNCHANGED source /\ import'.whole = import.whole
         /\ import'.keyLabels = import.keyLabels /\ import'.chanIds = import.chanIds
BY DEF Inv, TypeOK, Import, Skip, source

LEMMA DisturbType ==
  ASSUME Inv, Disturb
  PROVE  /\ import' \in Import
         /\ import'.pc = import.pc
         /\ import.pc = "idle" => DOMAIN import'.chanIds = {}
         /\ import.pc # "idle" =>
               /\ import'.next = import.next /\ UNCHANGED source
               /\ import'.whole = import.whole
               /\ import'.keyLabels = import.keyLabels /\ import'.chanIds = import.chanIds
<1>1. CASE import.pc = "idle"
  BY <1>1, IdleType, IdleFields DEF Disturb
<1>2. CASE import.pc # "idle"
  BY <1>2 DEF Inv, TypeOK, Import, Disturb, source
<1> QED
  BY <1>1, <1>2

\* The import goes on in its phase; what it has noted of labels stays.
GoesOn ==
    /\ import' \in Import /\ import'.pc = import.pc
    /\ import.pc = "idle" => DOMAIN import'.chanIds = {}
    /\ import.pc # "idle" =>
          /\ UNCHANGED source /\ import'.whole = import.whole
          /\ import'.keyLabels = import.keyLabels /\ import'.chanIds = import.chanIds

LEMMA DisturbGoesOn ==
  ASSUME Inv, Disturb
  PROVE  GoesOn /\ (import.pc # "idle" => import'.next = import.next)
BY DisturbType DEF GoesOn

LEMMA SkipGoesOn ==
  ASSUME Inv, Skip, import.pc # "idle"
  PROVE  GoesOn
BY SkipType DEF GoesOn

\* Keys and channels only go: what has been noted of them stays true.
LEMMA NotesStayTrue ==
  ASSUME Inv, GoesOn, keys' \subseteq keys, channels' \subseteq channels, UNCHANGED notes,
         import.pc \in {"listAssets", "listKeys", "listChannels", "channels"} =>
            import'.next = import.next
  PROVE  /\ LabelsStayUnique' /\ LabelsKnown' /\ ChannelsKnown' /\ ChannelsSeen' /\ Accepted'
<1>1. LabelsStayUnique' /\ LabelsKnown'
  BY DEF Inv, LabelsStayUnique, LabelsKnown, GoesOn, notes
<1>2. ChannelsKnown'
  BY DEF Inv, ChannelsKnown, GoesOn
<1>3. ChannelsSeen' /\ Accepted'
  BY DEF Inv, ChannelsSeen, Noted, Accepted, GoesOn, source
<1> QED
  BY <1>1, <1>2, <1>3

\* With keys and channels as they are, what is left to see are the assets.
LEMMA AssetsChange ==
  ASSUME Inv, GoesOn, UNCHANGED <<keys, channels, notes>>,
         import.pc \notin {"idle", "assets"} => import'.next = import.next,
         DOMAIN assets' \subseteq Assets,
         assets' \in [DOMAIN assets' -> [id : Ids, same : BOOLEAN]],
         rules' \subseteq rules,
         \A r \in rules' : r.asset \in (AssetIds \union {Global})'
  PROVE  Inv'
<1>1. TypeOK'
  BY DEF Inv, TypeOK, ChannelIds, GoesOn, notes
<1> QED
  BY <1>1, NotesStayTrue DEF Inv

\* A row more: the names and ids there are stay.
LEMMA AssetAdded ==
  ASSUME Inv, NEW a \in Assets, NEW id \in Ids, NEW same \in BOOLEAN,
         assets' = With(assets, a, [id |-> id, same |-> same]), a \notin DOMAIN assets
  PROVE  /\ DOMAIN assets' \subseteq Assets
         /\ assets' \in [DOMAIN assets' -> [id : Ids, same : BOOLEAN]]
         /\ AssetIds \subseteq AssetIds'
<1> DEFINE new == [id |-> id, same |-> same]
<1>1. assets' = [z \in DOMAIN assets \union {a} |-> IF z = a THEN new ELSE assets[z]]
  BY DEF With
<1>2. new \in [id : Ids, same : BOOLEAN]
  OBVIOUS
<1> HIDE DEF new
<1> QED
  BY <1>1, <1>2 DEF Inv, TypeOK, AssetIds

LEMMA UpdateAssetStep ==
  ASSUME Inv, NEW a, UpdateAsset(a), import.pc = "assets",
         UNCHANGED <<keys, channels, rules, notes>>
  PROVE  Inv'
<1>1. /\ assets' = [b \in DOMAIN assets |->
                      IF assets[b].id = import.assetIds[a] THEN [assets[b] EXCEPT !.same = TRUE]
                      ELSE assets[b]]
      /\ Skip
  BY DEF UpdateAsset
<1>2. \A b \in DOMAIN assets :
         /\ assets'[b] \in [id : Ids, same : BOOLEAN]
         /\ assets'[b].id = assets[b].id
  BY <1>1 DEF Inv, TypeOK
<1>3. DOMAIN assets' = DOMAIN assets /\ assets' \in [DOMAIN assets' -> [id : Ids, same : BOOLEAN]]
  BY <1>1, <1>2
<1>4. AssetIds' = AssetIds
  BY <1>2, <1>3 DEF AssetIds
<1> QED
  BY <1>1, <1>3, <1>4, SkipGoesOn, AssetsChange DEF Inv, TypeOK

LEMMA CreateAssetStep ==
  ASSUME Inv, NEW a \in Assets, CreateAsset(a), import.pc = "assets",
         UNCHANGED <<keys, channels, rules, notes>>
  PROVE  Inv'
<1>1. CASE a \in DOMAIN assets
  BY <1>1, SkipGoesOn, AssetsChange DEF CreateAsset, Inv, TypeOK, AssetIds
<1>2. CASE a \notin DOMAIN assets
  <2>1. PICK id \in Fresh(AssetIds \union Values(import.assetIds)) :
           assets' = With(assets, a, [id |-> id, same |-> TRUE]) /\ NoteAsset(a, id)
    BY <1>2 DEF CreateAsset
  <2>2. id \in Ids /\ import.assetIds \in Partial(Assets)
    BY FreshType DEF Inv, TypeOK, Import
  <2> DEFINE noted == With(import.assetIds, a, id)
  <2>3. noted \in Partial(Assets)
    BY <2>2, WithType
  <2> DEFINE n == import.next + 1
  <2>4. /\ import' = [import EXCEPT !.next = n, !.assetIds = noted]
        /\ import \in Import /\ n \in Nat
    BY <2>1 DEF NoteAsset, Inv, TypeOK, Import
  <2> HIDE DEF noted, n
  <2>5. GoesOn
    BY <2>3, <2>4 DEF Import, GoesOn, source
  <2> QED
    BY <1>2, <2>1, <2>2, <2>5, AssetAdded, AssetsChange DEF Inv, TypeOK
<1> QED
  BY <1>1, <1>2

LEMMA ImportAssetStep ==
  ASSUME Inv, ImportAsset
  PROVE  Inv'
<1>1. import.pc = "assets" /\ Bundle.assets[import.next] \in Assets
  BY BundleType DEF ImportAsset, At
<1> QED
  BY <1>1, UpdateAssetStep, CreateAssetStep DEF ImportAsset

LEMMA AddAssetStep ==
  ASSUME Inv, NEW a \in Assets, AddAsset(a)
  PROVE  Inv'
<1>1. PICK id \in Fresh(AssetIds \union Values(import.assetIds)) :
         assets' = With(assets, a, [id |-> id, same |-> FALSE])
  BY DEF AddAsset
<1>2. id \in Ids
  BY FreshType
<1> QED
  BY <1>1, <1>2, DisturbGoesOn, AssetAdded, AssetsChange DEF AddAsset, Inv, TypeOK

\* No rule is left with the id of a deleted asset.
LEMMA DeleteAssetStep ==
  ASSUME Inv, NEW a \in DOMAIN assets, DeleteAsset(a)
  PROVE  Inv'
<1>1. /\ assets' = [b \in DOMAIN assets \ {a} |-> assets[b]]
      /\ rules' = {r \in rules : r.asset # assets[a].id}
      /\ UNCHANGED <<keys, channels, notes>> /\ Disturb
  BY DEF DeleteAsset
<1>2. /\ DOMAIN assets' \subseteq Assets
      /\ assets' \in [DOMAIN assets' -> [id : Ids, same : BOOLEAN]]
  BY <1>1 DEF Inv, TypeOK
<1>3. \A id \in AssetIds : id # assets[a].id => id \in AssetIds'
  BY <1>1 DEF AssetIds
<1>4. \A r \in rules' : r.asset \in (AssetIds \union {Global})'
  BY <1>1, <1>3 DEF Inv, TypeOK
<1> QED
  BY <1>1, <1>2, <1>4, DisturbGoesOn, AssetsChange

----------------------------------------------------------------------------
(* Steps that change keys, channels and rules *)

\* The item is passed over: its label is taken, or it is corrupt, or unsupported.
LEMMA PassedOver ==
  ASSUME Inv, Skip, UNCHANGED <<tables, notes>>, import.pc \in {"keys", "channels"},
         import.pc = "channels" => import.next \in Indices(Bundle.channels) /\ Noted(import.next)
  PROVE  Inv'
<1>1. TypeOK' /\ LabelsStayUnique'
  BY SkipType, TablesKept DEF Inv, TypeOK, notes
<1>2. LabelsKnown' /\ ChannelsKnown' /\ Accepted'
  BY SkipType DEF Inv, LabelsKnown, ChannelsKnown, Accepted, source, tables, notes
<1>3. ChannelsSeen'
  <2>1. \A j \in Indices(Bundle.channels) :
           j < import.next + 1 => j < import.next \/ j = import.next
    BY BackupConstants DEF Indices, Import, Inv, TypeOK
  <2> QED
    BY <2>1, SkipType DEF Inv, ChannelsSeen, Noted
<1> QED
  BY <1>1, <1>2, <1>3 DEF Inv

\* What ImportKey adds.
LEMMA KeyAdded ==
  ASSUME ImportKey
  PROVE  \/ UNCHANGED keys /\ import' = Idle
         \/ UNCHANGED keys /\ Skip /\ Bundle.keys[import.next].label \in import.keyLabels
         \/ \E id \in Ids : /\ Bundle.keys[import.next].label \notin import.keyLabels
                            /\ keys' = keys \union {Row(id, Bundle.keys[import.next])}
                            /\ NoteKey(Bundle.keys[import.next])
BY FreshType DEF ImportKey, NewKey

LEMMA ImportKeyStep ==
  ASSUME Inv, ImportKey
  PROVE  Inv'
<1> DEFINE item == Bundle.keys[import.next]
<1>1. item \in KeyItem /\ import.pc = "keys" /\ UNCHANGED <<assets, channels, rules, notes>>
  BY BundleType DEF ImportKey, At
<1>2. CASE UNCHANGED keys /\ Skip
  BY <1>1, <1>2, PassedOver DEF tables
<1>3. CASE UNCHANGED keys /\ import' = Idle
  BY <1>1, <1>3, BackToIdle DEF tables
<1>4. ASSUME NEW id \in Ids, item.label \notin import.keyLabels,
             keys' = keys \union {Row(id, item)}, NoteKey(item)
      PROVE  Inv'
  <2> DEFINE n == import.next + 1
             labels == import.keyLabels \union ({item.label} \ {Blank})
             row == Row(id, item)
  <2>2. /\ import' = [import EXCEPT !.next = n, !.keyLabels = labels]
        /\ import \in Import /\ n \in Nat
    BY <1>4 DEF NoteKey, Inv, TypeOK, Import
  <2>3. labels \in SUBSET Labels
    BY <1>1, <2>2 DEF KeyItem, Import
  <2>4. item.label # Blank => item.label \in labels
    OBVIOUS
  <2>5. import.keyLabels \subseteq labels
    OBVIOUS
  <2>6. row \in Sealed /\ row.label = item.label
    BY <1>1, RowType DEF Inv
  <2>7. keys' = keys \union {row}
    BY <1>4
  <2> HIDE DEF n, labels, row
  <2>8. /\ import' \in Import /\ import'.pc = import.pc /\ import'.keyLabels = labels
        /\ UNCHANGED source /\ import'.whole = import.whole /\ import'.chanIds = import.chanIds
    BY <2>2, <2>3 DEF Import, source
  <2>9. TypeOK'
    BY <1>1, <2>6, <2>7, <2>8 DEF Inv, TypeOK, AssetIds, ChannelIds, notes
  <2>10. ~blind => \A k \in keys : k.label = row.label => k.label = Blank
    BY <1>1, <1>4, <2>6 DEF Inv, LabelsKnown
  <2>11. LabelsStayUnique'
    <3>1. ~blind => \A k, l \in keys' : k.label = l.label /\ k.label # Blank => k = l
      BY <2>7, <2>10 DEF Inv, LabelsStayUnique
    <3> QED
      BY <1>1, <3>1 DEF Inv, LabelsStayUnique, notes
  <2>12. LabelsKnown'
    BY <1>1, <2>4, <2>5, <2>6, <2>7, <2>8 DEF Inv, LabelsKnown, notes
  <2> QED
    BY <1>1, <2>8, <2>9, <2>11, <2>12 DEF Inv, ChannelsKnown, ChannelsSeen, Accepted, source
<1> QED
  BY <1>2, <1>3, <1>4, KeyAdded

LEMMA DeleteKeyStep ==
  ASSUME Inv, NEW k \in keys, DeleteKey(k)
  PROVE  Inv'
<1>1. keys' \subseteq keys /\ Disturb /\ UNCHANGED <<assets, channels, rules, notes>>
  BY DEF DeleteKey
<1>2. TypeOK'
  BY <1>1, DisturbType DEF Inv, TypeOK, AssetIds, ChannelIds, notes
<1> QED
  BY <1>1, <1>2, DisturbGoesOn, NotesStayTrue DEF Inv

\* What ImportChannel adds.
LEMMA ChannelAdded ==
  ASSUME ImportChannel
  PROVE  LET item == Bundle.channels[import.next] IN
         \/ UNCHANGED channels /\ import' = Idle
         \/ UNCHANGED channels /\ Skip /\ (Taken(item) \/ ~item.supported)
         \/ \E id \in Ids :
               /\ id \notin ChannelIds \union Values(import.chanIds)
               /\ ~Taken(item) /\ item.supported
               /\ channels' = channels \union {Row(id, item)}
               /\ import' = [import EXCEPT !.next = @ + 1, !.chanIds = With(@, item.label, id)]
BY FreshType DEF ImportChannel, NewChannel

LEMMA ImportChannelStep ==
  ASSUME Inv, ImportChannel
  PROVE  Inv'
<1> DEFINE item == Bundle.channels[import.next]
<1>1. /\ item \in ChannelItem /\ import.pc = "channels"
      /\ import.next \in Indices(Bundle.channels)
      /\ UNCHANGED <<assets, keys, rules, notes>> /\ import \in Import
  BY BundleType DEF ImportChannel, At, Inv, TypeOK
<1>2. CASE UNCHANGED channels /\ import' = Idle
  BY <1>1, <1>2, BackToIdle DEF tables
<1>3. CASE UNCHANGED channels /\ Skip /\ (Taken(item) \/ ~item.supported)
  BY <1>1, <1>3, PassedOver DEF tables, Taken, Noted
<1>4. ASSUME NEW id \in Ids, id \notin ChannelIds \union Values(import.chanIds), ~Taken(item),
             channels' = channels \union {Row(id, item)},
             import' = [import EXCEPT !.next = @ + 1, !.chanIds = With(@, item.label, id)]
      PROVE  Inv'
  <2> DEFINE n == import.next + 1
             noted == With(import.chanIds, item.label, id)
             row == Row(id, item)
  <2>2. /\ id \in Ids /\ id \notin ChannelIds
        /\ \A l \in DOMAIN import.chanIds : import.chanIds[l] # id
    BY <1>4 DEF Values
  <2>3. import' = [import EXCEPT !.next = n, !.chanIds = noted] /\ n \in Nat
    BY <1>1, <1>4 DEF Import
  <2>4. row \in Sealed /\ row.id = id /\ row.label = item.label
    BY <1>1, <2>2, RowType DEF Inv
  <2>5. /\ noted \in Partial(Labels \union {Blank})
        /\ DOMAIN noted = DOMAIN import.chanIds \union {item.label}
        /\ noted[item.label] = id
        /\ \A z \in DOMAIN import.chanIds : z # item.label => noted[z] = import.chanIds[z]
    <3>1. item.label \in Labels \union {Blank} /\ import.chanIds \in Partial(Labels \union {Blank})
      BY <1>1 DEF ChannelItem, Import
    <3>2. noted \in Partial(Labels \union {Blank})
      BY <2>2, <3>1, WithType
    <3> QED
      BY <3>2 DEF With
  <2>6. channels' = channels \union {row}
    BY <1>4
  <2>7. \A j \in Indices(Bundle.channels) : j < n => j < import.next \/ j = import.next
    BY <1>1, BackupConstants DEF Indices, Import
  <2>8. Bundle.channels[import.next].label = item.label
    OBVIOUS
  <2>16. item.label # Blank => item.label \notin DOMAIN import.chanIds
    BY <1>4 DEF Taken
  <2> HIDE DEF n, noted, row, item
  <2>9. /\ import' \in Import /\ import'.pc = import.pc /\ import'.chanIds = noted
        /\ UNCHANGED source /\ import'.whole = import.whole /\ import'.next = n
    BY <1>1, <2>3, <2>5 DEF Import, source
  <2>10. TypeOK'
    <3>1. ChannelIds \subseteq ChannelIds'
      BY <2>6 DEF ChannelIds
    <3> QED
      BY <1>1, <2>4, <2>6, <2>9, <3>1 DEF Inv, TypeOK, AssetIds, notes
  <2>11. ~blind => \A c \in channels : c.label = row.label => c.label = Blank
    BY <1>1, <2>16, <2>4 DEF Inv, LabelsKnown
  <2>12. LabelsStayUnique'
    <3>1. ~blind => \A c, d \in channels' : c.label = d.label /\ c.label # Blank => c = d
      BY <2>6, <2>11 DEF Inv, LabelsStayUnique
    <3> QED
      BY <1>1, <3>1 DEF Inv, LabelsStayUnique, notes
  <2>13. LabelsKnown'
    BY <1>1, <2>4, <2>5, <2>6, <2>9 DEF Inv, LabelsKnown, notes
  <2>14. ChannelsKnown'
    <3>1. \A c \in channels : c.id # id
      BY <2>2 DEF ChannelIds
    <3>2. \A c, d \in channels' : c.id = d.id => c = d
      BY <2>4, <2>6, <3>1 DEF Inv, ChannelsKnown
    <3>3. ASSUME NEW l \in DOMAIN noted, NEW c \in channels', c.id = noted[l]
          PROVE  c.label = l
      <4>1. CASE l = item.label
        BY <2>4, <2>5, <2>6, <3>1, <3>3, <4>1
      <4>2. CASE l # item.label
        BY <1>1, <2>2, <2>4, <2>5, <2>6, <3>3, <4>2 DEF Inv, ChannelsKnown
      <4> QED
        BY <4>1, <4>2
    <3> QED
      BY <2>9, <3>2, <3>3 DEF ChannelsKnown
  <2>15. ChannelsSeen'
    BY <1>1, <2>5, <2>7, <2>8, <2>9 DEF Inv, ChannelsSeen, Noted
  <2> QED
    BY <1>1, <2>9, <2>10, <2>12, <2>13, <2>14, <2>15 DEF Inv, Accepted, source
<1> QED
  BY <1>2, <1>3, <1>4, ChannelAdded

\* The rules lose the channel that goes.
LEMMA DeleteChannelStep ==
  ASSUME Inv, NEW c \in channels, DeleteChannel(c)
  PROVE  Inv'
<1>1. /\ channels' = channels \ {c}
      /\ rules' = {[r EXCEPT !.channels = @ \ {c.id}] : r \in rules}
      /\ Disturb /\ UNCHANGED <<assets, keys, notes>>
  BY DEF DeleteChannel
<1>2. \A id \in ChannelIds : id # c.id => id \in ChannelIds'
  BY <1>1 DEF ChannelIds
<1>3. ASSUME NEW r \in rules
      PROVE  LET s == [r EXCEPT !.channels = @ \ {c.id}] IN
             /\ s \in Rule /\ s.asset = r.asset
             /\ s.channels = r.channels \ {c.id}
  BY DEF Inv, TypeOK, Rule
<1>4. ASSUME NEW s \in rules'
      PROVE  s \in Rule /\ s.asset \in AssetIds \union {Global} /\ s.channels \subseteq ChannelIds'
  <2>1. PICK r \in rules : s = [r EXCEPT !.channels = @ \ {c.id}]
    BY <1>1, <1>4
  <2>2. r.asset \in AssetIds \union {Global} /\ r.channels \subseteq ChannelIds
    BY DEF Inv, TypeOK
  <2> QED
    BY <1>2, <1>3, <2>1, <2>2
<1>5. TypeOK'
  BY <1>1, <1>4, DisturbType DEF Inv, TypeOK, AssetIds, notes
<1> QED
  BY <1>1, <1>5, DisturbGoesOn, NotesStayTrue DEF Inv

\* With the other tables as they are, what is left to see are the rules.
LEMMA RulesChange ==
  ASSUME Inv, GoesOn, UNCHANGED <<assets, keys, channels, notes>>,
         import.pc \notin {"idle", "rules"} => import'.next = import.next,
         \A r \in rules' \ rules :
            /\ r \in Rule /\ r.asset \in AssetIds \union {Global}
            /\ r.channels \subseteq ChannelIds
  PROVE  Inv'
<1>1. TypeOK'
  BY DEF Inv, TypeOK, ChannelIds, AssetIds, GoesOn, notes
<1> QED
  BY <1>1, NotesStayTrue DEF Inv

LEMMA DeleteRuleStep ==
  ASSUME Inv, NEW r \in rules, DeleteRule(r)
  PROVE  Inv'
BY DisturbGoesOn, RulesChange DEF DeleteRule

\* What an import adds to the rules: a row with all the channels it knows for the
\* labels of the rule, if the foreign keys let it pass.
LEMMA RuleAdded ==
  ASSUME Inv, ImportRule, NEW r \in rules' \ rules
  PROVE  /\ r \in Rule /\ r.asset \in AssetIds \union {Global}
         /\ r.channels \subseteq ChannelIds
         /\ r.item = import.next
         /\ LabelsOf(channels, r.channels)
               = Bundle.rules[r.item].channels \intersect DOMAIN import.chanIds
<1> DEFINE item == Bundle.rules[import.next]
           wanted == item.channels \intersect DOMAIN import.chanIds
           named == {import.chanIds[l] : l \in wanted}
           asset == IF item.asset = Global THEN Global ELSE import.assetIds[item.asset]
<1>1. import.pc = "rules" /\ import.next \in Indices(Bundle.rules)
  BY DEF ImportRule, At
<1>2. PICK id \in Fresh({s.id : s \in rules}) :
         CreateRule([id |-> id, item |-> import.next, asset |-> asset, channels |-> named])
  BY DEF ImportRule
<1>3. id \in Ids
  BY FreshType
<1> HIDE DEF named, asset
<1>4. /\ r = [id |-> id, item |-> import.next, asset |-> asset, channels |-> named]
      /\ asset \in AssetIds \union {Global} /\ named \subseteq ChannelIds
  BY <1>2 DEF CreateRule
<1>5. AssetIds \subseteq Ids /\ ChannelIds \subseteq Ids
  BY DEF Inv, TypeOK, AssetIds, ChannelIds, Sealed
<1>6. r \in Rule
  BY <1>1, <1>3, <1>4, <1>5 DEF Rule
<1>8. \A l \in DOMAIN import.chanIds : \A c \in channels :
         c.id = import.chanIds[l] => c.label = l
  BY <1>1 DEF Inv, ChannelsKnown
<1>10. ASSUME NEW l \in LabelsOf(channels, named)
       PROVE  l \in wanted
  BY <1>8 DEF LabelsOf, LabelsIn, named
<1>11. ASSUME NEW l \in wanted
       PROVE  l \in LabelsOf(channels, named)
  <2>1. import.chanIds[l] \in ChannelIds /\ import.chanIds[l] \in named
    BY <1>4 DEF named
  <2>2. PICK c \in channels : c.id = import.chanIds[l]
    BY <2>1 DEF ChannelIds
  <2>3. c.label = l /\ c.id \in named
    BY <1>8, <2>1, <2>2
  <2> QED
    BY <2>3 DEF LabelsOf, LabelsIn
<1>12. LabelsOf(channels, named) = wanted
  BY <1>10, <1>11
<1> QED
  BY <1>4, <1>6, <1>12

LEMMA ImportRuleStep ==
  ASSUME Inv, ImportRule
  PROVE  Inv'
<1>1. Skip /\ UNCHANGED <<assets, keys, channels, notes>> /\ import.pc = "rules"
  BY DEF ImportRule, At
<1>2. \A r \in rules' \ rules :
         /\ r \in Rule /\ r.asset \in AssetIds \union {Global}
         /\ r.channels \subseteq ChannelIds
  BY RuleAdded
<1> QED
  BY <1>1, <1>2, SkipGoesOn, RulesChange

----------------------------------------------------------------------------
(* Theorems *)

LEMMA InitInv == Init => Inv
<1> SUFFICES ASSUME Init PROVE Inv
  OBVIOUS
<1>1. PICK names \in SUBSET Assets : \E ids \in [names -> Ids] :
         assets = [a \in names |-> [id |-> ids[a], same |-> FALSE]]
  BY DEF Init
<1>2. PICK ids \in [names -> Ids] : assets = [a \in names |-> [id |-> ids[a], same |-> FALSE]]
  BY <1>1
<1>3. DOMAIN assets \subseteq Assets /\ assets \in [DOMAIN assets -> [id : Ids, same : BOOLEAN]]
  BY <1>2
<1>4. import = Idle /\ imports = 0 /\ faults = 0 /\ blind = FALSE
  BY DEF Init
<1>5. import.pc = "idle" /\ import \in Import /\ DOMAIN import.chanIds = {}
  BY <1>4, IdleType, IdleFields
<1>6. imports \in 0..MaxImports /\ faults \in 0..MaxFaults /\ blind \in BOOLEAN
  <2>1. 0 \in 0..MaxImports /\ 0 \in 0..MaxFaults
    BY BackupConstants
  <2>2. blind \in BOOLEAN
    BY <1>4
  <2> QED
    BY <1>4, <2>1, <2>2
<1> QED
  BY <1>3, <1>5, <1>6
  DEF Init, Inv, TypeOK, LabelsStayUnique, LabelsKnown, ChannelsKnown, ChannelsSeen, Accepted

LEMMA NextInv == Inv /\ [Next]_vars => Inv'
<1> SUFFICES ASSUME Inv, [Next]_vars PROVE Inv'
  OBVIOUS
<1>1. ASSUME NEW mode \in Modes, NEW origin \in {"ours", "theirs"}, NEW named \in BOOLEAN,
             Request(mode, origin, named)
      PROVE  Inv'
  BY <1>1, RequestStep
<1>2. CASE ListAssets \/ ListKeys \/ ListChannels
  BY <1>2, ListAssetsStep, ListKeysStep, ListChannelsStep
<1>3. CASE ImportAsset \/ ImportKey \/ ImportChannel \/ ImportRule
  BY <1>3, ImportAssetStep, ImportKeyStep, ImportChannelStep, ImportRuleStep
<1>4. CASE \/ PhaseEnds("assets", Bundle.assets, "listKeys")
           \/ PhaseEnds("keys", Bundle.keys, "listChannels")
  BY <1>4, PhaseEndsStep
<1>5. CASE \/ PhaseEnds("channels", Bundle.channels, "rules")
           \/ PhaseEnds("rules", Bundle.rules, "idle")
  BY <1>5, PhaseEndsStep
<1>6. CASE Interrupt
  BY <1>6, BackToIdle DEF Interrupt
<1>7. CASE (\E a \in DOMAIN assets : DeleteAsset(a)) \/ (\E a \in Assets : AddAsset(a))
  BY <1>7, DeleteAssetStep, AddAssetStep
<1>8. CASE \/ \E k \in keys : DeleteKey(k)
           \/ \E c \in channels : DeleteChannel(c)
           \/ \E r \in rules : DeleteRule(r)
  BY <1>8, DeleteKeyStep, DeleteChannelStep, DeleteRuleStep
<1>9. CASE \/ ListFails("listAssets", "assets") \/ ListFails("listKeys", "keys")
           \/ ListFails("listChannels", "channels")
  BY <1>9, ListFailsStep
<1>10. CASE ItemFails
  BY <1>10, ItemFailsStep
<1>11. CASE UNCHANGED vars
  BY <1>11
  DEF vars, Inv, TypeOK, LabelsStayUnique, LabelsKnown, ChannelsKnown, ChannelsSeen, Noted,
      Accepted, AssetIds, ChannelIds
<1> QED
  BY <1>1, <1>2, <1>3, <1>4, <1>5, <1>6, <1>7, <1>8, <1>9, <1>10, <1>11 DEF Next

\* The invariant of the import: what it has noted of the labels and ids in use
\* is true as long as it relies on it, whatever is deleted or fails meanwhile.
THEOREM Invariant == Spec => []Inv
<1> QED
  BY InitInv, NextInv, PTL DEF Spec

\* The tables stay well-formed: no rule refers to a row that is not there.
THEOREM TypeCorrect == Spec => []TypeOK
<1>1. Inv => TypeOK
  BY DEF Inv
<1> QED
  BY <1>1, Invariant, PTL

\* As long as imports can list the labels in use, none gives a label to a second
\* key or channel, whichever of their inserts fail.
THEOREM LabelsUnique == Spec => []LabelsStayUnique
<1>1. Inv => LabelsStayUnique
  BY DEF Inv
<1> QED
  BY <1>1, Invariant, PTL

\* Only imports add keys and channels: each the row of an item of the document.
LEMMA RowsAdded ==
  ASSUME Inv, Next, NEW row \in (keys' \ keys) \union (channels' \ channels)
  PROVE  /\ import.pc # "idle"
         /\ \E id \in Ids, item \in KeyItem \union ChannelItem : row = Row(id, item)
<1>1. CASE ImportKey
  <2>1. /\ import.pc = "keys" /\ Bundle.keys[import.next] \in KeyItem /\ UNCHANGED channels
    BY <1>1, BundleType DEF ImportKey, At
  <2> QED
    BY <1>1, <2>1, KeyAdded
<1>2. CASE ImportChannel
  <2>1. /\ import.pc = "channels" /\ Bundle.channels[import.next] \in ChannelItem
        /\ UNCHANGED keys
    BY <1>2, BundleType DEF ImportChannel, At
  <2> QED
    BY <1>2, <2>1, ChannelAdded
<1>3. CASE keys' \subseteq keys /\ channels' \subseteq channels
  BY <1>3
<1> QED
  BY <1>1, <1>2, <1>3
  DEF Next, Request, ListAssets, ImportAsset, PhaseEnds, ListKeys, ListChannels, ImportRule,
      ListFails, ItemFails, Interrupt, DeleteAsset, AddAsset, DeleteKey, DeleteChannel,
      DeleteRule, tables

\* What an import enables has a secret, and one that this instance can open unless
\* an instance_key document brought it that has no fingerprint or a broken secret.
THEOREM EnabledUsable == Spec => EnabledIsUsable
<1> DEFINE Usable ==
      \A row \in (keys' \ keys) \union (channels' \ channels) :
         row.enabled =>
            \/ row.secret = "ours"
            \/ /\ import.mode = "instance_key" /\ row.secret # "none"
               /\ row.secret = "broken" \/ ~import.named
<1>1. Inv /\ [Next]_vars => [Usable]_vars
  <2> SUFFICES ASSUME Inv, Next PROVE Usable
    BY DEF vars
  <2>1. Accepts(import.mode, import.origin, import.named) \/ import.pc = "idle"
    BY DEF Inv, Accepted
  <2> QED
    BY <2>1, RowsAdded, RowType DEF Inv
<1> QED
  BY <1>1, Invariant, PTL DEF Spec, EnabledIsUsable

\* A rule is stored with all the channels the import knows for its labels or not
\* at all, and without a failed statement these include the document's.
THEOREM RulesKept == Spec => RulesKeepTheirChannels
<1> DEFINE Kept ==
      import.pc = "rules" =>
         \A r \in rules' \ rules :
            \/ import'.next = import.next
            \/ LET wanted == Bundle.rules[r.item].channels
                   got == LabelsOf(channels, r.channels) IN
               /\ got = wanted \intersect DOMAIN import.chanIds
               /\ import.whole => wanted \intersect LabelsIn(Supported) \subseteq got
<1>1. Inv /\ [Next]_vars => [Kept]_vars
  <2> SUFFICES ASSUME Inv, Next PROVE Kept
    BY DEF vars
  <2>1. CASE ImportRule
    <3>1. ASSUME import.whole, import.pc = "rules"
          PROVE  LabelsIn(Supported) \subseteq DOMAIN import.chanIds
      <4>1. \A j \in Indices(Bundle.channels) : Noted(j)
        BY <3>1 DEF Inv, ChannelsSeen
      <4> QED
        BY <4>1 DEF Noted, LabelsIn, Supported, Items
    <3> QED
      BY <2>1, <3>1, RuleAdded
  <2>2. CASE UNCHANGED rules
    BY <2>2
  <2>3. CASE import.pc # "rules"
    BY <2>3
  <2>4. CASE Disturb /\ import.pc = "rules"
    BY <2>4, DisturbType
  <2> QED
    BY <2>1, <2>2, <2>3, <2>4
    DEF Next, Request, tables, ListAssets, ImportAsset, PhaseEnds, ListKeys, ImportKey,
        ListChannels, ImportChannel, ListFails, ItemFails, Interrupt, DeleteAsset, AddAsset,
        DeleteKey, DeleteChannel, DeleteRule
<1> QED
  BY <1>1, Invariant, PTL DEF Spec, RulesKeepTheirChannels

----------------------------------------------------------------------------
(* An undisturbed import leaves the document in its place *)

AssetThere(i) == Bundle.assets[i] \in DOMAIN assets /\ assets[Bundle.assets[i]].same

\* What the import has noted is what the tables hold.
NotedIsStored ==
    /\ import.pc \notin {"idle", "listAssets"} =>
          /\ DOMAIN import.assetIds = DOMAIN assets
          /\ \A a \in DOMAIN assets : assets[a].id = import.assetIds[a]
    /\ import.pc \in {"channels", "rules"} =>
          /\ DOMAIN import.chanIds = LabelsIn(channels)
          /\ \A l \in DOMAIN import.chanIds : import.chanIds[l] \in ChannelIds

\* A label it has noted was in use, or an earlier item of the document has it.
KeyLabelsUsed ==
    /\ import.pc \in {"listAssets", "assets", "listKeys"} =>
          LabelsIn(keys) \ {Blank} \subseteq import.usedKeys
    /\ import.pc = "keys" =>
          \A l \in import.keyLabels :
             \/ l \in import.usedKeys
             \/ l # Blank /\ \E j \in 1..(import.next - 1) : Bundle.keys[j].label = l

ChannelLabelsUsed ==
    /\ import.pc \in {"listAssets", "assets", "listKeys", "keys", "listChannels"} =>
          LabelsIn(channels) \ {Blank} \subseteq import.usedChannels
    /\ import.pc = "channels" =>
          \A l \in DOMAIN import.chanIds \ {Blank} :
             \/ l \in import.usedChannels
             \/ \E j \in 1..(import.next - 1) : Bundle.channels[j].label = l

AssetsDone ==
    /\ import.pc = "assets" =>
          \A i \in Indices(Bundle.assets) : i < import.next => AssetThere(i)
    /\ import.pc \in {"listKeys", "keys", "listChannels", "channels", "rules"} =>
          \A i \in Indices(Bundle.assets) : AssetThere(i)

KeysDone ==
    /\ import.pc = "keys" =>
          \A i \in Indices(Bundle.keys) : i < import.next => KeyStands(i)
    /\ import.pc \in {"listChannels", "channels", "rules"} =>
          \A i \in Indices(Bundle.keys) : KeyStands(i)

ChannelsDone ==
    /\ import.pc = "channels" =>
          \A i \in Indices(Bundle.channels) : i < import.next => ChannelStands(i)
    /\ import.pc = "rules" =>
          \A i \in Indices(Bundle.channels) : ChannelStands(i)

RulesDone ==
    import.pc = "rules" =>
       \A i \in Indices(Bundle.rules) : i < import.next => RuleStands(i)

Claims == /\ NotedIsStored /\ KeyLabelsUsed /\ ChannelLabelsUsed
          /\ AssetsDone /\ KeysDone /\ ChannelsDone /\ RulesDone

\* How far the document has been restored while nobody else touches the tables
\* and no statement fails.
Progress == import.calm /\ import.whole => Claims

LEMMA Lengths ==
  /\ Len(Bundle.assets) \in Nat /\ Len(Bundle.keys) \in Nat
  /\ Len(Bundle.channels) \in Nat /\ Len(Bundle.rules) \in Nat
BY BackupConstants

LEMMA ImportType == Inv => import \in Import
BY DEF Inv, TypeOK

\* After the import, after a failure and after someone else's step nothing is claimed.
LEMMA NothingClaimed ==
  ASSUME import'.pc = "idle" \/ ~import'.calm \/ ~import'.whole
  PROVE  Progress'
BY DEF Progress, Claims, NotedIsStored, KeyLabelsUsed, ChannelLabelsUsed, AssetsDone,
       KeysDone, ChannelsDone, RulesDone

LEMMA DisturbClaims ==
  ASSUME Inv, Disturb
  PROVE  Progress'
<1>1. CASE import.pc = "idle"
  BY <1>1, NothingClaimed, IdleFields DEF Disturb
<1>2. CASE import.pc # "idle"
  <2>1. /\ import' = [import EXCEPT !.calm = FALSE, !.again = FALSE,
                                    !.usedKeys = {}, !.usedChannels = {}]
        /\ import \in Import
    BY <1>2, ImportType DEF Disturb
  <2>2. ~import'.calm
    BY <2>1 DEF Import
  <2> QED
    BY <2>2, NothingClaimed
<1> QED
  BY <1>1, <1>2

\* A step of the import that takes nothing away.
Steady ==
    /\ UNCHANGED source
    /\ import'.usedKeys = import.usedKeys /\ import'.usedChannels = import.usedChannels
    /\ import'.calm = import.calm /\ import'.whole = import.whole
    /\ keys \subseteq keys' /\ channels \subseteq channels'

LEMMA StandsKept ==
  ASSUME Steady
  PROVE  \A i : /\ KeyStands(i) => KeyStands(i)'
                /\ ChannelStands(i) => ChannelStands(i)'
<1>1. \A id, item : Row(id, item)' = Row(id, item)
  BY DEF Steady, source, Row, Localized
<1> QED
  BY <1>1 DEF KeyStands, ChannelStands, Steady

LEMMA RequestProgress ==
  ASSUME NEW mode, NEW origin, NEW named, Request(mode, origin, named)
  PROVE  Progress'
<1> DEFINE usedKeys == LabelsIn(keys) \ {Blank}
           usedChannels == LabelsIn(channels) \ {Blank}
<1>1. /\ import'.pc = "listAssets" /\ UNCHANGED <<keys, channels>>
      /\ import'.usedKeys = usedKeys /\ import'.usedChannels = usedChannels
  BY DEF Request, Idle, tables
<1> QED
  BY <1>1
  DEF Progress, Claims, NotedIsStored, KeyLabelsUsed, ChannelLabelsUsed, AssetsDone,
      KeysDone, ChannelsDone, RulesDone

LEMMA ListsProgress ==
  ASSUME Inv, Progress, ListAssets \/ ListKeys \/ ListChannels
  PROVE  Progress'
<1> USE ImportType
<1>1. CASE ListAssets
  <2> DEFINE ids == [a \in DOMAIN assets |-> assets[a].id]
  <2>1. /\ import' = [import EXCEPT !.pc = "assets", !.assetIds = ids]
        /\ UNCHANGED tables /\ import.next = 1 /\ import.pc = "listAssets"
    BY <1>1 DEF ListAssets, Inv, ChannelsSeen
  <2>2. DOMAIN ids = DOMAIN assets /\ \A a \in DOMAIN assets : assets[a].id = ids[a]
    OBVIOUS
  <2> HIDE DEF ids
  <2>3. import'.pc = "assets" /\ import'.assetIds = ids /\ import'.next = 1 /\ Steady
    BY <2>1 DEF Import, Steady, source, tables
  <2> QED
    BY <2>1, <2>2, <2>3
    DEF Progress, Claims, NotedIsStored, KeyLabelsUsed, ChannelLabelsUsed, AssetsDone,
        KeysDone, ChannelsDone, RulesDone, Indices, Steady, tables
<1>2. CASE ListKeys
  <2> DEFINE labels == {k.label : k \in keys} \ {Blank}
  <2>1. /\ import' = [import EXCEPT !.pc = "keys", !.keyLabels = labels]
        /\ UNCHANGED tables /\ import.next = 1 /\ import.pc = "listKeys"
    BY <1>2 DEF ListKeys, Inv, ChannelsSeen
  <2>2. labels = LabelsIn(keys) \ {Blank}
    BY DEF LabelsIn
  <2> HIDE DEF labels
  <2>3. /\ import'.pc = "keys" /\ import'.keyLabels = labels /\ import'.next = 1
        /\ import'.assetIds = import.assetIds /\ Steady
    BY <2>1 DEF Import, Steady, source, tables
  <2> QED
    BY <2>1, <2>2, <2>3
    DEF Progress, Claims, NotedIsStored, KeyLabelsUsed, ChannelLabelsUsed, AssetsDone,
        KeysDone, ChannelsDone, RulesDone, Indices, AssetThere, Steady, tables
<1>3. CASE ListChannels
  <2>1. PICK labels \in SUBSET {c.label : c \in channels} : \E ids \in [labels -> ChannelIds] :
           Known(ids) /\ import' = [import EXCEPT !.pc = "channels", !.chanIds = ids]
    BY <1>3 DEF ListChannels
  <2>2. PICK ids \in [labels -> ChannelIds] :
           Known(ids) /\ import' = [import EXCEPT !.pc = "channels", !.chanIds = ids]
    BY <2>1
  <2>3. UNCHANGED tables /\ import.pc = "listChannels" /\ import.next = 1
    BY <1>3 DEF ListChannels, Inv, ChannelsSeen
  <2>4. /\ import'.pc = "channels" /\ import'.chanIds = ids /\ import'.next = 1
        /\ import'.assetIds = import.assetIds /\ Steady
    BY <2>2, <2>3 DEF Import, Steady, source, tables
  <2>5. DOMAIN ids = LabelsIn(channels) /\ \A l \in DOMAIN ids : ids[l] \in ChannelIds
    BY <2>2 DEF Known, LabelsIn
  <2>6. ASSUME import.calm /\ import.whole
        PROVE  Claims'
    <3>1. NotedIsStored'
      BY <2>3, <2>4, <2>5, <2>6 DEF Progress, Claims, NotedIsStored, ChannelIds, tables
    <3>2. KeyLabelsUsed' /\ ChannelLabelsUsed'
      BY <2>3, <2>4, <2>5, <2>6
      DEF Progress, Claims, KeyLabelsUsed, ChannelLabelsUsed, Steady, tables
    <3>3. AssetsDone' /\ KeysDone'
      BY <2>3, <2>4, <2>6, StandsKept
      DEF Progress, Claims, AssetsDone, KeysDone, AssetThere, tables
    <3>4. ChannelsDone' /\ RulesDone'
      BY <2>4 DEF ChannelsDone, RulesDone, Indices
    <3> QED
      BY <3>1, <3>2, <3>3, <3>4 DEF Claims
  <2> QED
    BY <2>4, <2>6 DEF Progress, Steady
<1> QED
  BY <1>1, <1>2, <1>3

\* Behind the last item of a list every item is.
LEMMA AllBehind ==
  ASSUME NEW list, Len(list) \in Nat, NEW n \in Nat, n > Len(list)
  PROVE  \A i \in Indices(list) : i < n
BY DEF Indices

LEMMA EndFields ==
  ASSUME Inv, NEW pc, NEW list, NEW then, PhaseEnds(pc, list, then), then # "idle"
  PROVE  /\ UNCHANGED tables /\ Steady
         /\ import.pc = pc /\ import'.pc = then
         /\ import.next \in Nat /\ import.next > Len(list) /\ import'.next = 1
         /\ import'.assetIds = import.assetIds /\ import'.chanIds = import.chanIds
<1>1. import' = [import EXCEPT !.pc = then, !.next = 1] /\ import \in Import
  BY ImportType DEF PhaseEnds
<1>2. UNCHANGED tables /\ import.pc = pc /\ import.next > Len(list)
  BY DEF PhaseEnds
<1> QED
  BY <1>1, <1>2 DEF Import, Steady, source, tables

LEMMA EndsProgress ==
  ASSUME Inv, Progress,
         \/ PhaseEnds("assets", Bundle.assets, "listKeys")
         \/ PhaseEnds("keys", Bundle.keys, "listChannels")
         \/ PhaseEnds("channels", Bundle.channels, "rules")
  PROVE  Progress'
<1>1. CASE PhaseEnds("assets", Bundle.assets, "listKeys")
  <2>1. /\ UNCHANGED tables /\ Steady
        /\ import.pc = "assets" /\ import'.pc = "listKeys"
        /\ import'.assetIds = import.assetIds
        /\ import.next \in Nat /\ import.next > Len(Bundle.assets)
    BY <1>1, EndFields
  <2>2. \A i \in Indices(Bundle.assets) : i < import.next
    BY <2>1, AllBehind, Lengths
  <2> QED
    BY <2>1, <2>2
    DEF Progress, Claims, NotedIsStored, KeyLabelsUsed, ChannelLabelsUsed, AssetsDone,
        KeysDone, ChannelsDone, RulesDone, AssetThere, Steady, tables
<1>2. CASE PhaseEnds("keys", Bundle.keys, "listChannels")
  <2>1. /\ UNCHANGED tables /\ Steady
        /\ import.pc = "keys" /\ import'.pc = "listChannels"
        /\ import'.assetIds = import.assetIds
        /\ import.next \in Nat /\ import.next > Len(Bundle.keys)
    BY <1>2, EndFields
  <2>2. \A i \in Indices(Bundle.keys) : i < import.next
    BY <2>1, AllBehind, Lengths
  <2> QED
    BY <2>1, <2>2, StandsKept
    DEF Progress, Claims, NotedIsStored, KeyLabelsUsed, ChannelLabelsUsed, AssetsDone,
        KeysDone, ChannelsDone, RulesDone, AssetThere, Steady, tables
<1>3. CASE PhaseEnds("channels", Bundle.channels, "rules")
  <2>1. /\ UNCHANGED tables /\ Steady
        /\ import.pc = "channels" /\ import'.pc = "rules" /\ import'.next = 1
        /\ import'.assetIds = import.assetIds /\ import'.chanIds = import.chanIds
        /\ import.next \in Nat /\ import.next > Len(Bundle.channels)
    BY <1>3, EndFields
  <2>2. \A i \in Indices(Bundle.rules) : ~(i < 1)
    BY Lengths DEF Indices
  <2>3. \A i \in Indices(Bundle.channels) : i < import.next
    BY <2>1, AllBehind, Lengths
  <2> QED
    BY <2>1, <2>2, <2>3, StandsKept
    DEF Progress, Claims, NotedIsStored, KeyLabelsUsed, ChannelLabelsUsed, AssetsDone,
        KeysDone, ChannelsDone, RulesDone, AssetThere, ChannelIds, Steady, tables
<1> QED
  BY <1>1, <1>2, <1>3

\* The items behind the next position: those behind this one, and this one.
LEMMA OneMore ==
  ASSUME Inv, NEW list, Len(list) \in Nat
  PROVE  \A i \in Indices(list) : i < import.next + 1 => i < import.next \/ i = import.next
BY ImportType DEF Indices, Import

LEMMA ImportAssetProgress ==
  ASSUME Inv, Progress, ImportAsset
  PROVE  Progress'
<1> DEFINE a == Bundle.assets[import.next]
           n == import.next + 1
<1>1. /\ import.pc = "assets" /\ import \in Import /\ n \in Nat
      /\ UNCHANGED <<keys, channels, rules>>
      /\ \A i \in Indices(Bundle.assets) : i < n => i < import.next \/ i = import.next
  BY ImportType, OneMore, Lengths DEF ImportAsset, At, Import
<1>2. Steady /\ import'.pc = "assets" /\ import'.next = n
  <2>1. CASE Skip
    BY <1>1, <2>1 DEF Skip, Import, Steady, source
  <2>2. ASSUME NEW id, NoteAsset(a, id)
        PROVE  Steady /\ import'.pc = "assets" /\ import'.next = n
    BY <1>1, <2>2 DEF NoteAsset, Import, Steady, source
  <2> QED
    BY <2>1, <2>2 DEF ImportAsset, UpdateAsset, CreateAsset
<1>3. CASE ~(import.calm /\ import.whole)
  BY <1>2, <1>3, NothingClaimed DEF Steady
<1>4. CASE import.calm /\ import.whole
  <2>1. /\ DOMAIN import.assetIds = DOMAIN assets
        /\ \A b \in DOMAIN assets : assets[b].id = import.assetIds[b]
        /\ \A i \in Indices(Bundle.assets) : i < import.next => AssetThere(i)
        /\ KeyLabelsUsed /\ ChannelLabelsUsed
    BY <1>1, <1>4 DEF Progress, Claims, NotedIsStored, AssetsDone
  <2>2. ASSUME \A i \in Indices(Bundle.assets) : i < import.next => AssetThere(i)',
               a \in DOMAIN assets' /\ assets'[a].same,
               DOMAIN import'.assetIds = DOMAIN assets',
               \A b \in DOMAIN assets' : assets'[b].id = import'.assetIds[b]
        PROVE  Progress'
    <3>1. KeyLabelsUsed' /\ ChannelLabelsUsed'
      BY <1>1, <1>2, <2>1 DEF KeyLabelsUsed, ChannelLabelsUsed, Steady
    <3> QED
      BY <1>1, <1>2, <2>2, <3>1
      DEF Progress, Claims, NotedIsStored, AssetsDone, KeysDone, ChannelsDone, RulesDone,
          AssetThere
  <2>3. CASE UpdateAsset(a)
    <3>1. /\ assets' = [b \in DOMAIN assets |->
                         IF assets[b].id = import.assetIds[a] THEN [assets[b] EXCEPT !.same = TRUE]
                         ELSE assets[b]]
          /\ a \in DOMAIN assets
      BY <2>1, <2>3 DEF UpdateAsset
    <3>2. import'.assetIds = import.assetIds
      BY <1>1, <2>3 DEF UpdateAsset, Skip, Import
    <3>3. \A b \in DOMAIN assets : assets[b] \in [id : Ids, same : BOOLEAN]
      BY DEF Inv, TypeOK
    <3>4. \A b \in DOMAIN assets :
             /\ assets'[b].id = assets[b].id
             /\ assets[b].same => assets'[b].same
             /\ b = a => assets'[b].same
      BY <2>1, <3>1, <3>3
    <3>5. DOMAIN assets' = DOMAIN assets
      BY <3>1
    <3> HIDE DEF a, n
    <3>6. \A i \in Indices(Bundle.assets) : i < import.next => AssetThere(i)'
      BY <2>1, <3>4, <3>5 DEF AssetThere
    <3> QED
      BY <2>1, <2>2, <3>1, <3>2, <3>4, <3>5, <3>6
  <2>4. CASE CreateAsset(a)
    <3>1. a \notin DOMAIN assets
      BY <2>1, <2>4 DEF CreateAsset
    <3>2. PICK id \in Fresh(AssetIds \union Values(import.assetIds)) :
             assets' = With(assets, a, [id |-> id, same |-> TRUE]) /\ NoteAsset(a, id)
      BY <2>4, <3>1 DEF CreateAsset
    <3> DEFINE noted == With(import.assetIds, a, id)
               row == [id |-> id, same |-> TRUE]
    <3>3. import' = [import EXCEPT !.next = n, !.assetIds = noted]
      BY <1>1, <3>2 DEF NoteAsset, Import
    <3>4. /\ DOMAIN noted = DOMAIN assets \union {a}
          /\ noted[a] = id
          /\ \A b \in DOMAIN assets : noted[b] = import.assetIds[b]
      BY <2>1, <3>1 DEF With
    <3>5. row.id = id /\ row.same /\ assets' = With(assets, a, row)
      BY <3>2
    <3> HIDE DEF a, n, noted, row
    <3>6. /\ DOMAIN assets' = DOMAIN assets \union {a}
          /\ assets'[a] = row
          /\ \A b \in DOMAIN assets : assets'[b] = assets[b]
      BY <3>1, <3>5 DEF With
    <3>7. import'.assetIds = noted
      BY <1>1, <3>3 DEF Import
    <3>8. \A i \in Indices(Bundle.assets) : i < import.next => AssetThere(i)'
      BY <2>1, <3>6 DEF AssetThere
    <3> QED
      BY <2>1, <2>2, <3>4, <3>5, <3>6, <3>7, <3>8
  <2> QED
    BY <2>3, <2>4 DEF ImportAsset
<1> QED
  BY <1>3, <1>4

LEMMA ImportKeyProgress ==
  ASSUME Inv, Progress, ImportKey
  PROVE  Progress'
<1> DEFINE item == Bundle.keys[import.next]
           n == import.next + 1
<1>1. /\ import.pc = "keys" /\ import \in Import /\ n \in Nat /\ import.next \in Nat
      /\ import.next \in Indices(Bundle.keys)
      /\ UNCHANGED <<assets, channels, rules>>
      /\ \A i \in Indices(Bundle.keys) : i < n => i < import.next \/ i = import.next
  BY ImportType, OneMore, Lengths DEF ImportKey, At, Import
<1>2. CASE import' = Idle
  BY <1>2, NothingClaimed, IdleFields
<1>3. ASSUME Steady, import'.pc = "keys", import'.next = n,
             import'.assetIds = import.assetIds,
             import.calm /\ import.whole => \A i : i = import.next => KeyStands(i)',
             import'.keyLabels \subseteq import.keyLabels \union ({item.label} \ {Blank})
      PROVE  Progress'
  <2> SUFFICES ASSUME import.calm /\ import.whole PROVE Claims'
    BY <1>3 DEF Progress, Steady
  <2>1. NotedIsStored' /\ AssetsDone' /\ ChannelsDone' /\ RulesDone'
    BY <1>1, <1>3
    DEF Progress, Claims, NotedIsStored, AssetsDone, ChannelsDone, RulesDone, AssetThere
  <2>2. KeyLabelsUsed'
    <3>1. ASSUME NEW l \in import'.keyLabels
          PROVE  \/ l \in import.usedKeys
                 \/ l # Blank /\ \E j \in 1..(n - 1) : Bundle.keys[j].label = l
      <4>1. CASE l \in import.keyLabels
        <5>1. 1..(import.next - 1) \subseteq 1..(n - 1)
          BY <1>1
        <5> HIDE DEF n
        <5> QED
          BY <1>1, <4>1, <5>1 DEF Progress, Claims, KeyLabelsUsed
      <4>2. CASE l = item.label /\ l # Blank
        <5>1. import.next \in 1..(n - 1)
          BY <1>1 DEF Indices
        <5> QED
          BY <4>2, <5>1
      <4> QED
        BY <1>3, <3>1, <4>1, <4>2
    <3> HIDE DEF n, item
    <3> QED
      BY <1>3, <3>1 DEF KeyLabelsUsed, Steady
  <2>3. ChannelLabelsUsed'
    BY <1>1, <1>3 DEF Progress, Claims, ChannelLabelsUsed, Steady
  <2>4. KeysDone'
    BY <1>1, <1>3, StandsKept DEF Progress, Claims, KeysDone
  <2> QED
    BY <2>1, <2>2, <2>3, <2>4 DEF Claims
<1>4. CASE UNCHANGED keys /\ Skip /\ item.label \in import.keyLabels
  <2>1. /\ Steady /\ import'.pc = "keys" /\ import'.next = n
        /\ import'.assetIds = import.assetIds /\ import'.keyLabels = import.keyLabels
    BY <1>1, <1>4 DEF Skip, Import, Steady, source
  <2>2. ASSUME import.calm /\ import.whole
        PROVE  \A i : i = import.next => KeyStands(i)
    BY <1>1, <1>4, <2>2 DEF Progress, Claims, KeyLabelsUsed, KeyStands
  <2>3. \A i : KeyStands(i) => KeyStands(i)'
    BY <2>1, StandsKept
  <2> QED
    BY <1>3, <2>1, <2>2, <2>3
<1>5. ASSUME NEW id \in Ids, keys' = keys \union {Row(id, item)}, NoteKey(item)
      PROVE  Progress'
  <2> DEFINE labels == import.keyLabels \union ({item.label} \ {Blank})
  <2>1. import' = [import EXCEPT !.next = n, !.keyLabels = labels]
    BY <1>1, <1>5 DEF NoteKey, Import
  <2> HIDE DEF labels, n
  <2>2. /\ Steady /\ import'.pc = "keys" /\ import'.next = n
        /\ import'.assetIds = import.assetIds /\ import'.keyLabels = labels
    BY <1>1, <1>5, <2>1 DEF Import, Steady, source
  <2>3. \A i : i = import.next => KeyStands(i)'
    <3>1. \A x, y : Row(x, y)' = Row(x, y)
      BY <2>2 DEF Steady, source, Row, Localized
    <3>2. Row(id, item) \in keys'
      BY <1>5
    <3> QED
      BY <3>1, <3>2 DEF KeyStands
  <2> QED
    BY <1>3, <2>2, <2>3 DEF labels
<1> QED
  BY <1>2, <1>4, <1>5, KeyAdded

LEMMA ImportChannelProgress ==
  ASSUME Inv, Progress, ImportChannel
  PROVE  Progress'
<1> DEFINE item == Bundle.channels[import.next]
           n == import.next + 1
<1>1. /\ import.pc = "channels" /\ import \in Import /\ n \in Nat /\ import.next \in Nat
      /\ import.next \in Indices(Bundle.channels)
      /\ UNCHANGED <<assets, keys, rules>>
      /\ \A i \in Indices(Bundle.channels) : i < n => i < import.next \/ i = import.next
  <2>1. At("channels", Bundle.channels) /\ UNCHANGED <<assets, keys, rules>>
    BY DEF ImportChannel
  <2> QED
    BY <2>1, ImportType, OneMore, Lengths DEF At, Import
<1>2. CASE import' = Idle
  BY <1>2, NothingClaimed, IdleFields
<1>3. ASSUME Steady, import'.pc = "channels", import'.next = n,
             import'.assetIds = import.assetIds,
             import.calm /\ import.whole => \A i : i = import.next => ChannelStands(i)',
             DOMAIN import'.chanIds \subseteq DOMAIN import.chanIds \union {item.label},
             import.calm /\ import.whole =>
                /\ DOMAIN import'.chanIds = {c.label : c \in channels'}
                /\ \A l \in DOMAIN import'.chanIds :
                      import'.chanIds[l] \in {c.id : c \in channels'}
      PROVE  Progress'
  <2> SUFFICES ASSUME import.calm /\ import.whole PROVE Claims'
    BY <1>3 DEF Progress, Steady
  <2>1. NotedIsStored' /\ AssetsDone' /\ RulesDone'
    BY <1>1, <1>3
    DEF Progress, Claims, NotedIsStored, AssetsDone, RulesDone, AssetThere, LabelsIn, ChannelIds
  <2>2. ChannelLabelsUsed'
    <3>1. ASSUME NEW l \in DOMAIN import'.chanIds \ {Blank}
          PROVE  \/ l \in import.usedChannels
                 \/ \E j \in 1..(n - 1) : Bundle.channels[j].label = l
      <4>1. CASE l \in DOMAIN import.chanIds
        <5>1. 1..(import.next - 1) \subseteq 1..(n - 1)
          BY <1>1
        <5> HIDE DEF n
        <5> QED
          BY <1>1, <3>1, <4>1, <5>1 DEF Progress, Claims, ChannelLabelsUsed
      <4>2. CASE l = item.label
        <5>1. import.next \in 1..(n - 1)
          BY <1>1 DEF Indices
        <5> QED
          BY <4>2, <5>1
      <4> QED
        BY <1>3, <3>1, <4>1, <4>2
    <3> HIDE DEF n, item
    <3> QED
      BY <1>3, <3>1 DEF ChannelLabelsUsed, Steady
  <2>3. KeyLabelsUsed'
    BY <1>1, <1>3 DEF Progress, Claims, KeyLabelsUsed, Steady
  <2>4. KeysDone'
    BY <1>1, <1>3, StandsKept DEF Progress, Claims, KeysDone
  <2>5. ChannelsDone'
    BY <1>1, <1>3, StandsKept DEF Progress, Claims, ChannelsDone
  <2> QED
    BY <2>1, <2>2, <2>3, <2>4, <2>5 DEF Claims
<1>4. CASE UNCHANGED channels /\ Skip /\ (Taken(item) \/ ~item.supported)
  <2>1. /\ Steady /\ import'.pc = "channels" /\ import'.next = n
        /\ import'.assetIds = import.assetIds /\ import'.chanIds = import.chanIds
    BY <1>1, <1>4 DEF Skip, Import, Steady, source
  <2>2. ASSUME import.calm /\ import.whole
        PROVE  \A i : i = import.next => ChannelStands(i)
    BY <1>1, <1>4, <2>2 DEF Progress, Claims, ChannelLabelsUsed, ChannelStands, Taken
  <2>3. \A i : ChannelStands(i) => ChannelStands(i)'
    BY <2>1, StandsKept
  <2>4. import.calm /\ import.whole =>
           /\ DOMAIN import.chanIds = {c.label : c \in channels}
           /\ \A l \in DOMAIN import.chanIds : import.chanIds[l] \in {c.id : c \in channels}
    BY <1>1 DEF Progress, Claims, NotedIsStored, LabelsIn, ChannelIds
  <2> HIDE DEF n, item
  <2> QED
    BY <1>3, <1>4, <2>1, <2>2, <2>3, <2>4
<1>5. ASSUME NEW id \in Ids, channels' = channels \union {Row(id, item)},
             import' = [import EXCEPT !.next = @ + 1, !.chanIds = With(@, item.label, id)]
      PROVE  Progress'
  <2> DEFINE noted == With(import.chanIds, item.label, id)
             row == Row(id, item)
  <2>1. import' = [import EXCEPT !.next = n, !.chanIds = noted]
    BY <1>1, <1>5 DEF Import
  <2>2. row.id = id /\ row.label = item.label /\ channels' = channels \union {row}
    BY <1>5 DEF Row
  <2>3. /\ DOMAIN noted = DOMAIN import.chanIds \union {item.label}
        /\ \A l \in DOMAIN noted :
              \/ noted[l] = id
              \/ l \in DOMAIN import.chanIds /\ noted[l] = import.chanIds[l]
    BY DEF With
  <2> HIDE DEF noted, n
  <2>4. /\ Steady /\ import'.pc = "channels" /\ import'.next = n
        /\ import'.assetIds = import.assetIds /\ import'.chanIds = noted
    BY <1>1, <1>5, <2>1 DEF Import, Steady, source
  <2>5. \A i : i = import.next => ChannelStands(i)'
    <3>1. \A x, y : Row(x, y)' = Row(x, y)
      BY <2>4 DEF Steady, source, Row, Localized
    <3>2. Row(id, item) \in channels'
      BY <1>5
    <3> QED
      BY <3>1, <3>2 DEF ChannelStands
  <2> HIDE DEF row, item
  <2>6. ASSUME import.calm /\ import.whole
        PROVE  /\ DOMAIN noted = {c.label : c \in channels'}
               /\ \A l \in DOMAIN noted : noted[l] \in {c.id : c \in channels'}
    <3>1. /\ DOMAIN import.chanIds = {c.label : c \in channels}
          /\ \A l \in DOMAIN import.chanIds : import.chanIds[l] \in {c.id : c \in channels}
      BY <1>1, <2>6 DEF Progress, Claims, NotedIsStored, LabelsIn, ChannelIds
    <3>2. DOMAIN noted = {c.label : c \in channels'}
      BY <2>2, <2>3, <3>1
    <3>3. \A l \in DOMAIN noted : noted[l] \in {c.id : c \in channels'}
      BY <2>2, <2>3, <3>1
    <3> QED
      BY <3>2, <3>3
  <2> QED
    BY <1>3, <2>3, <2>4, <2>5, <2>6
<1> QED
  BY <1>2, <1>4, <1>5, ChannelAdded

\* In a calm import nothing keeps a rule from being stored.
LEMMA ImportRuleProgress ==
  ASSUME Inv, Progress, ImportRule
  PROVE  Progress'
<1> DEFINE item == Bundle.rules[import.next]
           n == import.next + 1
<1>1. /\ import.pc = "rules" /\ import \in Import /\ n \in Nat
      /\ UNCHANGED <<assets, keys, channels>> /\ Skip /\ import.next \in Indices(Bundle.rules)
      /\ \A i \in Indices(Bundle.rules) : i < n => i < import.next \/ i = import.next
  BY ImportType, OneMore, Lengths DEF ImportRule, At, Import
<1>2. /\ import'.pc = "rules" /\ import'.next = n /\ Steady
      /\ import'.assetIds = import.assetIds /\ import'.chanIds = import.chanIds
  BY <1>1 DEF Skip, Import, Steady, source
<1>3. CASE ~(import.calm /\ import.whole)
  BY <1>2, <1>3, NothingClaimed DEF Steady
<1>4. CASE import.calm /\ import.whole
  <2>1. /\ DOMAIN import.assetIds = DOMAIN assets
        /\ \A a \in DOMAIN assets : assets[a].id = import.assetIds[a]
        /\ DOMAIN import.chanIds = LabelsIn(channels)
        /\ \A l \in DOMAIN import.chanIds : import.chanIds[l] \in ChannelIds
        /\ \A i \in Indices(Bundle.rules) : i < import.next => RuleStands(i)
    BY <1>1, <1>4 DEF Progress, Claims, NotedIsStored, RulesDone
  <2>2. /\ rules \subseteq rules'
        /\ \A i : i = import.next => RuleStands(i)'
    <3>1. CASE ~AssetKnown(item)
      <4>1. UNCHANGED rules /\ item.asset \notin DOMAIN assets \union {Global}
        BY <2>1, <3>1 DEF ImportRule, AssetKnown
      <4> QED
        BY <1>1, <4>1 DEF RuleStands
    <3>2. CASE AssetKnown(item)
      <4> DEFINE asset == IF item.asset = Global THEN Global ELSE import.assetIds[item.asset]
                 named == {import.chanIds[l] : l \in item.channels \intersect DOMAIN import.chanIds}
      <4>1. PICK id \in Fresh({r.id : r \in rules}) :
               CreateRule([id |-> id, item |-> import.next, asset |-> asset, channels |-> named])
        BY <3>2 DEF ImportRule
      <4> DEFINE new == [id |-> id, item |-> import.next, asset |-> asset, channels |-> named]
      <4>2. item.asset \in DOMAIN assets \union {Global}
        BY <2>1, <3>2 DEF AssetKnown
      <4>3. asset \in AssetIds \union {Global} /\ named \subseteq ChannelIds
        BY <2>1, <4>2 DEF AssetIds
      <4>4. rules' = rules \union {new}
        BY <4>1, <4>3 DEF CreateRule
      <4>5. new \notin rules
        BY <4>1, FreshType
      <4>6. new.item = import.next /\ new.asset = asset
        OBVIOUS
      <4>7. LabelsOf(channels, new.channels)
               = Bundle.rules[import.next].channels \intersect LabelsIn(channels)
        BY <2>1, <4>4, <4>5, <4>6, RuleAdded
      <4>8. asset = IF item.asset = Global THEN Global ELSE assets[item.asset].id
        BY <2>1, <4>2
      <4> HIDE DEF new, asset, named, n
      <4>9. \A i : i = import.next => RuleStands(i)'
        BY <1>1, <4>4, <4>6, <4>7, <4>8 DEF RuleStands, LabelsOf, LabelsIn
      <4> QED
        BY <4>4, <4>9
    <3> QED
      BY <3>1, <3>2
  <2>3. \A i : RuleStands(i) => RuleStands(i)'
    BY <1>1, <2>2 DEF RuleStands, LabelsOf, LabelsIn
  <2>4. \A i \in Indices(Bundle.rules) : i < n => RuleStands(i)'
    BY <1>1, <2>1, <2>2, <2>3
  <2> QED
    BY <1>1, <1>2, <1>4, <2>4, StandsKept
    DEF Progress, Claims, NotedIsStored, KeyLabelsUsed, ChannelLabelsUsed, AssetsDone,
        KeysDone, ChannelsDone, RulesDone, AssetThere, ChannelIds, LabelsIn
<1> QED
  BY <1>3, <1>4

LEMMA InitProgress == Init => Progress
<1>1. Idle.pc \notin {"listAssets", "assets", "listKeys", "keys", "listChannels", "channels", "rules"}
  BY DEF Idle
<1>2. Init => import = Idle
  BY DEF Init
<1> QED
  BY <1>1, <1>2, IdleFields
  DEF Progress, Claims, NotedIsStored, KeyLabelsUsed, ChannelLabelsUsed, AssetsDone,
      KeysDone, ChannelsDone, RulesDone

LEMMA NextProgress == Inv /\ Progress /\ [Next]_vars => Progress'
<1> SUFFICES ASSUME Inv, Progress, [Next]_vars PROVE Progress'
  OBVIOUS
<1>1. ASSUME NEW mode \in Modes, NEW origin \in {"ours", "theirs"}, NEW named \in BOOLEAN,
             Request(mode, origin, named)
      PROVE  Progress'
  BY <1>1, RequestProgress
<1>2. CASE ListAssets \/ ListKeys \/ ListChannels
  BY <1>2, ListsProgress
<1>3. CASE ImportAsset \/ ImportKey \/ ImportChannel \/ ImportRule
  BY <1>3, ImportAssetProgress, ImportKeyProgress, ImportChannelProgress, ImportRuleProgress
<1>4. CASE \/ PhaseEnds("assets", Bundle.assets, "listKeys")
           \/ PhaseEnds("keys", Bundle.keys, "listChannels")
           \/ PhaseEnds("channels", Bundle.channels, "rules")
  BY <1>4, EndsProgress
<1>5. CASE Interrupt \/ PhaseEnds("rules", Bundle.rules, "idle")
  BY <1>5, NothingClaimed, IdleFields DEF Interrupt, PhaseEnds
<1>6. CASE Disturb
  BY <1>6, DisturbClaims
<1>7. ASSUME NEW pc, NEW then, ListFails(pc, then)
      PROVE  Progress'
  BY <1>7, NothingClaimed, ImportType DEF ListFails, Import
<1>8. CASE ItemFails
  BY <1>8, NothingClaimed, ImportType DEF ItemFails, Import
<1>9. CASE UNCHANGED vars
  <2>1. Steady /\ UNCHANGED <<assets, keys, channels, rules, import>>
    BY <1>9 DEF vars, Steady, source
  <2> QED
    BY <2>1, StandsKept
    DEF Progress, Claims, NotedIsStored, KeyLabelsUsed, ChannelLabelsUsed, AssetsDone,
        KeysDone, ChannelsDone, RulesDone, AssetThere, RuleStands, LabelsOf, LabelsIn, ChannelIds
<1> QED
  BY <1>1, <1>2, <1>3, <1>4, <1>5, <1>6, <1>7, <1>8, <1>9
  DEF Next, DeleteAsset, AddAsset, DeleteKey, DeleteChannel, DeleteRule

\* An import that nothing interrupts or disturbs and of which no statement fails
\* leaves every item of the document in its place.
THEOREM WholeImport == Spec => WholeImportRestores
<1> DEFINE Ends == /\ import.pc = "rules" /\ import'.pc = "idle"
                   /\ import.next > Len(Bundle.rules)
                   /\ import.calm /\ import.whole
<1>2. ASSUME Inv, Progress, import.pc = "rules", import.next > Len(Bundle.rules),
             import.calm, import.whole
      PROVE  Restored
  <2>1. /\ \A i \in Indices(Bundle.assets) : AssetThere(i)
        /\ \A i \in Indices(Bundle.keys) : KeyStands(i)
        /\ \A i \in Indices(Bundle.channels) : ChannelStands(i)
        /\ \A i \in Indices(Bundle.rules) : i < import.next => RuleStands(i)
    BY <1>2 DEF Progress, Claims, AssetsDone, KeysDone, ChannelsDone, RulesDone
  <2>2. \A i \in Indices(Bundle.rules) : RuleStands(i)
    BY <1>2, <2>1, AllBehind, Lengths, ImportType DEF Import
  <2> QED
    BY <2>1, <2>2 DEF Restored, Items, AssetThere
<1>3. Inv /\ Progress /\ [Next]_vars => [Ends => Restored]_vars
  BY <1>2
<1> QED
  BY <1>3, InitProgress, Invariant, NextProgress, PTL DEF Spec, WholeImportRestores

----------------------------------------------------------------------------
(* Importing what is there *)

Repeats == import.pc # "idle" /\ import.again /\ import.calm => InPlace

\* A step of an import that is undisturbed takes nothing away.
LEMMA OnlyMore ==
  ASSUME Inv, Next, import'.pc # "idle", import'.calm,
         ~ \E mode \in Modes, origin \in {"ours", "theirs"}, named \in BOOLEAN :
              Request(mode, origin, named)
  PROVE  /\ import.pc # "idle" /\ import.calm /\ import'.again = import.again
         /\ DOMAIN assets \subseteq DOMAIN assets'
         /\ keys \subseteq keys' /\ channels \subseteq channels'
<1> USE ImportType
<1>1. ~Disturb
  BY IdleFields DEF Disturb, Import
<1>2. CASE ListAssets \/ ListKeys \/ ListChannels
  BY <1>2 DEF ListAssets, ListKeys, ListChannels, Import, tables
<1>3. ASSUME NEW pc, pc # "idle", NEW list, NEW then, PhaseEnds(pc, list, then)
      PROVE  /\ UNCHANGED <<assets, keys, channels>> /\ import.pc # "idle"
             /\ import'.calm = import.calm /\ import'.again = import.again
  BY <1>3, IdleFields DEF PhaseEnds, Import, tables
<1>4. CASE ImportAsset
  <2>1. import.pc # "idle" /\ UNCHANGED <<keys, channels>>
    BY <1>4 DEF ImportAsset, At
  <2>2. import'.calm = import.calm /\ import'.again = import.again
    BY <1>4 DEF ImportAsset, UpdateAsset, CreateAsset, Skip, NoteAsset, Import
  <2>3. DOMAIN assets \subseteq DOMAIN assets'
    BY <1>4 DEF ImportAsset, UpdateAsset, CreateAsset, With
  <2> QED BY <2>1, <2>2, <2>3
<1>5. CASE ImportKey
  <2>1. import.pc # "idle" /\ UNCHANGED <<assets, channels>>
    BY <1>5 DEF ImportKey, At
  <2>2. import'.calm = import.calm /\ import'.again = import.again /\ keys \subseteq keys'
    BY <1>5, KeyAdded, IdleFields DEF Skip, NoteKey, Import
  <2> QED
    BY <2>1, <2>2
<1>6. CASE ImportChannel
  <2>1. import.pc # "idle" /\ UNCHANGED <<assets, keys>>
    BY <1>6 DEF ImportChannel, At
  <2>2. import'.calm = import.calm /\ import'.again = import.again /\ channels \subseteq channels'
    BY <1>6, ChannelAdded, IdleFields DEF Skip, Import
  <2> QED
    BY <2>1, <2>2
<1>7. CASE ImportRule
  BY <1>7 DEF ImportRule, At, Skip, Import
<1>8. ~Interrupt /\ ~PhaseEnds("rules", Bundle.rules, "idle")
  BY IdleFields DEF Interrupt, PhaseEnds
<1>9. CASE \/ PhaseEnds("assets", Bundle.assets, "listKeys")
           \/ PhaseEnds("keys", Bundle.keys, "listChannels")
           \/ PhaseEnds("channels", Bundle.channels, "rules")
  BY <1>3, <1>9
<1>10. ASSUME NEW pc, pc # "idle", NEW then, ListFails(pc, then)
       PROVE  /\ UNCHANGED <<assets, keys, channels>> /\ import.pc # "idle"
              /\ import'.calm = import.calm /\ import'.again = import.again
  BY <1>10 DEF ListFails, Import, tables
<1>11. CASE ItemFails
  BY <1>11 DEF ItemFails, At, Import, tables
<1> QED
  BY <1>1, <1>2, <1>4, <1>5, <1>6, <1>7, <1>8, <1>9, <1>10, <1>11
  DEF Next, DeleteAsset, AddAsset, DeleteKey, DeleteChannel, DeleteRule

LEMMA NextRepeats ==
  ASSUME Inv, Repeats, [Next]_vars
  PROVE  Repeats'
<1>1. CASE UNCHANGED vars
  BY <1>1 DEF vars, Repeats, InPlace, LabelsIn
<1>2. ASSUME NEW mode \in Modes, NEW origin \in {"ours", "theirs"}, NEW named \in BOOLEAN,
             Request(mode, origin, named)
      PROVE  Repeats'
  <2>1. import'.again = InPlace /\ UNCHANGED tables
    BY <1>2 DEF Request, Idle
  <2> QED
    BY <2>1 DEF Repeats, InPlace, tables, LabelsIn
<1>3. CASE /\ Next
           /\ ~ \E mode \in Modes, origin \in {"ours", "theirs"}, named \in BOOLEAN :
                   Request(mode, origin, named)
  <2> SUFFICES ASSUME import'.pc # "idle", import'.again, import'.calm
               PROVE  InPlace'
    BY DEF Repeats
  <2>1. /\ InPlace
        /\ DOMAIN assets \subseteq DOMAIN assets'
        /\ keys \subseteq keys' /\ channels \subseteq channels'
    BY <1>3, OnlyMore DEF Repeats
  <2>2. LabelsIn(keys) \subseteq LabelsIn(keys') /\ LabelsIn(channels) \subseteq LabelsIn(channels')
    BY <2>1 DEF LabelsIn
  <2> QED
    BY <2>1, <2>2 DEF InPlace
<1> QED
  BY <1>1, <1>2, <1>3

\* In such an import every asset is known, and so is every label.
LEMMA RepeatStep ==
  ASSUME Inv, Progress, Repeats, Next,
         import.pc # "idle", import.again, import.calm, import'.calm, import.whole
  PROVE  /\ AssetIds' = AssetIds
         /\ \A row \in (keys' \ keys) \union (channels' \ channels) : row.label = Blank
<1> USE ImportType
<1>1. InPlace
  BY DEF Repeats
<1>2. ~Disturb
  BY DEF Disturb, Import
<1>3. CASE ImportAsset
  <2> DEFINE a == Bundle.assets[import.next]
  <2>1. import.pc = "assets" /\ import.next \in Indices(Bundle.assets) /\ UNCHANGED <<keys, channels>>
    BY <1>3 DEF ImportAsset, At
  <2>2. a \in DOMAIN assets
    BY <1>1, <2>1 DEF InPlace, Items
  <2>3. a \in DOMAIN import.assetIds
    BY <2>1, <2>2 DEF Progress, Claims, NotedIsStored
  <2>4. UpdateAsset(a)
    BY <1>3, <2>3 DEF ImportAsset, CreateAsset
  <2>5. assets' = [b \in DOMAIN assets |->
                     IF assets[b].id = import.assetIds[a] THEN [assets[b] EXCEPT !.same = TRUE]
                     ELSE assets[b]]
    BY <2>4 DEF UpdateAsset
  <2>6. \A b \in DOMAIN assets : assets[b] \in [id : Ids, same : BOOLEAN]
    BY DEF Inv, TypeOK
  <2>7. DOMAIN assets' = DOMAIN assets /\ \A b \in DOMAIN assets : assets'[b].id = assets[b].id
    BY <2>5, <2>6
  <2> QED
    BY <2>1, <2>7 DEF AssetIds
<1>4. CASE ImportKey
  <2> DEFINE item == Bundle.keys[import.next]
  <2>1. /\ import.pc = "keys" /\ import.next \in Indices(Bundle.keys) /\ UNCHANGED <<assets, channels>>
        /\ \/ keys' = keys
           \/ /\ item.label \notin import.keyLabels
              /\ \E id \in Ids : keys' = keys \union {Row(id, item)}
    BY <1>4, KeyAdded DEF ImportKey, At
  <2>2. item.label = Blank \/ item.label \in import.keyLabels
    <3>1. item.label \in LabelsIn(keys)
      BY <1>1, <2>1 DEF InPlace, Items, LabelsIn
    <3> QED
      BY <2>1, <3>1 DEF Inv, LabelsKnown, LabelsIn
  <2>3. \A id : Row(id, item).label = item.label
    BY DEF Row
  <2> QED
    BY <2>1, <2>2, <2>3 DEF AssetIds
<1>5. CASE ImportChannel
  <2> DEFINE item == Bundle.channels[import.next]
  <2>1. /\ import.pc = "channels" /\ import.next \in Indices(Bundle.channels) /\ UNCHANGED <<assets, keys>>
        /\ \/ channels' = channels
           \/ /\ ~Taken(item) /\ item.supported
              /\ \E id \in Ids : channels' = channels \union {Row(id, item)}
    BY <1>5, ChannelAdded DEF ImportChannel, At
  <2>2. item.supported => item.label = Blank \/ item.label \in DOMAIN import.chanIds
    <3>1. item.supported => item.label \in LabelsIn(channels)
      BY <1>1, <2>1 DEF InPlace, Items, Supported, LabelsIn
    <3> QED
      BY <2>1, <3>1 DEF Inv, LabelsKnown, LabelsIn
  <2>3. \A id : Row(id, item).label = item.label
    BY DEF Row
  <2> QED
    BY <2>1, <2>2, <2>3 DEF AssetIds, Taken
<1>6. CASE UNCHANGED <<assets, keys, channels>>
  BY <1>6 DEF AssetIds
<1>7. ~ \E mode \in Modes, origin \in {"ours", "theirs"}, named \in BOOLEAN :
          Request(mode, origin, named)
  BY DEF Request
<1> QED
  BY <1>2, <1>3, <1>4, <1>5, <1>6, <1>7
  DEF Next, ListAssets, ListKeys, ListChannels, PhaseEnds, ImportRule, ListFails, ItemFails,
      Interrupt, DeleteAsset, AddAsset, DeleteKey, DeleteChannel, DeleteRule, tables

\* An undisturbed import of a document that is in place leaves the assets alone and
\* adds no key and no channel with a label, as long as no statement of it fails.
THEOREM NamedOnce == Spec => OnlyUnnamedIsRepeated
<1> DEFINE Again == import.pc # "idle" /\ import.again /\ import.calm /\ import'.calm /\ import.whole
           Kept == /\ AssetIds' = AssetIds
                   /\ \A row \in (keys' \ keys) \union (channels' \ channels) : row.label = Blank
<1>1. Init => Progress /\ Repeats
  <2>1. Init => Repeats
    BY IdleFields DEF Init, Repeats
  <2> QED
    BY <2>1, InitProgress
<1>2. Inv /\ Progress /\ Repeats /\ [Next]_vars => [Again => Kept]_vars
  BY RepeatStep
<1> QED
  BY <1>1, <1>2, Invariant, NextProgress, NextRepeats, PTL DEF Spec, OnlyUnnamedIsRepeated

=============================================================================
