------------------------------- MODULE Backup -------------------------------
(***************************************************************************)
(* Service.Import (internal/backup) of one exported document into the      *)
(* tables of an instance that is in use: the API deletes and adds rows     *)
(* between its statements, any of them may fail on its own and the import  *)
(* goes on, the request may end or the process die at any of them, and the *)
(* document is imported again afterwards.                                  *)
(*                                                                         *)
(* A document refers to assets by their name (type and value) and to       *)
(* channels by their label; rows of the tables refer to each other by id.  *)
(* Labels are not unique, neither in the tables nor in the document, and   *)
(* the document may be written by hand: its rules may name assets and      *)
(* labels that nothing has.  What Validate or a CHECK always refuses       *)
(* (assets, scopes of rules) is left out, refused channels are not.        *)
(***************************************************************************)
EXTENDS Naturals, Sequences

CONSTANTS Assets,      \* names of assets
          Labels,      \* labels that keys, channels and rules name
          Blank,       \* the empty label
          Ids,         \* of rows, per table
          Global,      \* the asset of a rule for all assets
          Bundle,      \* the document: sequences of assets, keys, channels, rules
          MaxImports,  \* bound on the number of imports
          MaxFaults    \* bound on the statements that fail on their own

Modes == {"none", "instance_key", "passphrase"}

\* secret: a ciphertext under the key of the document, or one that no key opens.
KeyItem == [label : Labels \union {Blank}, enabled : BOOLEAN,
            secret : {"none", "sealed", "broken"}]

\* supported: the type is one of those the table channels allows.
ChannelItem == [label : Labels \union {Blank}, enabled : BOOLEAN,
                secret : {"none", "sealed", "broken"}, supported : BOOLEAN]

Indices(s) == 1..Len(s)
Items(s) == {s[i] : i \in Indices(s)}

ASSUME BackupConstants ==
    /\ Bundle.assets \in Seq(Assets)
    /\ Bundle.keys \in Seq(KeyItem) /\ Bundle.channels \in Seq(ChannelItem)
    /\ Bundle.rules \in Seq([asset : Assets \union {Global},
                             channels : SUBSET (Labels \union {Blank})])
    /\ Blank \notin Labels /\ Global \notin Assets \union Ids
    /\ Ids \subseteq Nat /\ MaxImports \in Nat /\ MaxFaults \in Nat

VARIABLES assets,    \* name -> id of the row and whether it says what the document says
          keys,      \* rows of shodan_keys
          channels,  \* rows of channels
          rules,     \* rows of alert_rules with their channel map
          import,    \* the import under way
          imports,   \* how many there were
          faults,    \* number of statements that have failed on their own
          blind      \* (for the properties) an import has gone on although it
                     \* could not list the keys or the channels

tables == <<assets, keys, channels, rules>>
notes == <<imports, faults, blind>>
vars == <<assets, keys, channels, rules, import, imports, faults, blind>>

Secrets == {"none", "ours", "theirs", "broken"}

\* secret: "ours" is sealed with this instance's key, "broken" opens with none.
Sealed == [id : Ids, label : Labels \union {Blank}, enabled : BOOLEAN, secret : Secrets]

Rule == [id : Ids, item : Indices(Bundle.rules), asset : Ids \union {Global},
         channels : SUBSET Ids]

Nothing == [x \in {} |-> Global]

\* origin: whose key opens the document.  named: it carries a fingerprint.
\* assetIds, keyLabels, chanIds: what the import has found or written so far.
\* For the properties: calm, nobody else has touched the tables since it began;
\* whole, none of its statements has failed; again, everything was in place when
\* it began; usedKeys, usedChannels, the labels that were in use then.
Idle == [pc |-> "idle", next |-> 1, mode |-> "none", origin |-> "ours", named |-> FALSE,
         assetIds |-> Nothing, keyLabels |-> {}, chanIds |-> Nothing,
         calm |-> TRUE, whole |-> TRUE, again |-> FALSE,
         usedKeys |-> {}, usedChannels |-> {}]

ChannelIds == {c.id : c \in channels}

AssetIds == {assets[a].id : a \in DOMAIN assets}

Phases == {"idle", "listAssets", "assets", "listKeys", "keys", "listChannels", "channels",
           "rules"}

Partial(S) == UNION {[D -> Ids] : D \in SUBSET S}

Import == [pc : Phases, next : Nat, mode : Modes, origin : {"ours", "theirs"},
           named : BOOLEAN, assetIds : Partial(Assets), keyLabels : SUBSET Labels,
           chanIds : Partial(Labels \union {Blank}),
           calm : BOOLEAN, whole : BOOLEAN, again : BOOLEAN,
           usedKeys : SUBSET Labels, usedChannels : SUBSET Labels]

TypeOK ==
    /\ DOMAIN assets \subseteq Assets
    /\ assets \in [DOMAIN assets -> [id : Ids, same : BOOLEAN]]
    /\ keys \subseteq Sealed /\ channels \subseteq Sealed /\ rules \subseteq Rule
    /\ \A r \in rules :
          /\ r.asset \in AssetIds \union {Global}
          /\ r.channels \subseteq ChannelIds
    /\ import \in Import
    /\ imports \in 0..MaxImports /\ faults \in 0..MaxFaults /\ blind \in BOOLEAN

\* uuid.NewString gives an id that was never used before. The least one that no
\* row has and the import does not remember stands for it; there is none left
\* when the tables reach the bound that Ids sets.
Fresh(used) == {id \in Ids \ used : \A other \in Ids \ used : id <= other}

Values(f) == {f[x] : x \in DOMAIN f}

\* f with x mapped to y.
With(f, x, y) == [z \in DOMAIN f \union {x} |-> IF z = x THEN y ELSE f[z]]

----------------------------------------------------------------------------
(* What the document asks for *)

LabelsIn(rows) == {row.label : row \in rows}

LabelsOf(rows, ids) == LabelsIn({row \in rows : row.id \in ids})

\* The channels of the document that the table takes.
Supported == {c \in Items(Bundle.channels) : c.supported}

\* The assets of the document are there, and all its labels are in use.
InPlace ==
    /\ \A a \in Items(Bundle.assets) : a \in DOMAIN assets
    /\ LabelsIn(Items(Bundle.keys)) \subseteq LabelsIn(keys)
    /\ LabelsIn(Supported) \subseteq LabelsIn(channels)

----------------------------------------------------------------------------
(* Import *)

Init ==
    /\ \E names \in SUBSET Assets : \E id \in [names -> Ids] :
          /\ \A a, b \in names : a # b => id[a] # id[b]
          /\ \A a \in names, i \in Ids : i < id[a] => i \in Values(id)
          /\ assets = [a \in names |-> [id |-> id[a], same |-> FALSE]]
    /\ keys = {} /\ channels = {} /\ rules = {}
    /\ import = Idle
    /\ imports = 0 /\ faults = 0 /\ blind = FALSE

\* The secrets of keys and channels, in the order of firstCiphertext.
SecretItems == Bundle.keys \o Bundle.channels

\* The key of the document opens the item's secret.
Opens(origin, item) == origin = "ours" /\ item.secret = "sealed"

\* The first secret of the document, if there is one, opens.
FirstOpens(origin) ==
    \A i \in Indices(SecretItems) :
        /\ SecretItems[i].secret # "none"
        /\ \A j \in 1..(i - 1) : SecretItems[j].secret = "none"
        => Opens(origin, SecretItems[i])

\* Wrong variant of Accepts: the fingerprint is not compared.
AcceptsAnyOrigin(mode, origin, named) == mode = "passphrase" => FirstOpens(origin)

\* instance_key: the fingerprints agree, if the document has one.  passphrase:
\* a first secret is opened before anything is written.
Accepts(mode, origin, named) ==
    /\ mode = "instance_key" /\ named => origin = "ours"
    /\ mode = "passphrase" => FirstOpens(origin)

\* origin: whether the secrets of an instance_key document were sealed with this
\* instance's key, or whether the passphrase is right.  Only such a document has
\* a fingerprint.
Request(mode, origin, named) ==
    /\ import.pc = "idle"
    /\ imports < MaxImports
    /\ mode = "none" => origin = "ours"
    /\ mode # "instance_key" => ~named
    /\ Accepts(mode, origin, named)
    /\ import' = [Idle EXCEPT !.pc = "listAssets", !.mode = mode, !.origin = origin,
                              !.named = named, !.again = InPlace,
                              !.usedKeys = LabelsIn(keys) \ {Blank},
                              !.usedChannels = LabelsIn(channels) \ {Blank}]
    /\ imports' = imports + 1
    /\ UNCHANGED <<tables, faults, blind>>

\* Is the item one of the list that is being gone through?
At(pc, list) == import.pc = pc /\ import.next \in Indices(list)

Skip == import' = [import EXCEPT !.next = @ + 1]

\* From the end of one list to the next step.
PhaseEnds(pc, list, then) ==
    /\ import.pc = pc
    /\ import.next > Len(list)
    /\ import' = IF then = "idle" THEN Idle ELSE [import EXCEPT !.pc = then, !.next = 1]
    /\ UNCHANGED <<tables, notes>>

ListAssets ==
    /\ import.pc = "listAssets"
    /\ import' = [import EXCEPT !.pc = "assets",
                                !.assetIds = [a \in DOMAIN assets |-> assets[a].id]]
    /\ UNCHANGED <<tables, notes>>

\* The asset is known: its row is updated, if it is still there.
UpdateAsset(a) ==
    /\ a \in DOMAIN import.assetIds
    /\ assets' = [b \in DOMAIN assets |->
                     IF assets[b].id = import.assetIds[a] THEN [assets[b] EXCEPT !.same = TRUE]
                     ELSE assets[b]]
    /\ Skip

\* Wrong variant of NoteAsset: the id of a new row is not noted.
NoteNoAsset(a, id) == Skip

NoteAsset(a, id) ==
    import' = [import EXCEPT !.next = @ + 1, !.assetIds = With(@, a, id)]

\* It is not: a row is inserted, unless the name has been taken meanwhile.
CreateAsset(a) ==
    /\ a \notin DOMAIN import.assetIds
    /\ IF a \in DOMAIN assets THEN Skip /\ UNCHANGED assets
       ELSE \E id \in Fresh(AssetIds \union Values(import.assetIds)) :
               /\ assets' = With(assets, a, [id |-> id, same |-> TRUE])
               /\ NoteAsset(a, id)

ImportAsset ==
    /\ At("assets", Bundle.assets)
    /\ LET a == Bundle.assets[import.next] IN UpdateAsset(a) \/ CreateAsset(a)
    /\ UNCHANGED <<keys, channels, rules, notes>>

\* Wrong variant of ListKeys: the labels of before are not looked up.
ListNoKeys ==
    /\ import.pc = "listKeys"
    /\ import' = [import EXCEPT !.pc = "keys"]
    /\ UNCHANGED <<tables, notes>>

ListKeys ==
    /\ import.pc = "listKeys"
    /\ import' = [import EXCEPT !.pc = "keys",
                                !.keyLabels = {k.label : k \in keys} \ {Blank}]
    /\ UNCHANGED <<tables, notes>>

\* localize: the secret of an item under this instance's key.  A document under
\* its instance's key has its secrets stored as they are.
Localized(item) == IF import.mode = "none" \/ item.secret = "none" THEN "none"
                   ELSE IF import.mode = "passphrase" THEN "ours"
                   ELSE IF item.secret = "broken" THEN "broken"
                   ELSE import.origin

\* localize fails, and with it the import: what is written stays.
Corrupt(item) ==
    import.mode = "passphrase" /\ item.secret # "none" /\ ~Opens(import.origin, item)

\* A new key or channel; without a secret it is disabled.
Row(id, item) ==
    [id |-> id, label |-> item.label, secret |-> Localized(item),
     enabled |-> item.enabled /\ Localized(item) # "none"]

\* Wrong variant of NoteKey: the label of a created key is not noted.
NoteNothing(item) == Skip

NoteKey(item) ==
    import' = [import EXCEPT !.next = @ + 1, !.keyLabels = @ \union ({item.label} \ {Blank})]

\* Does the item make a new key?
NewKey(item) == item.label \notin import.keyLabels /\ ~Corrupt(item)

ImportKey ==
    /\ At("keys", Bundle.keys)
    /\ LET item == Bundle.keys[import.next] IN
       \/ item.label \in import.keyLabels /\ Skip /\ UNCHANGED keys
       \/ item.label \notin import.keyLabels /\ Corrupt(item) /\ import' = Idle /\ UNCHANGED keys
       \/ /\ NewKey(item)
          /\ \E id \in Fresh({k.id : k \in keys}) : keys' = keys \union {Row(id, item)}
          /\ NoteKey(item)
    /\ UNCHANGED <<assets, channels, rules, notes>>

\* Of two channels with one label either may be the last one listed.
Known(ids) ==
    /\ DOMAIN ids = {c.label : c \in channels}
    /\ \A l \in DOMAIN ids : \E c \in channels : c.id = ids[l] /\ c.label = l

ListChannels ==
    /\ import.pc = "listChannels"
    /\ \E labels \in SUBSET {c.label : c \in channels} :
          \E ids \in [labels -> ChannelIds] :
             /\ Known(ids)
             /\ import' = [import EXCEPT !.pc = "channels", !.chanIds = ids]
    /\ UNCHANGED <<tables, notes>>

Taken(item) == item.label # Blank /\ item.label \in DOMAIN import.chanIds

NewChannel(item) == ~Taken(item) /\ ~Corrupt(item)

\* A type that the table does not allow is refused.
ImportChannel ==
    /\ At("channels", Bundle.channels)
    /\ LET item == Bundle.channels[import.next] IN
       \/ Taken(item) /\ Skip /\ UNCHANGED channels
       \/ ~Taken(item) /\ Corrupt(item) /\ import' = Idle /\ UNCHANGED channels
       \/ NewChannel(item) /\ ~item.supported /\ Skip /\ UNCHANGED channels
       \/ /\ NewChannel(item) /\ item.supported
          /\ \E id \in Fresh(ChannelIds \union Values(import.chanIds)) :
                /\ channels' = channels \union {Row(id, item)}
                /\ import' = [import EXCEPT !.next = @ + 1,
                                            !.chanIds = With(@, item.label, id)]
    /\ UNCHANGED <<assets, keys, rules, notes>>

\* Wrong variant of CreateRule: the foreign keys are off.
CreateRuleUnchecked(rule) == rules' = rules \union {rule}

\* Wrong variant of CreateRule: a channel that is refused is passed over.
CreateRuleWithTheRest(rule) ==
    IF rule.asset \in AssetIds \union {Global}
    THEN rules' = rules \union {[rule EXCEPT !.channels = @ \intersect ChannelIds]}
    ELSE UNCHANGED rules

\* The row of the rule and of its channels, in one transaction: the foreign
\* keys refuse it when the asset or a channel has been deleted meanwhile.
CreateRule(rule) ==
    IF /\ rule.asset \in AssetIds \union {Global}
       /\ rule.channels \subseteq ChannelIds
    THEN rules' = rules \union {rule}
    ELSE UNCHANGED rules

AssetKnown(item) == item.asset \in DOMAIN import.assetIds \union {Global}

\* The asset of a rule has to be known; channels that are not are left out.
ImportRule ==
    /\ At("rules", Bundle.rules)
    /\ LET item == Bundle.rules[import.next] IN
       IF AssetKnown(item)
       THEN \E id \in Fresh({r.id : r \in rules}) :
               CreateRule([id |-> id, item |-> import.next,
                           asset |-> IF item.asset = Global THEN Global
                                     ELSE import.assetIds[item.asset],
                           channels |-> {import.chanIds[l] :
                                            l \in item.channels \intersect DOMAIN import.chanIds}])
       ELSE UNCHANGED rules
    /\ Skip
    /\ UNCHANGED <<assets, keys, channels, notes>>

Fault == faults < MaxFaults /\ faults' = faults + 1

\* A list that cannot be read counts as empty.
ListFails(pc, then) ==
    /\ import.pc = pc
    /\ Fault
    /\ import' = [import EXCEPT !.pc = then, !.whole = FALSE]
    /\ blind' = (blind \/ pc # "listAssets")
    /\ UNCHANGED <<tables, imports>>

\* An INSERT or UPDATE fails: the item is passed over, and not noted.
ItemFails ==
    /\ \/ At("assets", Bundle.assets)
       \/ At("keys", Bundle.keys) /\ NewKey(Bundle.keys[import.next])
       \/ At("channels", Bundle.channels) /\ NewChannel(Bundle.channels[import.next])
       \/ At("rules", Bundle.rules) /\ AssetKnown(Bundle.rules[import.next])
    /\ Fault
    /\ import' = [import EXCEPT !.next = @ + 1, !.whole = FALSE]
    /\ UNCHANGED <<tables, imports, blind>>

\* The request ends or the process dies: nothing more is written.
Interrupt ==
    /\ import.pc # "idle"
    /\ import' = Idle
    /\ UNCHANGED <<tables, notes>>

----------------------------------------------------------------------------
(* Meanwhile: the other handlers of the API *)

\* What was there when the import began does not matter any more.
Disturb ==
    import' = IF import.pc = "idle" THEN Idle
              ELSE [import EXCEPT !.calm = FALSE, !.again = FALSE,
                                  !.usedKeys = {}, !.usedChannels = {}]

\* Its rules go with it.
DeleteAsset(a) ==
    /\ assets' = [b \in DOMAIN assets \ {a} |-> assets[b]]
    /\ rules' = {r \in rules : r.asset # assets[a].id}
    /\ Disturb
    /\ UNCHANGED <<keys, channels, notes>>

AddAsset(a) ==
    /\ a \notin DOMAIN assets
    /\ \E id \in Fresh(AssetIds \union Values(import.assetIds)) :
          assets' = With(assets, a, [id |-> id, same |-> FALSE])
    /\ Disturb
    /\ UNCHANGED <<keys, channels, rules, notes>>

DeleteKey(k) ==
    /\ keys' = keys \ {k}
    /\ Disturb
    /\ UNCHANGED <<assets, channels, rules, notes>>

\* Its rules lose it.
DeleteChannel(c) ==
    /\ channels' = channels \ {c}
    /\ rules' = {[r EXCEPT !.channels = @ \ {c.id}] : r \in rules}
    /\ Disturb
    /\ UNCHANGED <<assets, keys, notes>>

DeleteRule(r) ==
    /\ rules' = rules \ {r}
    /\ Disturb
    /\ UNCHANGED <<assets, keys, channels, notes>>

Next ==
    \/ \E mode \in Modes, origin \in {"ours", "theirs"}, named \in BOOLEAN :
          Request(mode, origin, named)
    \/ ListAssets
    \/ ImportAsset
    \/ PhaseEnds("assets", Bundle.assets, "listKeys")
    \/ ListKeys
    \/ ImportKey
    \/ PhaseEnds("keys", Bundle.keys, "listChannels")
    \/ ListChannels
    \/ ImportChannel
    \/ PhaseEnds("channels", Bundle.channels, "rules")
    \/ ImportRule
    \/ PhaseEnds("rules", Bundle.rules, "idle")
    \/ ListFails("listAssets", "assets")
    \/ ListFails("listKeys", "keys")
    \/ ListFails("listChannels", "channels")
    \/ ItemFails
    \/ Interrupt
    \/ \E a \in DOMAIN assets : DeleteAsset(a)
    \/ \E a \in Assets : AddAsset(a)
    \/ \E k \in keys : DeleteKey(k)
    \/ \E c \in channels : DeleteChannel(c)
    \/ \E r \in rules : DeleteRule(r)

Spec == Init /\ [][Next]_vars

----------------------------------------------------------------------------

\* Keys: the label of each key of the document was in use, or an earlier key of
\* the document has it, or there is a row as the document describes it.
KeyStands(i) ==
    LET item == Bundle.keys[i] IN
    \/ item.label \in import.usedKeys
    \/ item.label # Blank /\ \E j \in 1..(i - 1) : Bundle.keys[j].label = item.label
    \/ \E id \in Ids : Row(id, item) \in keys

\* Channels: the same, but for the types that are refused.
ChannelStands(i) ==
    LET item == Bundle.channels[i] IN
    \/ ~item.supported
    \/ item.label \in import.usedChannels
    \/ item.label # Blank /\ \E j \in 1..(i - 1) : Bundle.channels[j].label = item.label
    \/ \E id \in Ids : Row(id, item) \in channels

\* Rules: if the asset exists, there is a row with the asset and with a channel
\* for each label that any channel has.
RuleStands(i) ==
    LET item == Bundle.rules[i] IN
    \/ item.asset \notin DOMAIN assets \union {Global}
    \/ \E r \in rules :
          /\ r.item = i
          /\ r.asset = IF item.asset = Global THEN Global ELSE assets[item.asset].id
          /\ LabelsOf(channels, r.channels) = item.channels \intersect LabelsIn(channels)

\* Each item of the document stands for a row, for a label that was taken, or is
\* one that the import has to pass over.
Restored ==
    /\ \A a \in Items(Bundle.assets) : a \in DOMAIN assets /\ assets[a].same
    /\ \A i \in Indices(Bundle.keys) : KeyStands(i)
    /\ \A i \in Indices(Bundle.channels) : ChannelStands(i)
    /\ \A i \in Indices(Bundle.rules) : RuleStands(i)

\* An import that nothing interrupts or disturbs and of which no statement fails
\* leaves every item of the document in its place, whatever earlier imports and
\* deletions have left behind.  Rows whose label was in use stay as they are, so
\* a key imported without its secret does not get it from a later import.
WholeImportRestores ==
    [][/\ import.pc = "rules" /\ import'.pc = "idle"
       /\ import.next > Len(Bundle.rules)
       /\ import.calm /\ import.whole
       => Restored]_vars

\* No import, repeated or resumed after an interruption or a failed INSERT, gives
\* a label that is taken to a second key or channel, as long as each could list
\* the labels in use.
LabelsStayUnique ==
    \/ blind
    \/ /\ \A k, l \in keys : k.label = l.label /\ k.label # Blank => k = l
       /\ \A c, d \in channels : c.label = d.label /\ c.label # Blank => c = d

\* What an import enables has a secret, and one that this instance can open.
\* Only a document under an instance's key escapes that (README.md:546-548): one
\* that carries no fingerprint, and secrets that its own instance cannot open.
EnabledIsUsable ==
    [][\A row \in (keys' \ keys) \union (channels' \ channels) :
          row.enabled =>
             \/ row.secret = "ours"
             \/ /\ import.mode = "instance_key" /\ row.secret # "none"
                /\ row.secret = "broken" \/ ~import.named]_vars

\* A rule is stored with all the channels that the import has found or made for
\* its labels or not at all, also when channels are deleted while it runs; if no
\* statement has failed, these are at least the channels the document describes.
RulesKeepTheirChannels ==
    [][import.pc = "rules" =>
          \A r \in rules' \ rules :
             \/ import'.next = import.next
             \/ LET wanted == Bundle.rules[r.item].channels
                    got == LabelsOf(channels, r.channels) IN
                /\ got = wanted \intersect DOMAIN import.chanIds
                /\ import.whole => wanted \intersect LabelsIn(Supported) \subseteq got]_vars

\* What is left of "Import is idempotent" (README.md:552): an undisturbed import
\* of a document that is in place leaves the ids of the assets alone and adds no
\* key and no channel, unless it has no label. (It adds the rules once more.)
OnlyUnnamedIsRepeated ==
    [][import.pc # "idle" /\ import.again /\ import.calm /\ import'.calm /\ import.whole =>
          /\ AssetIds' = AssetIds
          /\ \A row \in (keys' \ keys) \union (channels' \ channels) : row.label = Blank]_vars

=============================================================================
