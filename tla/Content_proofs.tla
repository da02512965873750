--------------------------- MODULE Content_proofs ---------------------------
(***************************************************************************)
(* What holds of Content for any clients, readers and identities, any       *)
(* failures and any bound.                                                  *)
(***************************************************************************)
EXTENDS Content, TLAPS

(* The writes of different mutations do not mix.                            *)
Serial == \A c, o \in Client : pc[c] # "idle" /\ pc[o] # "idle" => c = o

(* A version an asset retains is there, with its original.                  *)
Stored(a, v) == <<a, v>> \in versions /\ v \in blobs

Retained(ref) == media[ref[1]] # None /\ ref[2] \in media[ref[1]].retained

(* A head that may be written now: the successor of the one there is.       *)
HeadFits(l, head) ==
  /\ l \in Layer /\ head \in LayerHead
  /\ layers[l] = None => head.revision = 1 /\ ~head.deleted
  /\ layers[l] # None => /\ ~layers[l].deleted
                         /\ head.revision = layers[l].revision + (IF head.deleted THEN 0 ELSE 1)

RevisionReady(j) ==
  /\ HeadFits(j.layer, j.head) /\ ~j.head.deleted
  /\ j.features \in SUBSET Ref /\ Referable(j.features)

HeadReady(j) ==
  /\ HeadFits(j.layer, j.head)
  /\ IF j.head.deleted THEN ~Bound(j.layer)
     ELSE /\ revisions[j.layer][j.head.revision] # None
          /\ Referable(revisions[j.layer][j.head.revision].features)

MapReady(j) ==
  /\ j.map \in Map
  /\ j.bound # None =>
       /\ j.bound \in MapDocument /\ Bindable(j.bound.bindings)
       /\ maps[j.map] # None => j.bound.revision = maps[j.map].revision + 1

(* A document that may be written now: it has what retained revisions show. *)
DocumentFits(a, document) ==
  /\ a \in Asset /\ document \in MediaHead
  /\ media[a] # None =>
       /\ ~media[a].deleted /\ media[a].retained \subseteq document.retained
       /\ document.revision = media[a].revision + (IF document.deleted THEN 0 ELSE 1)
  /\ \A l \in Layer : layers[l] # None =>
       \A n \in 1..layers[l].revision : \A ref \in revisions[l][n].features :
         ref[1] = a => /\ ~document.deleted
                       /\ ref[2] \in document.versions /\ ref[2] \in document.retained

OriginalReady(j) ==
  /\ j.ref \in Ref /\ DocumentFits(j.ref[1], j.document)
  /\ \A v \in j.document.retained : v = j.ref[2] \/ Stored(j.ref[1], v)

VersionReady(j) == OriginalReady(j) /\ j.ref[2] \in blobs

DocumentReady(j) ==
  /\ DocumentFits(j.ref[1], j.document)
  /\ \A v \in j.document.retained : Stored(j.ref[1], v)

(* What a mutation has checked still holds when it writes.                  *)
Ready(label, j) ==
  /\ label = "revision" => RevisionReady(j)
  /\ label = "layer" => HeadReady(j)
  /\ label = "map" => MapReady(j)
  /\ label = "blob" => OriginalReady(j)
  /\ label = "version" => VersionReady(j)
  /\ label = "media" => DocumentReady(j)

JobsReady == \A c \in Client : Ready(pc[c], job[c])

(* What a reader was referred to stays.                                     *)
Served(label, v) ==
  /\ label # "missing"
  /\ \A l \in v.todo : layers[l] # None
  /\ \A ref \in v.refs \cup v.found : Retained(ref)
  /\ label \in {"reading", "version", "conflict"} => v.map \in Map
  /\ label = "revision" => /\ v.layer \in Layer /\ layers[v.layer] # None
                           /\ v.revision \in 1..layers[v.layer].revision
  /\ label \in {"version", "original"} => v.ref \in Ref /\ Retained(v.ref)
  /\ label = "conflict" => /\ v.layer \in Layer /\ layers[v.layer] # None
                           /\ layers[v.layer].deleted

ViewsServed == \A r \in Reader : Served(at[r], view[r])

StoresSafe == StoresTyped /\ ReferencesHeld
CallsSafe == CallsTyped /\ Serial /\ JobsReady
ReadersSafe == ReadersTyped /\ ViewsServed

Safe == StoresSafe /\ CallsSafe /\ ReadersSafe
-----------------------------------------------------------------------------
(* The shapes of what is written and of what is read.                       *)

CallLabels == {"idle", "revision", "layer", "map", "blob", "version", "media"}
ReaderLabels == {"idle", "reading", "revision", "version", "original", "conflict", "missing"}

LEMMA FreshTyped == NoJob \in Jobs /\ NoView \in Views
  BY ConstantsAssumption DEF NoJob, NoView, Jobs, Views, Ref

LEMMA FreshReady == Ready("idle", NoJob) /\ Served("idle", NoView)
  BY DEF Ready, Served, NoView

(* The initial state is safe.                                               *)
LEMMA InitSafe == Init => Safe
<1> SUFFICES ASSUME Init PROVE Safe
  OBVIOUS
<1>1. StoresSafe
  BY ConstantsAssumption DEF Init, StoresSafe, StoresTyped, ReferencesHeld
<1>2. CallsSafe
  BY FreshTyped, FreshReady DEF Init, CallsSafe, CallsTyped, Serial, JobsReady
<1>3. ReadersSafe
  BY FreshTyped, FreshReady DEF Init, ReadersSafe, ReadersTyped, ViewsServed
<1> QED
  BY <1>1, <1>2, <1>3 DEF Safe

(* What is established of the stores stays while they do.                   *)
LEMMA StoresStay ==
  ASSUME UNCHANGED stores
  PROVE  /\ StoresSafe => StoresSafe'
         /\ \A label, j : Ready(label, j) => Ready(label, j)'
         /\ \A label, v : Served(label, v) => Served(label, v)'
<1> USE DEF stores
<1>1. StoresSafe => StoresSafe'
  BY DEF StoresSafe, StoresTyped, ReferencesHeld, Referable, Available, Bindable, Published
<1>2. \A label, j : Ready(label, j) => Ready(label, j)'
  BY DEF Ready, RevisionReady, HeadReady, MapReady, OriginalReady, VersionReady, DocumentReady,
    HeadFits, DocumentFits, Stored, Referable, Available, Bindable, Published, Bound
<1>3. \A label, v : Served(label, v) => Served(label, v)'
  BY DEF Served, Retained
<1> QED
  BY <1>1, <1>2, <1>3

(* A mutation that begins has checked what it needs.                        *)
LEMMA Begun ==
  ASSUME Safe, NEW c \in Client, NEW label \in CallLabels \ {"idle"}, NEW j \in Jobs,
         Mutates(c), Begins(c, label, j), Ready(label, j)
  PROVE  Safe'
<1>1. UNCHANGED stores /\ UNCHANGED readers
  BY DEF Begins
<1>2. CallsTyped'
  BY DEF Safe, CallsSafe, CallsTyped, Begins, CallLabels
<1>3. \A o \in Client : o # c => pc'[o] = "idle" /\ job'[o] = NoJob
  BY DEF Safe, CallsSafe, CallsTyped, Begins, Mutates
<1>4. pc'[c] = label /\ job'[c] = j
  BY DEF Safe, CallsSafe, CallsTyped, Begins
<1>5. Serial'
  BY <1>3 DEF Serial
<1>6. JobsReady'
  <2>1. \A o \in Client : Ready(pc'[o], job'[o])
    BY <1>3, <1>4, FreshReady
  <2> QED
    BY <2>1, <1>1, StoresStay DEF JobsReady
<1>7. StoresSafe'
  BY <1>1, StoresStay DEF Safe
<1>8. ReadersSafe'
  BY <1>1, StoresStay DEF Safe, ReadersSafe, ReadersTyped, ViewsServed, readers
<1> QED
  BY <1>2, <1>5, <1>6, <1>7, <1>8 DEF Safe, CallsSafe

(* A reader that goes on has found what it needs.                           *)
LEMMA Gone ==
  ASSUME Safe, NEW r \in Reader, NEW label \in ReaderLabels, NEW v \in Views,
         Goes(r, label, v), Served(label, v)
  PROVE  Safe'
<1>1. UNCHANGED stores /\ UNCHANGED calls
  BY DEF Goes
<1>2. ReadersTyped'
  BY DEF Safe, ReadersSafe, ReadersTyped, Goes, ReaderLabels
<1>3. \A o \in Reader : Served(at'[o], view'[o])
  BY DEF Safe, ReadersSafe, ReadersTyped, ViewsServed, Goes
<1>4. ViewsServed'
  BY <1>1, <1>3, StoresStay DEF ViewsServed
<1>5. StoresSafe'
  BY <1>1, StoresStay DEF Safe
<1>6. CallsSafe'
  BY <1>1, StoresStay DEF Safe, CallsSafe, CallsTyped, Serial, JobsReady, calls
<1> QED
  BY <1>2, <1>4, <1>5, <1>6 DEF Safe, ReadersSafe

-----------------------------------------------------------------------------
(* Mutations begin.                                                         *)

(* A document of a layer that may be published.                             *)
LEMMA LayerBegun ==
  ASSUME Safe, NEW c \in Client, NEW l \in Layer, NEW n \in Revision, NEW features \in SUBSET Ref,
         Mutates(c), PublishLayer(c, l, n, features), Referable(features),
         HeadFits(l, [revision |-> n, deleted |-> FALSE])
  PROVE  Safe'
<1> DEFINE head == [revision |-> n, deleted |-> FALSE]
           j == [NoJob EXCEPT !.layer = l, !.features = features, !.head = head]
<1>1. head \in LayerHead
  BY DEF LayerHead
<1>2. j \in Jobs /\ j.layer = l /\ j.features = features /\ j.head = head
  BY <1>1, FreshTyped DEF NoJob, Jobs
<1>3. Ready("revision", j)
  BY <1>2 DEF Ready, RevisionReady
<1>4. Begins(c, "revision", j)
  BY DEF PublishLayer
<1> HIDE DEF j
<1> QED
  BY <1>2, <1>3, <1>4, Begun DEF CallLabels

LEMMA MapBegun ==
  ASSUME Safe, NEW c \in Client, NEW m \in Map, NEW n \in Revision, NEW bindings \in Bindings,
         Mutates(c), PublishMap(c, m, n, bindings), Bindable(bindings),
         maps[m] # None => n = maps[m].revision + 1
  PROVE  Safe'
<1> DEFINE document == [revision |-> n, bindings |-> bindings]
           j == [NoJob EXCEPT !.map = m, !.bound = document]
<1>1. document \in MapDocument
  BY DEF MapDocument
<1>2. j \in Jobs /\ j.map = m /\ j.bound = document
  BY <1>1, FreshTyped DEF NoJob, Jobs
<1>3. Ready("map", j)
  BY <1>1, <1>2 DEF Ready, MapReady
<1>4. Begins(c, "map", j)
  BY DEF PublishMap
<1> HIDE DEF j
<1> QED
  BY <1>2, <1>3, <1>4, Begun DEF CallLabels

LEMMA MediaBegun ==
  ASSUME Safe, NEW c \in Client, NEW a \in Asset, NEW v \in Version, NEW document \in MediaHead,
         Mutates(c), PublishMedia(c, a, v, document), DocumentFits(a, document),
         \A w \in document.retained : w = v \/ Stored(a, w)
  PROVE  Safe'
<1> DEFINE j == [NoJob EXCEPT !.ref = <<a, v>>, !.document = document]
<1>1. j \in Jobs /\ j.ref = <<a, v>> /\ j.document = document
  BY FreshTyped DEF NoJob, Jobs
<1>2. Ready("blob", j)
  BY <1>1 DEF Ready, OriginalReady, Ref
<1>3. Begins(c, "blob", j)
  BY DEF PublishMedia
<1> HIDE DEF j
<1> QED
  BY <1>1, <1>2, <1>3, Begun DEF CallLabels

LEMMA CreateLayerSafe ==
  ASSUME Safe, NEW c \in Client, NEW l \in Layer, NEW f \in Features, CreateLayer(c, l, f)
  PROVE  Safe'
<1>1. 1 \in Revision /\ f \in SUBSET Ref
  BY ConstantsAssumption DEF CreateLayer, Revision
<1>2. HeadFits(l, [revision |-> 1, deleted |-> FALSE])
  BY <1>1 DEF CreateLayer, Unused, HeadFits, LayerHead
<1> QED
  BY <1>1, <1>2, LayerBegun DEF CreateLayer

LEMMA ReplaceLayerSafe ==
  ASSUME Safe, NEW c \in Client, NEW l \in Layer, NEW n \in Revision, NEW f \in Features,
         ReplaceLayer(c, l, n, f)
  PROVE  Safe'
<1>1. n + 1 \in Revision /\ f \in SUBSET Ref
  BY ConstantsAssumption DEF ReplaceLayer, Revision
<1>2. HeadFits(l, [revision |-> n + 1, deleted |-> FALSE])
  BY <1>1 DEF ReplaceLayer, Published, HeadFits, LayerHead
<1> QED
  BY <1>1, <1>2, LayerBegun DEF ReplaceLayer

LEMMA CopyLayerSafe ==
  ASSUME Safe, NEW c \in Client, NEW l \in Layer, NEW from \in Layer, CopyLayer(c, l, from)
  PROVE  Safe'
<1> DEFINE n == layers[from].revision
           features == revisions[from][n].features
<1>1. layers[from] \in LayerHead /\ n \in Revision
  BY DEF CopyLayer, Published, Safe, StoresSafe, StoresTyped, LayerHead
<1>2. revisions[from][n] \in LayerDocument
  BY <1>1 DEF CopyLayer, Safe, StoresSafe, StoresTyped
<1>3. 1 \in Revision /\ features \in SUBSET Ref
  BY <1>1, <1>2, ConstantsAssumption DEF Revision, LayerDocument
<1>4. HeadFits(l, [revision |-> 1, deleted |-> FALSE])
  BY <1>3 DEF CopyLayer, Unused, HeadFits, LayerHead
<1> QED
  BY <1>3, <1>4, LayerBegun DEF CopyLayer

LEMMA DeleteLayerSafe ==
  ASSUME Safe, NEW c \in Client, NEW l \in Layer, NEW n \in Revision, DeleteLayer(c, l, n)
  PROVE  Safe'
<1> DEFINE head == [revision |-> n, deleted |-> TRUE]
           j == [NoJob EXCEPT !.layer = l, !.head = head]
<1>1. head \in LayerHead
  BY DEF LayerHead
<1>2. j \in Jobs /\ j.layer = l /\ j.head = head
  BY <1>1, FreshTyped DEF NoJob, Jobs
<1>3. HeadFits(l, head)
  BY <1>1 DEF HeadFits, DeleteLayer, Published, Revision
<1>4. Ready("layer", j)
  BY <1>2, <1>3 DEF Ready, HeadReady, DeleteLayer
<1>5. Mutates(c) /\ Begins(c, "layer", j)
  BY DEF DeleteLayer
<1> HIDE DEF j
<1> QED
  BY <1>2, <1>4, <1>5, Begun DEF CallLabels

LEMMA CreateMapSafe ==
  ASSUME Safe, NEW c \in Client, NEW m \in Map, NEW bs \in Bindings, CreateMap(c, m, bs)
  PROVE  Safe'
<1>1. 1 \in Revision
  BY ConstantsAssumption DEF CreateMap, Revision
<1> QED
  BY <1>1, MapBegun DEF CreateMap

LEMMA ReplaceMapSafe ==
  ASSUME Safe, NEW c \in Client, NEW m \in Map, NEW n \in Revision, NEW bs \in Bindings,
         ReplaceMap(c, m, n, bs)
  PROVE  Safe'
<1>1. n + 1 \in Revision
  BY ConstantsAssumption DEF ReplaceMap, Revision
<1> QED
  BY <1>1, MapBegun DEF ReplaceMap

LEMMA SetBindingSafe ==
  ASSUME Safe, NEW c \in Client, NEW m \in Map, NEW n \in Revision, NEW b \in Binding,
         NEW l \in Layer \cup {None}, SetBinding(c, m, n, b, l)
  PROVE  Safe'
<1> DEFINE bs == [maps[m].bindings EXCEPT ![b] = l]
<1>1. n + 1 \in Revision
  BY ConstantsAssumption DEF SetBinding, Revision
<1>2. maps[m] \in MapDocument
  BY DEF SetBinding, Safe, StoresSafe, StoresTyped
<1>3. maps[m].bindings \in Bindings
  BY <1>2 DEF MapDocument
<1>4. bs \in Bindings
  BY <1>3 DEF Bindings
<1>5. Bindable(maps[m].bindings)
  BY DEF SetBinding, Safe, StoresSafe, ReferencesHeld
<1>6. Bindable(bs)
  BY <1>3, <1>5 DEF SetBinding, Bindable, Bindings
<1>7. Mutates(c) /\ PublishMap(c, m, n + 1, bs) /\ n = maps[m].revision
  BY DEF SetBinding
<1> HIDE DEF bs
<1> QED
  BY <1>1, <1>4, <1>6, <1>7, MapBegun

LEMMA DeleteMapSafe ==
  ASSUME Safe, NEW c \in Client, NEW m \in Map, NEW n \in Revision, DeleteMap(c, m, n)
  PROVE  Safe'
<1> DEFINE j == [NoJob EXCEPT !.map = m]
<1>1. j \in Jobs /\ j.map = m /\ j.bound = None
  BY FreshTyped DEF NoJob, Jobs
<1>2. Ready("map", j)
  BY <1>1 DEF Ready, MapReady
<1>3. Mutates(c) /\ Begins(c, "map", j)
  BY DEF DeleteMap
<1> HIDE DEF j
<1> QED
  BY <1>1, <1>2, <1>3, Begun DEF CallLabels

(* What retained revisions show of an asset is available.                   *)
LEMMA ShownAvailable ==
  ASSUME Safe, NEW l \in Layer, layers[l] # None, NEW n \in 1..layers[l].revision,
         NEW ref \in revisions[l][n].features
  PROVE  /\ ref \in Ref /\ Available(ref[1])
         /\ ref[2] \in media[ref[1]].versions /\ ref[2] \in media[ref[1]].retained
         /\ revisions[l][n] # None
<1>1. layers[l] \in LayerHead
  BY DEF Safe, StoresSafe, StoresTyped
<1>2. n \in Revision
  BY <1>1, ConstantsAssumption DEF LayerHead, Revision
<1>3. revisions[l][n] # None /\ Referable(revisions[l][n].features)
  BY DEF Safe, StoresSafe, ReferencesHeld
<1>4. revisions[l][n] \in LayerDocument
  BY <1>2, <1>3 DEF Safe, StoresSafe, StoresTyped
<1> QED
  BY <1>3, <1>4 DEF Referable, LayerDocument

LEMMA ImportMediaSafe ==
  ASSUME Safe, NEW c \in Client, NEW a \in Asset, NEW v \in Version, ImportMedia(c, a, v)
  PROVE  Safe'
<1> DEFINE document == [revision |-> 1, deleted |-> FALSE, versions |-> {v}, retained |-> {v}]
<1>1. document \in MediaHead
  BY ConstantsAssumption DEF ImportMedia, MediaHead, MediaRevision
<1>2. DocumentFits(a, document)
  <2>1. media[a] = None
    BY DEF ImportMedia
  <2>2. \A l \in Layer : layers[l] # None =>
          \A n \in 1..layers[l].revision : \A ref \in revisions[l][n].features : ref[1] # a
    BY <2>1, ShownAvailable DEF Available
  <2> HIDE DEF document
  <2> QED
    BY <1>1, <2>1, <2>2 DEF DocumentFits
<1>3. Mutates(c) /\ PublishMedia(c, a, v, document)
  BY DEF ImportMedia
<1>4. \A w \in document.retained : w = v
  OBVIOUS
<1> HIDE DEF document
<1> QED
  BY <1>1, <1>2, <1>3, <1>4, MediaBegun

(* An available asset, and what it retains.                                 *)
LEMMA AvailableTyped ==
  ASSUME Safe, NEW a \in Asset, Available(a)
  PROVE  /\ media[a] \in MediaHead /\ media[a].revision \in MediaRevision
         /\ media[a].versions \subseteq Version /\ media[a].retained \subseteq Version
         /\ \A v \in media[a].retained : Stored(a, v)
<1>1. media[a] \in MediaHead
  BY DEF Safe, StoresSafe, StoresTyped, Available
<1>2. \A v \in media[a].retained : Stored(a, v)
  BY DEF Safe, StoresSafe, ReferencesHeld, Available, Stored
<1> QED
  BY <1>1, <1>2 DEF MediaHead

LEMMA AddVersionSafe ==
  ASSUME Safe, NEW c \in Client, NEW a \in Asset, NEW v \in Version, NEW n \in MediaRevision,
         AddVersion(c, a, v, n)
  PROVE  Safe'
<1> DEFINE document == [revision |-> n + 1, deleted |-> FALSE,
                        versions |-> media[a].versions \cup {v},
                        retained |-> media[a].retained \cup {v}]
<1>1. Mutates(c) /\ Available(a) /\ n = media[a].revision /\ n < MaxMedia /\ PublishMedia(c, a, v, document)
  BY DEF AddVersion
<1>2. n + 1 \in MediaRevision
  BY <1>1, ConstantsAssumption DEF MediaRevision
<1>3. document \in MediaHead
  BY <1>1, <1>2, AvailableTyped DEF MediaHead
<1>4. \A w \in document.retained : w = v \/ Stored(a, w)
  BY <1>1, AvailableTyped
<1>5. DocumentFits(a, document)
  <2>1. /\ ~document.deleted /\ document.revision = media[a].revision + 1
        /\ media[a].retained \subseteq document.retained
        /\ media[a].versions \subseteq document.versions
    BY <1>1
  <2> HIDE DEF document
  <2> QED
    BY <1>1, <1>3, <2>1, ShownAvailable DEF DocumentFits, Available
<1> HIDE DEF document
<1> QED
  BY <1>1, <1>3, <1>4, <1>5, MediaBegun

(* An asset of which something is removed.                                  *)
LEMMA RemovalBegun ==
  ASSUME Safe, NEW c \in Client, NEW a \in Asset, NEW v \in Version \cup {None},
         NEW document \in MediaHead,
         Mutates(c), Begins(c, "media", [NoJob EXCEPT !.ref = <<a, v>>, !.document = document]),
         Available(a), DocumentFits(a, document), document.retained = media[a].retained
  PROVE  Safe'
<1> DEFINE j == [NoJob EXCEPT !.ref = <<a, v>>, !.document = document]
<1>1. j \in Jobs /\ j.ref = <<a, v>> /\ j.document = document
  BY FreshTyped DEF NoJob, Jobs
<1>2. Ready("media", j)
  BY <1>1, AvailableTyped DEF Ready, DocumentReady
<1> HIDE DEF j
<1>3. Begins(c, "media", j)
  BY DEF j
<1> QED
  BY <1>1, <1>2, <1>3, Begun DEF CallLabels

LEMMA DeleteMediaSafe ==
  ASSUME Safe, NEW c \in Client, NEW a \in Asset, NEW n \in MediaRevision, DeleteMedia(c, a, n)
  PROVE  Safe'
<1> DEFINE document == [media[a] EXCEPT !.deleted = TRUE]
<1>1. /\ Mutates(c) /\ Available(a)
      /\ Begins(c, "media", [NoJob EXCEPT !.ref = <<a, None>>, !.document = document])
  BY DEF DeleteMedia
<1>2. media[a] \in MediaHead
  BY <1>1, AvailableTyped
<1>3. /\ document \in MediaHead /\ document.deleted
      /\ document.revision = media[a].revision /\ document.retained = media[a].retained
  BY <1>2 DEF MediaHead
<1>4. media[a].revision \in Int
  BY <1>1, AvailableTyped DEF MediaRevision
<1>5. \A l \in Layer : layers[l] # None =>
        \A k \in 1..layers[l].revision : \A ref \in revisions[l][k].features : ref[1] # a
  <2> SUFFICES ASSUME NEW l \in Layer, layers[l] # None, NEW k \in 1..layers[l].revision,
                      NEW ref \in revisions[l][k].features, ref[1] = a
               PROVE  FALSE
    OBVIOUS
  <2>1. ref = <<a, ref[2]>> /\ ref[2] \in Version
    BY ShownAvailable DEF Ref
  <2>2. Shows(l, <<a, ref[2]>>)
    BY <2>1 DEF Shows
  <2> QED
    BY <2>1, <2>2 DEF DeleteMedia
<1> HIDE DEF document
<1>6. DocumentFits(a, document)
  BY <1>1, <1>3, <1>4, <1>5 DEF DocumentFits, Available
<1> QED
  BY <1>1, <1>3, <1>6, RemovalBegun

LEMMA DeleteVersionSafe ==
  ASSUME Safe, NEW c \in Client, NEW a \in Asset, NEW v \in Version, NEW n \in MediaRevision,
         DeleteVersion(c, a, v, n)
  PROVE  Safe'
<1> DEFINE document == [media[a] EXCEPT !.revision = n + 1, !.versions = @ \ {v}]
<1>1. /\ Mutates(c) /\ Available(a) /\ n = media[a].revision /\ n < MaxMedia
      /\ Begins(c, "media", [NoJob EXCEPT !.ref = <<a, v>>, !.document = document])
  BY DEF DeleteVersion
<1>2. media[a] \in MediaHead
  BY <1>1, AvailableTyped
<1>3. n + 1 \in MediaRevision
  BY <1>1, ConstantsAssumption DEF MediaRevision
<1>4. /\ document \in MediaHead /\ ~document.deleted
      /\ document.revision = media[a].revision + 1 /\ document.retained = media[a].retained
      /\ document.versions = media[a].versions \ {v}
  BY <1>1, <1>2, <1>3 DEF MediaHead, Available
<1>5. \A l \in Layer : layers[l] # None =>
        \A k \in 1..layers[l].revision : \A ref \in revisions[l][k].features : ref # <<a, v>>
  BY DEF DeleteVersion, Shows
<1>6. \A l \in Layer : layers[l] # None =>
        \A k \in 1..layers[l].revision : \A ref \in revisions[l][k].features :
          ref[1] = a => ref[2] \in document.versions /\ ref[2] \in document.retained
  <2> SUFFICES ASSUME NEW l \in Layer, layers[l] # None, NEW k \in 1..layers[l].revision,
                      NEW ref \in revisions[l][k].features, ref[1] = a
               PROVE  ref[2] \in document.versions /\ ref[2] \in document.retained
    OBVIOUS
  <2>1. ref = <<a, ref[2]>> /\ ref[2] \in media[a].versions /\ ref[2] \in media[a].retained
    BY ShownAvailable DEF Ref
  <2>2. ref[2] # v
    BY <1>5, <2>1
  <2> QED
    BY <1>4, <2>1, <2>2
<1> HIDE DEF document
<1>7. DocumentFits(a, document)
  BY <1>1, <1>4, <1>6 DEF DocumentFits, Available
<1> QED
  BY <1>1, <1>4, <1>7, RemovalBegun

(* No mutation begins that makes the state unsafe.                          *)
LEMMA MutationSafe ==
  ASSUME Safe, NEW c \in Client, Mutation(c)
  PROVE  Safe'
  BY CreateLayerSafe, ReplaceLayerSafe, CopyLayerSafe, DeleteLayerSafe, CreateMapSafe,
    ReplaceMapSafe, SetBindingSafe, DeleteMapSafe, ImportMediaSafe, AddVersionSafe,
    DeleteMediaSafe, DeleteVersionSafe DEF Mutation

-----------------------------------------------------------------------------
(* Readers go on.                                                           *)

LEMMA ViewTyped ==
  ASSUME Safe, NEW r \in Reader
  PROVE  /\ view[r] \in Views /\ Served(at[r], view[r]) /\ at[r] \in ReaderLabels
         /\ view[r].todo \subseteq Layer /\ view[r].refs \subseteq Ref
         /\ view[r].found \subseteq Ref
<1>1. view[r] \in Views /\ at[r] \in ReaderLabels
  BY DEF Safe, ReadersSafe, ReadersTyped, ReaderLabels
<1>2. Served(at[r], view[r])
  BY DEF Safe, ReadersSafe, ViewsServed
<1> QED
  BY <1>1, <1>2 DEF Views

LEMMA ReadMapSafe ==
  ASSUME Safe, NEW r \in Reader, NEW m \in Map, ReadMap(r, m)
  PROVE  Safe'
<1> DEFINE todo == {maps[m].bindings[b] : b \in Binding} \ {None}
           v == [NoView EXCEPT !.map = m, !.todo = todo]
<1>1. maps[m] \in MapDocument /\ Bindable(maps[m].bindings)
  BY DEF ReadMap, Safe, StoresSafe, StoresTyped, ReferencesHeld
<1>2. maps[m].bindings \in Bindings
  BY <1>1 DEF MapDocument
<1>3. todo \subseteq Layer
  BY <1>2 DEF Bindings
<1>4. \A l \in todo : layers[l] # None
  BY <1>1 DEF Bindable, Published
<1> HIDE DEF todo
<1>5. v \in Views /\ v.map = m /\ v.todo = todo /\ v.refs = {} /\ v.found = {}
  BY <1>3, FreshTyped DEF NoView, Views
<1> HIDE DEF v
<1>6. Served("reading", v)
  BY <1>4, <1>5 DEF Served
<1>7. Goes(r, "reading", v)
  BY DEF ReadMap, v, todo
<1> QED
  BY <1>5, <1>6, <1>7, Gone DEF ReaderLabels

LEMMA ReadLayerSafe ==
  ASSUME Safe, NEW r \in Reader, NEW l \in Layer, ReadLayer(r, l)
  PROVE  Safe'
<1>1. /\ view[r] \in Views /\ Served("reading", view[r]) /\ view[r].refs = {}
      /\ l \in view[r].todo
  BY ViewTyped DEF ReadLayer
<1>2. layers[l] # None /\ layers[l] \in LayerHead
  BY <1>1 DEF Served, Safe, StoresSafe, StoresTyped
<1>3. CASE Published(l)
  <2> DEFINE v == [view[r] EXCEPT !.layer = l, !.revision = layers[l].revision]
  <2>1. layers[l].revision \in 1..MaxRevision
    BY <1>2 DEF LayerHead, Revision
  <2>2. layers[l].revision \in 0..MaxRevision /\ layers[l].revision \in 1..layers[l].revision
    BY <2>1, ConstantsAssumption
  <2>3. /\ v \in Views /\ v.layer = l /\ v.revision = layers[l].revision
        /\ v.todo = view[r].todo /\ v.refs = view[r].refs /\ v.found = view[r].found
    BY <1>1, <2>2 DEF Views
  <2> HIDE DEF v
  <2>4. Served("revision", v)
    BY <1>1, <1>2, <2>2, <2>3 DEF Served
  <2>5. Goes(r, "revision", v)
    BY <1>3 DEF ReadLayer, v
  <2> QED
    BY <2>3, <2>4, <2>5, Gone DEF ReaderLabels
<1>4. CASE ~Published(l)
  <2> DEFINE v == [view[r] EXCEPT !.layer = l]
  <2>1. /\ v \in Views /\ v.layer = l /\ v.map = view[r].map
        /\ v.todo = view[r].todo /\ v.refs = view[r].refs /\ v.found = view[r].found
    BY <1>1 DEF Views
  <2> HIDE DEF v
  <2>2. layers[l].deleted
    BY <1>2, <1>4 DEF Published
  <2>3. Served("conflict", v)
    BY <1>1, <1>2, <2>1, <2>2 DEF Served
  <2>4. Goes(r, "conflict", v)
    BY <1>4 DEF ReadLayer, v
  <2> QED
    BY <2>1, <2>3, <2>4, Gone DEF ReaderLabels
<1> QED
  BY <1>3, <1>4

LEMMA ReadRetainedSafe ==
  ASSUME Safe, NEW r \in Reader, NEW l \in Layer, NEW n \in Revision, ReadRetained(r, l, n)
  PROVE  Safe'
<1> DEFINE v == [NoView EXCEPT !.layer = l, !.revision = n]
<1>1. n \in 0..MaxRevision
  BY ConstantsAssumption DEF Revision
<1>2. v \in Views /\ v.layer = l /\ v.revision = n /\ v.todo = {} /\ v.refs = {} /\ v.found = {}
  BY <1>1, FreshTyped DEF NoView, Views
<1> HIDE DEF v
<1>3. Served("revision", v)
  BY <1>2 DEF Served, ReadRetained
<1>4. Goes(r, "revision", v)
  BY DEF ReadRetained, v
<1> QED
  BY <1>2, <1>3, <1>4, Gone DEF ReaderLabels

LEMMA RetiredSafe ==
  ASSUME Safe, NEW r \in Reader, Goes(r, "idle", NoView)
  PROVE  Safe'
  BY Gone, FreshTyped, FreshReady DEF ReaderLabels

LEMMA ReadRevisionSafe ==
  ASSUME Safe, NEW r \in Reader, ReadRevision(r)
  PROVE  Safe'
<1> DEFINE l == view[r].layer
           document == revisions[l][view[r].revision]
           v == [view[r] EXCEPT !.todo = @ \ {l}, !.layer = None, !.revision = 0,
                                !.refs = document.features \ view[r].found]
<1>1. /\ view[r] \in Views /\ Served("revision", view[r])
      /\ view[r].todo \subseteq Layer /\ view[r].found \subseteq Ref
  BY ViewTyped DEF ReadRevision
<1>2. l \in Layer /\ layers[l] # None /\ view[r].revision \in 1..layers[l].revision
  BY <1>1 DEF Served
<1>3. /\ document # None /\ document.features \subseteq Ref
      /\ \A ref \in document.features : Retained(ref)
  <2>1. document # None
    BY <1>2 DEF Safe, StoresSafe, ReferencesHeld
  <2> QED
    BY <1>2, <2>1, ShownAvailable DEF Retained, Available
<1>4. CASE view[r].map = None
  BY <1>3, <1>4, RetiredSafe DEF ReadRevision
<1>5. CASE view[r].map # None
  <2>1. view[r].map \in Map
    BY <1>1, <1>5 DEF Views
  <2> HIDE DEF document
  <2>2. /\ v \in Views /\ v.map = view[r].map /\ v.todo = view[r].todo \ {l}
        /\ v.refs = document.features \ view[r].found /\ v.found = view[r].found
    <3> DEFINE rest == view[r].todo \ {l}
               shown == document.features \ view[r].found
    <3>1. rest \in SUBSET Layer /\ shown \in SUBSET Ref /\ 0 \in 0..MaxRevision
      BY <1>1, <1>3, ConstantsAssumption
    <3> HIDE DEF rest, shown
    <3>2. v = [view[r] EXCEPT !.todo = rest, !.layer = None, !.revision = 0, !.refs = shown]
      BY DEF rest, shown
    <3>3. /\ v \in Views /\ v.map = view[r].map /\ v.todo = rest
          /\ v.refs = shown /\ v.found = view[r].found
      BY <1>1, <3>1, <3>2 DEF Views
    <3> QED
      BY <3>3 DEF rest, shown
  <2>3. Goes(r, "reading", v)
    BY <1>3, <1>5 DEF ReadRevision, document
  <2> HIDE DEF v
  <2>4. Served("reading", v)
    BY <1>1, <1>3, <2>1, <2>2 DEF Served
  <2> QED
    BY <2>2, <2>3, <2>4, Gone DEF ReaderLabels
<1> QED
  BY <1>4, <1>5

LEMMA ReadMediaSafe ==
  ASSUME Safe, NEW r \in Reader, NEW ref \in Ref, ReadMedia(r, ref)
  PROVE  Safe'
<1> DEFINE v == [view[r] EXCEPT !.ref = ref]
<1>1. view[r] \in Views /\ Served("reading", view[r]) /\ ref \in view[r].refs
  BY ViewTyped DEF ReadMedia
<1>2. Retained(ref)
  BY <1>1 DEF Served
<1>3. /\ v \in Views /\ v.ref = ref /\ v.map = view[r].map
      /\ v.todo = view[r].todo /\ v.refs = view[r].refs /\ v.found = view[r].found
  BY <1>1 DEF Views
<1> HIDE DEF v
<1>4. Served("version", v)
  BY <1>1, <1>2, <1>3 DEF Served
<1>5. Goes(r, "version", v)
  BY <1>2 DEF ReadMedia, Retained, v
<1> QED
  BY <1>3, <1>4, <1>5, Gone DEF ReaderLabels

(* A retained version is found.                                             *)
LEMMA RetainedStored ==
  ASSUME Safe, NEW ref \in Ref, Retained(ref)
  PROVE  ref \in versions /\ ref[2] \in blobs
<1>1. <<ref[1], ref[2]>> \in versions /\ ref[2] \in blobs
  BY DEF Safe, StoresSafe, ReferencesHeld, Retained, Ref
<1> QED
  BY <1>1 DEF Ref

LEMMA ReadVersionSafe ==
  ASSUME Safe, NEW r \in Reader, ReadVersion(r)
  PROVE  Safe'
<1> DEFINE ref == view[r].ref
           v == [view[r] EXCEPT !.refs = @ \ {ref}, !.ref = None, !.found = @ \cup {ref}]
<1>1. /\ view[r] \in Views /\ Served("version", view[r])
      /\ view[r].refs \subseteq Ref /\ view[r].found \subseteq Ref
  BY ViewTyped DEF ReadVersion
<1>2. ref \in Ref /\ Retained(ref)
  BY <1>1 DEF Served
<1>3. ref \in versions
  BY <1>2, RetainedStored
<1>4. /\ v \in Views /\ v.map = view[r].map /\ v.todo = view[r].todo
      /\ v.refs = view[r].refs \ {ref} /\ v.found = view[r].found \cup {ref}
  BY <1>1, <1>2 DEF Views
<1>5. Goes(r, "reading", v)
  BY <1>3 DEF ReadVersion
<1> HIDE DEF v, ref
<1>6. Served("reading", v)
  BY <1>1, <1>2, <1>4 DEF Served
<1> QED
  BY <1>4, <1>5, <1>6, Gone DEF ReaderLabels

LEMMA SnapshotReadSafe ==
  ASSUME Safe, NEW r \in Reader, SnapshotRead(r)
  PROVE  Safe'
<1>1. CASE Goes(r, "idle", NoView)
  BY <1>1, RetiredSafe
<1>2. ASSUME NEW ref \in view[r].found, Goes(r, "original", [view[r] EXCEPT !.ref = ref])
      PROVE  Safe'
  <2> DEFINE v == [view[r] EXCEPT !.ref = ref]
  <2>1. view[r] \in Views /\ Served("reading", view[r]) /\ ref \in Ref
    BY <1>2, ViewTyped DEF SnapshotRead
  <2>2. Retained(ref)
    BY <1>2, <2>1 DEF Served
  <2>3. /\ v \in Views /\ v.ref = ref
        /\ v.todo = view[r].todo /\ v.refs = view[r].refs /\ v.found = view[r].found
    BY <2>1 DEF Views
  <2> HIDE DEF v
  <2>4. Served("original", v)
    BY <2>1, <2>2, <2>3 DEF Served
  <2>5. Goes(r, "original", v)
    BY <1>2 DEF v
  <2> QED
    BY <2>3, <2>4, <2>5, Gone DEF ReaderLabels
<1> QED
  BY <1>1, <1>2 DEF SnapshotRead

LEMMA ReadOriginalSafe ==
  ASSUME Safe, NEW r \in Reader, ReadOriginal(r)
  PROVE  Safe'
<1>1. view[r].ref \in Ref /\ Retained(view[r].ref)
  BY ViewTyped DEF ReadOriginal, Served
<1>2. view[r].ref[2] \in blobs
  BY <1>1, RetainedStored
<1> QED
  BY <1>2, RetiredSafe DEF ReadOriginal

(* No reader makes the state unsafe.                                        *)
LEMMA ReadingSafe ==
  ASSUME Safe, NEW r \in Reader, Reading(r)
  PROVE  Safe'
  BY ReadMapSafe, ReadLayerSafe, ReadRetainedSafe, ReadRevisionSafe, ReadMediaSafe,
    ReadVersionSafe, SnapshotReadSafe, ReadOriginalSafe, RetiredSafe DEF Reading, GivesUp

-----------------------------------------------------------------------------
(* Writes land.                                                             *)

(* What CommittedStays says of a step.                                      *)
Advances ==
  /\ \A l \in Layer : layers[l] # None =>
       /\ \A n \in 1..layers[l].revision : revisions'[l][n] = revisions[l][n]
       /\ layers'[l] # layers[l] =>
            /\ layers'[l] # None /\ ~layers[l].deleted
            /\ layers'[l].revision = layers[l].revision + (IF layers'[l].deleted THEN 0 ELSE 1)
  /\ \A a \in Asset : media[a] # None /\ media'[a] # media[a] =>
       /\ media'[a] # None /\ ~media[a].deleted /\ media[a].retained \subseteq media'[a].retained
       /\ media'[a].revision = media[a].revision + (IF media'[a].deleted THEN 0 ELSE 1)
  /\ \A m \in Map : maps[m] # None /\ maps'[m] # maps[m] =>
       maps'[m] = None \/ maps'[m].revision = maps[m].revision + 1

Lands == StoresSafe' /\ (\A label, v : Served(label, v) => Served(label, v)') /\ Advances

LEMMA Busy ==
  ASSUME Safe, NEW c \in Client
  PROVE  /\ Ready(pc[c], job[c]) /\ job[c] \in Jobs /\ pc[c] \in CallLabels
         /\ pc \in [Client -> CallLabels] /\ job \in [Client -> Jobs]
  BY DEF Safe, CallsSafe, CallsTyped, JobsReady, CallLabels

(* ReferencesHeld, part by part.                                            *)
LayersHeld ==
  \A l \in Layer : layers[l] # None =>
    \A n \in 1..layers[l].revision :
      revisions[l][n] # None /\ Referable(revisions[l][n].features)

MediaHeld ==
  \A a \in Asset : media[a] # None =>
    \A v \in media[a].retained : <<a, v>> \in versions /\ v \in blobs

MapsHeld == \A m \in Map : maps[m] # None => Bindable(maps[m].bindings)

LEMMA Parts ==
  /\ StoresSafe <=> StoresTyped /\ LayersHeld /\ MediaHeld /\ MapsHeld
  /\ StoresSafe' <=> StoresTyped' /\ LayersHeld' /\ MediaHeld' /\ MapsHeld'
  BY DEF StoresSafe, ReferencesHeld, LayersHeld, MediaHeld, MapsHeld

(* The revisions a head has committed are not those that are written.       *)
LEMMA RevisionLands ==
  ASSUME Safe, NEW c \in Client, RevisionWritten(c)
  PROVE  Lands /\ \A j : j = job[c] => HeadReady(j)'
<1> DEFINE l == job[c].layer
           n == job[c].head.revision
           document == [features |-> job[c].features]
<1>1. RevisionReady(job[c])
  BY Busy DEF RevisionWritten, Ready
<1>2. l \in Layer /\ n \in Revision /\ document \in LayerDocument
  BY <1>1 DEF RevisionReady, HeadFits, LayerHead, LayerDocument
<1>3. revisions' = [revisions EXCEPT ![l][n] = document]
  BY DEF RevisionWritten
<1>4. UNCHANGED <<layers, media, versions, blobs, maps>>
  BY DEF RevisionWritten
<1>5. revisions \in [Layer -> [Revision -> LayerDocument \cup {None}]]
  BY DEF Safe, StoresSafe, StoresTyped
<1> HIDE DEF document
<1>6. /\ revisions' \in [Layer -> [Revision -> LayerDocument \cup {None}]]
      /\ revisions'[l][n] = document
  BY <1>2, <1>3, <1>5
<1>7. \A k \in Layer : layers[k] # None =>
        \A i \in 1..layers[k].revision : revisions'[k][i] = revisions[k][i]
  <2> SUFFICES ASSUME NEW k \in Layer, layers[k] # None, NEW i \in 1..layers[k].revision
               PROVE  revisions'[k][i] = revisions[k][i]
    OBVIOUS
  <2>1. layers[k] \in LayerHead
    BY DEF Safe, StoresSafe, StoresTyped
  <2>2. i \in Revision /\ layers[k].revision \in Int
    BY <2>1, ConstantsAssumption DEF LayerHead, Revision
  <2>3. k = l => i # n
    BY <1>1, <2>2 DEF RevisionReady, HeadFits
  <2> QED
    BY <1>2, <1>3, <1>5, <2>2, <2>3
<1>8. \A features : Referable(features) => Referable(features)'
  BY <1>4 DEF Referable, Available
<1>9. StoresSafe'
  <2>1. StoresTyped'
    BY <1>4, <1>6 DEF Safe, StoresSafe, StoresTyped
  <2>2. \A k \in Layer : layers'[k] # None =>
          \A i \in 1..layers'[k].revision :
            revisions'[k][i] # None /\ Referable(revisions[k][i].features)'
    BY <1>4, <1>7, <1>8 DEF Safe, StoresSafe, ReferencesHeld
  <2>3. ReferencesHeld'
    BY <1>4, <1>7, <2>2 DEF Safe, StoresSafe, ReferencesHeld, Referable, Available, Bindable, Published
  <2> QED
    BY <2>1, <2>3 DEF StoresSafe
<1>10. \A label, v : Served(label, v) => Served(label, v)'
  BY <1>4 DEF Served, Retained
<1>11. Advances
  BY <1>4, <1>7 DEF Advances
<1>12. ASSUME NEW j, j = job[c] PROVE HeadReady(j)'
  <2>1. document # None /\ document.features = j.features
    BY <1>2, <1>12, ConstantsAssumption DEF document
  <2>2. revisions'[j.layer][j.head.revision] = document
    BY <1>6, <1>12
  <2>3. HeadFits(j.layer, j.head)' /\ ~j.head.deleted /\ Referable(j.features)'
    BY <1>1, <1>4, <1>8, <1>12 DEF RevisionReady, HeadFits
  <2> QED
    BY <2>1, <2>2, <2>3 DEF HeadReady
<1> QED
  BY <1>9, <1>10, <1>11, <1>12 DEF Lands

LEMMA LayerLands ==
  ASSUME Safe, NEW c \in Client, LayerWritten(c)
  PROVE  Lands
<1> DEFINE l == job[c].layer
           head == job[c].head
<1>1. HeadReady(job[c])
  BY Busy DEF LayerWritten, Ready
<1>2. l \in Layer /\ head \in LayerHead /\ HeadFits(l, head)
  BY <1>1 DEF HeadReady, HeadFits
<1>3. layers' = [layers EXCEPT ![l] = head]
  BY DEF LayerWritten
<1>4. UNCHANGED <<revisions, media, versions, blobs, maps>>
  BY DEF LayerWritten
<1>5. layers \in [Layer -> LayerHead \cup {None}] /\ head # None
  BY <1>2, ConstantsAssumption DEF Safe, StoresSafe, StoresTyped
<1> HIDE DEF l, head
<1>6. layers' \in [Layer -> LayerHead \cup {None}] /\ layers'[l] = head
      /\ \A k \in Layer : k # l => layers'[k] = layers[k]
  BY <1>2, <1>3, <1>5
<1>7. \A features : Referable(features) => Referable(features)'
  BY <1>4 DEF Referable, Available
<1>8. \A k \in Layer : layers'[k] # None => \A n \in 1..layers'[k].revision :
        \/ layers[k] # None /\ n \in 1..layers[k].revision
        \/ k = l /\ n = head.revision /\ ~head.deleted
  BY <1>2, <1>5, <1>6, ConstantsAssumption DEF HeadFits, LayerHead, Revision
<1>9. ~head.deleted =>
        revisions[l][head.revision] # None /\ Referable(revisions[l][head.revision].features)
  BY <1>1 DEF HeadReady, l, head
<1>10. LayersHeld'
  <2> SUFFICES ASSUME NEW k \in Layer, layers'[k] # None, NEW n \in 1..layers'[k].revision
               PROVE  (revisions[k][n] # None /\ Referable(revisions[k][n].features))'
    BY DEF LayersHeld
  <2>1. revisions[k][n] # None /\ Referable(revisions[k][n].features)
    BY <1>8, <1>9, Parts DEF Safe, LayersHeld
  <2> QED
    BY <1>4, <2>1 DEF Referable, Available
<1>11. MapsHeld'
  <2> SUFFICES ASSUME NEW m \in Map, maps[m] # None, NEW b \in Binding,
                      maps[m].bindings[b] # None
               PROVE  layers'[maps[m].bindings[b]] # None /\ ~layers'[maps[m].bindings[b]].deleted
    BY <1>4 DEF MapsHeld, Bindable, Published
  <2>1. Published(maps[m].bindings[b])
    BY Parts DEF Safe, MapsHeld, Bindable
  <2>2. maps[m].bindings[b] \in Layer
    <3>1. maps[m] \in MapDocument
      BY DEF Safe, StoresSafe, StoresTyped
    <3> QED
      BY <3>1 DEF MapDocument, Bindings
  <2>3. maps[m].bindings[b] = l => ~head.deleted
    BY <1>1 DEF HeadReady, Bound, l, head
  <2> QED
    BY <1>5, <1>6, <2>1, <2>2, <2>3 DEF Published
<1>12. StoresSafe'
  <2>1. StoresTyped'
    BY <1>4, <1>6 DEF Safe, StoresSafe, StoresTyped
  <2>2. MediaHeld'
    BY <1>4, Parts DEF Safe, MediaHeld
  <2> QED
    BY <1>10, <1>11, <2>1, <2>2, Parts
<1>13. \A k \in Layer : layers[k] # None =>
         /\ layers'[k] # None
         /\ layers[k].revision \in Int /\ layers'[k].revision \in Int
         /\ layers[k].revision <= layers'[k].revision
         /\ layers[k].deleted => layers'[k] = layers[k]
  BY <1>2, <1>5, <1>6 DEF HeadFits, LayerHead, Revision
<1>14. ASSUME NEW label, NEW v, Served(label, v) PROVE Served(label, v)'
  <2>1. \A k \in v.todo : layers'[k] # None
    BY <1>3, <1>5, <1>13, <1>14 DEF Served
  <2>2. label = "revision" => /\ v.layer \in Layer /\ layers'[v.layer] # None
                              /\ v.revision \in 1..layers'[v.layer].revision
    BY <1>13, <1>14 DEF Served
  <2>3. label = "conflict" => /\ v.layer \in Layer /\ layers'[v.layer] # None
                              /\ layers'[v.layer].deleted
    BY <1>13, <1>14 DEF Served
  <2> QED
    BY <1>4, <1>14, <2>1, <2>2, <2>3 DEF Served, Retained
<1>15. Advances
  BY <1>2, <1>4, <1>5, <1>6 DEF Advances, HeadFits
<1> QED
  BY <1>12, <1>14, <1>15 DEF Lands

LEMMA MapLands ==
  ASSUME Safe, NEW c \in Client, MapWritten(c)
  PROVE  Lands
<1> DEFINE m == job[c].map
           bound == job[c].bound
<1>1. MapReady(job[c])
  BY Busy DEF MapWritten, Ready
<1>2. maps' = [maps EXCEPT ![m] = bound] /\ UNCHANGED <<layers, revisions, media, versions, blobs>>
  BY DEF MapWritten
<1>3. maps \in [Map -> MapDocument \cup {None}]
  BY DEF Safe, StoresSafe, StoresTyped
<1>4. /\ m \in Map /\ bound \in MapDocument \cup {None}
      /\ bound # None => /\ Bindable(bound.bindings)
                         /\ maps[m] # None => bound.revision = maps[m].revision + 1
  BY <1>1 DEF MapReady
<1> HIDE DEF m, bound
<1>5. /\ maps' \in [Map -> MapDocument \cup {None}] /\ maps'[m] = bound
      /\ \A k \in Map : k # m => maps'[k] = maps[k]
  BY <1>2, <1>3, <1>4
<1>6. MapsHeld'
  <2> SUFFICES ASSUME NEW k \in Map, maps'[k] # None
               PROVE  Bindable(maps[k].bindings)'
    BY DEF MapsHeld
  <2>1. Bindable(maps'[k].bindings)
    BY <1>4, <1>5, Parts DEF Safe, MapsHeld
  <2> QED
    BY <1>2, <2>1 DEF Bindable, Published
<1>7. StoresSafe'
  <2>1. StoresTyped'
    BY <1>2, <1>5 DEF Safe, StoresSafe, StoresTyped
  <2>2. LayersHeld'
    BY <1>2, Parts DEF Safe, LayersHeld, Referable, Available
  <2>3. MediaHeld'
    BY <1>2, Parts DEF Safe, MediaHeld
  <2> QED
    BY <1>6, <2>1, <2>2, <2>3, Parts
<1>8. \A label, v : Served(label, v) => Served(label, v)'
  BY <1>2 DEF Served, Retained
<1>9. Advances
  BY <1>2, <1>4, <1>5 DEF Advances
<1> QED
  BY <1>7, <1>8, <1>9 DEF Lands

LEMMA BlobLands ==
  ASSUME Safe, NEW c \in Client, BlobWritten(c)
  PROVE  Lands /\ \A j : j = job[c] => VersionReady(j)'
<1>1. OriginalReady(job[c])
  BY Busy DEF BlobWritten, Ready
<1>2. /\ blobs' = blobs \cup {job[c].ref[2]} /\ job[c].ref[2] \in Version
      /\ UNCHANGED <<layers, revisions, media, versions, maps>>
  BY <1>1 DEF BlobWritten, OriginalReady, Ref
<1>3. StoresSafe'
  <2>1. StoresTyped'
    BY <1>2 DEF Safe, StoresSafe, StoresTyped
  <2>2. LayersHeld'
    BY <1>2, Parts DEF Safe, LayersHeld, Referable, Available
  <2>3. MediaHeld'
    BY <1>2, Parts DEF Safe, MediaHeld
  <2>4. MapsHeld'
    BY <1>2, Parts DEF Safe, MapsHeld, Bindable, Published
  <2> QED
    BY <2>1, <2>2, <2>3, <2>4, Parts
<1>4. \A label, v : Served(label, v) => Served(label, v)'
  BY <1>2 DEF Served, Retained
<1>5. Advances
  BY <1>2 DEF Advances
<1>6. ASSUME NEW j, j = job[c] PROVE VersionReady(j)'
  <2>1. OriginalReady(j)'
    BY <1>1, <1>2, <1>6 DEF OriginalReady, DocumentFits, Stored
  <2> QED
    BY <1>2, <1>6, <2>1 DEF VersionReady
<1> QED
  BY <1>3, <1>4, <1>5, <1>6 DEF Lands

LEMMA VersionLands ==
  ASSUME Safe, NEW c \in Client, VersionWritten(c)
  PROVE  Lands /\ \A j : j = job[c] => DocumentReady(j)'
<1>1. VersionReady(job[c])
  BY Busy DEF VersionWritten, Ready
<1>2. /\ versions' = versions \cup {job[c].ref} /\ job[c].ref \in Ref
      /\ UNCHANGED <<layers, revisions, media, blobs, maps>>
  BY <1>1 DEF VersionWritten, VersionReady, OriginalReady
<1>3. StoresSafe'
  <2>1. StoresTyped'
    BY <1>2 DEF Safe, StoresSafe, StoresTyped
  <2>2. LayersHeld'
    BY <1>2, Parts DEF Safe, LayersHeld, Referable, Available
  <2>3. MediaHeld'
    BY <1>2, Parts DEF Safe, MediaHeld
  <2>4. MapsHeld'
    BY <1>2, Parts DEF Safe, MapsHeld, Bindable, Published
  <2> QED
    BY <2>1, <2>2, <2>3, <2>4, Parts
<1>4. \A label, v : Served(label, v) => Served(label, v)'
  BY <1>2 DEF Served, Retained
<1>5. Advances
  BY <1>2 DEF Advances
<1>6. ASSUME NEW j, j = job[c] PROVE DocumentReady(j)'
  <2>1. DocumentFits(j.ref[1], j.document)'
    BY <1>1, <1>2, <1>6 DEF VersionReady, OriginalReady, DocumentFits
  <2>2. j.ref = <<j.ref[1], j.ref[2]>>
    BY <1>2, <1>6 DEF Ref
  <2>3. \A v \in j.document.retained : Stored(j.ref[1], v)'
    BY <1>1, <1>2, <1>6, <2>2 DEF VersionReady, OriginalReady, Stored
  <2> QED
    BY <2>1, <2>3 DEF DocumentReady
<1> QED
  BY <1>3, <1>4, <1>5, <1>6 DEF Lands

LEMMA MediaLands ==
  ASSUME Safe, NEW c \in Client, MediaWritten(c)
  PROVE  Lands
<1> DEFINE a == job[c].ref[1]
           document == job[c].document
<1>1. DocumentReady(job[c])
  BY Busy DEF MediaWritten, Ready
<1>2. /\ media' = [media EXCEPT ![a] = document]
      /\ UNCHANGED <<layers, revisions, versions, blobs, maps>>
  BY DEF MediaWritten
<1>3. media \in [Asset -> MediaHead \cup {None}]
  BY DEF Safe, StoresSafe, StoresTyped
<1>4. /\ DocumentFits(a, document) /\ a \in Asset /\ document \in MediaHead
      /\ \A v \in document.retained : Stored(a, v)
  BY <1>1 DEF DocumentReady, DocumentFits
<1> HIDE DEF a, document
<1>5. /\ media' \in [Asset -> MediaHead \cup {None}] /\ media'[a] = document /\ document # None
      /\ \A k \in Asset : k # a => media'[k] = media[k]
  BY <1>2, <1>3, <1>4, ConstantsAssumption
<1>6. LayersHeld'
  <2> SUFFICES ASSUME NEW l \in Layer, layers[l] # None, NEW n \in 1..layers[l].revision
               PROVE  (revisions[l][n] # None /\ Referable(revisions[l][n].features))'
    BY <1>2 DEF LayersHeld
  <2>1. revisions[l][n] # None /\ Referable(revisions[l][n].features)
    BY Parts DEF Safe, LayersHeld
  <2>2. \A ref \in revisions[l][n].features : ref[1] \in Asset
    BY ShownAvailable DEF Ref
  <2>3. \A ref \in revisions[l][n].features : ref[1] = a =>
          /\ ~document.deleted /\ ref[2] \in document.versions /\ ref[2] \in document.retained
    BY <1>4 DEF DocumentFits
  <2>4. \A ref \in revisions[l][n].features :
          /\ media'[ref[1]] # None /\ ~media'[ref[1]].deleted
          /\ ref[2] \in media'[ref[1]].versions /\ ref[2] \in media'[ref[1]].retained
          /\ ref \in versions
    BY <1>5, <2>1, <2>2, <2>3 DEF Referable, Available
  <2> QED
    BY <1>2, <2>1, <2>4 DEF Referable, Available
<1>7. MediaHeld'
  BY <1>2, <1>4, <1>5, Parts DEF Stored, Safe, MediaHeld
<1>8. StoresSafe'
  <2>1. StoresTyped'
    BY <1>2, <1>5 DEF Safe, StoresSafe, StoresTyped
  <2>2. MapsHeld'
    BY <1>2, Parts DEF Safe, MapsHeld, Bindable, Published
  <2> QED
    BY <1>6, <1>7, <2>1, <2>2, Parts
<1>9. \A ref : Retained(ref) => Retained(ref)'
  BY <1>2, <1>3, <1>4, <1>5 DEF Retained, DocumentFits
<1>10. \A label, v : Served(label, v) => Served(label, v)'
  BY <1>2, <1>9 DEF Served
<1>11. Advances
  BY <1>2, <1>4, <1>5 DEF Advances, DocumentFits
<1> QED
  BY <1>8, <1>10, <1>11 DEF Lands

-----------------------------------------------------------------------------
(* Mutations go on.                                                         *)

LEMMA Alone ==
  ASSUME Safe, NEW c \in Client, pc[c] # "idle", NEW o \in Client, o # c
  PROVE  pc[o] = "idle" /\ job[o] = NoJob
  BY DEF Safe, CallsSafe, CallsTyped, Serial

(* Whatever of a mutation has landed, and whichever write was its last.     *)
LEMMA Settled ==
  ASSUME Safe, NEW c \in Client, pc[c] # "idle", Settles(c)
  PROVE  CallsSafe'
<1>1. pc' \in [Client -> CallLabels] /\ job' \in [Client -> Jobs]
  BY Busy, FreshTyped DEF Settles, CallLabels
<1>2. \A o \in Client : pc'[o] = "idle" /\ job'[o] = NoJob
  BY Busy, Alone DEF Settles
<1>3. JobsReady'
  BY <1>2 DEF JobsReady, Ready
<1> QED
  BY <1>1, <1>2, <1>3 DEF CallsSafe, CallsTyped, CallLabels, Serial

LEMMA Proceeds ==
  ASSUME Safe, NEW c \in Client, pc[c] # "idle", NEW label \in CallLabels \ {"idle"},
         pc' = [pc EXCEPT ![c] = label], UNCHANGED job,
         \A j : j = job[c] => Ready(label, j)'
  PROVE  CallsSafe'
<1>1. pc' \in [Client -> CallLabels] /\ pc'[c] = label
  BY Busy DEF CallLabels
<1>2. \A o \in Client : o # c => pc'[o] = "idle" /\ job'[o] = NoJob
  BY Busy, Alone
<1>3. CallsTyped'
  BY <1>1, <1>2, Busy DEF CallsTyped, CallLabels
<1>4. Serial'
  BY <1>2 DEF Serial
<1>5. JobsReady'
  <2> SUFFICES ASSUME NEW o \in Client PROVE Ready(pc[o], job[o])'
    BY DEF JobsReady
  <2>1. CASE o = c
    BY <1>1, <2>1
  <2>2. CASE o # c
    BY <1>2, <2>2 DEF Ready
  <2> QED
    BY <2>1, <2>2
<1> QED
  BY <1>3, <1>4, <1>5 DEF CallsSafe

LEMMA ReadersStay ==
  ASSUME Safe, Lands, UNCHANGED readers
  PROVE  ReadersSafe'
<1>1. ReadersTyped'
  BY DEF Safe, ReadersSafe, ReadersTyped, readers
<1>2. \A r \in Reader : Served(at[r], view[r])
  BY DEF Safe, ReadersSafe, ViewsServed
<1>3. \A r \in Reader : Served(at[r], view[r])'
  BY <1>2 DEF Lands, readers
<1> QED
  BY <1>1, <1>3 DEF ReadersSafe, ViewsServed

LEMMA WrittenLands ==
  ASSUME Safe, NEW c \in Client, Written(c)
  PROVE  Lands
  BY RevisionLands, LayerLands, MapLands, BlobLands, VersionLands, MediaLands DEF Written

LEMMA NothingLands ==
  ASSUME Safe, UNCHANGED stores
  PROVE  Lands
<1>1. StoresSafe' /\ \A label, v : Served(label, v) => Served(label, v)'
  BY StoresStay DEF Safe
<1>2. Advances
  BY DEF Advances, stores
<1> QED
  BY <1>1, <1>2 DEF Lands

LEMMA WriteSafe ==
  ASSUME Safe, NEW c \in Client, Write(c)
  PROVE  Safe' /\ Lands
<1>1. Lands
  BY WrittenLands DEF Write
<1>2. pc[c] # "idle"
  BY DEF Write, Written, RevisionWritten, LayerWritten, MapWritten, BlobWritten,
    VersionWritten, MediaWritten
<1>3. CallsSafe'
  <2>1. CASE pc[c] = "revision"
    <3>1. RevisionWritten(c) /\ pc' = [pc EXCEPT ![c] = "layer"] /\ UNCHANGED job
      BY <2>1 DEF Write, Then, Written, RevisionWritten, LayerWritten, MapWritten, BlobWritten,
        VersionWritten, MediaWritten
    <3>2. \A j : j = job[c] => HeadReady(j)'
      BY <3>1, RevisionLands
    <3>3. \A j : j = job[c] => Ready("layer", j)'
      BY <3>2 DEF Ready
    <3> QED
      BY <1>2, <3>1, <3>3, Proceeds DEF CallLabels
  <2>2. CASE pc[c] = "blob"
    <3>1. BlobWritten(c) /\ pc' = [pc EXCEPT ![c] = "version"] /\ UNCHANGED job
      BY <2>2 DEF Write, Then, Written, RevisionWritten, LayerWritten, MapWritten, BlobWritten,
        VersionWritten, MediaWritten
    <3>2. \A j : j = job[c] => VersionReady(j)'
      BY <3>1, BlobLands
    <3>3. \A j : j = job[c] => Ready("version", j)'
      BY <3>2 DEF Ready
    <3> QED
      BY <1>2, <3>1, <3>3, Proceeds DEF CallLabels
  <2>3. CASE pc[c] = "version"
    <3>1. VersionWritten(c) /\ pc' = [pc EXCEPT ![c] = "media"] /\ UNCHANGED job
      BY <2>3 DEF Write, Then, Written, RevisionWritten, LayerWritten, MapWritten, BlobWritten,
        VersionWritten, MediaWritten
    <3>2. \A j : j = job[c] => DocumentReady(j)'
      BY <3>1, VersionLands
    <3>3. \A j : j = job[c] => Ready("media", j)'
      BY <3>2 DEF Ready
    <3> QED
      BY <1>2, <3>1, <3>3, Proceeds DEF CallLabels
  <2>4. CASE pc[c] \notin {"revision", "blob", "version"}
    BY <1>2, <2>4, Settled DEF Write
  <2> QED
    BY <2>1, <2>2, <2>3, <2>4
<1>4. ReadersSafe'
  BY <1>1, ReadersStay DEF Write
<1> QED
  BY <1>1, <1>3, <1>4 DEF Safe, Lands

LEMMA FailsSafe ==
  ASSUME Safe, NEW c \in Client, Fails(c)
  PROVE  Safe' /\ Lands
<1>1. Lands
  BY WrittenLands, NothingLands DEF Fails
<1>2. CallsSafe'
  BY Settled DEF Fails
<1>3. ReadersSafe'
  BY <1>1, ReadersStay DEF Fails
<1> QED
  BY <1>1, <1>2, <1>3 DEF Safe, Lands

(* A mutation that begins and a reader write nothing.                       *)
LEMMA MutationBegins ==
  ASSUME NEW c \in Client, Mutation(c)
  PROVE  UNCHANGED stores
  BY DEF Mutation, CreateLayer, ReplaceLayer, CopyLayer, DeleteLayer, CreateMap, ReplaceMap,
    SetBinding, DeleteMap, ImportMedia, AddVersion, DeleteVersion, DeleteMedia, PublishLayer,
    PublishMap, PublishMedia, Begins

LEMMA ReadingReads ==
  ASSUME NEW r \in Reader, Reading(r)
  PROVE  UNCHANGED stores
  BY DEF Reading, ReadMap, ReadLayer, ReadRetained, ReadRevision, ReadMedia, ReadVersion,
    SnapshotRead, ReadOriginal, GivesUp, Goes

-----------------------------------------------------------------------------
(* The theorems.                                                            *)

LEMMA StepSafe ==
  ASSUME Safe, [Next]_vars
  PROVE  Safe' /\ Advances
<1>1. ASSUME NEW c \in Client, Mutation(c) PROVE Safe' /\ Advances
  BY <1>1, MutationSafe, MutationBegins, NothingLands DEF Lands
<1>2. ASSUME NEW c \in Client, Write(c) PROVE Safe' /\ Advances
  BY <1>2, WriteSafe DEF Lands
<1>3. ASSUME NEW c \in Client, Fails(c) PROVE Safe' /\ Advances
  BY <1>3, FailsSafe DEF Lands
<1>4. ASSUME NEW r \in Reader, Reading(r) PROVE Safe' /\ Advances
  BY <1>4, ReadingSafe, ReadingReads, NothingLands DEF Lands
<1>5. CASE UNCHANGED vars
  <2>1. UNCHANGED stores /\ UNCHANGED calls /\ UNCHANGED readers
    BY <1>5 DEF vars
  <2>2. Lands
    BY <2>1, NothingLands
  <2>3. CallsSafe'
    BY <2>1, StoresStay DEF Safe, CallsSafe, CallsTyped, Serial, JobsReady, calls
  <2> QED
    BY <2>1, <2>2, <2>3, ReadersStay DEF Safe, Lands
<1> QED
  BY <1>1, <1>2, <1>3, <1>4, <1>5 DEF Next

(* The inductive invariant: mutations are alone, what each has checked      *)
(* still holds when it writes, and what readers were referred to stays.     *)
THEOREM Invariant == Spec => []Safe
<1>1. Safe /\ [Next]_vars => Safe'
  BY StepSafe
<1> QED
  BY InitSafe, <1>1, PTL DEF Spec

(* Documents, mutations and readers have the shapes of content.ts, and a    *)
(* mutation that has settled leaves nothing behind.                         *)
THEOREM TypeCorrect == Spec => []TypeOK
<1>1. Safe => TypeOK
  BY DEF Safe, TypeOK, StoresSafe, CallsSafe, ReadersSafe
<1> QED
  BY Invariant, <1>1, PTL

(* No reference dangles, through any failed mutations and any repetitions.  *)
THEOREM NothingDangles == Spec => []ReferencesHeld
<1>1. Safe => ReferencesHeld
  BY DEF Safe, StoresSafe
<1> QED
  BY Invariant, <1>1, PTL

(* A reader beside any mutations finds what it was referred to.             *)
THEOREM ReadersFind == Spec => []ReadersServed
<1>1. Safe => ReadersServed
  <2> SUFFICES ASSUME Safe, NEW r \in Reader
               PROVE  /\ at[r] # "missing"
                      /\ at[r] = "conflict" =>
                           LET m == view[r].map IN
                             \/ maps[m] = None
                             \/ \A b \in Binding : maps[m].bindings[b] # view[r].layer
    BY DEF ReadersServed
  <2>1. Served(at[r], view[r])
    BY ViewTyped
  <2>2. at[r] # "missing"
    BY <2>1 DEF Served
  <2>3. ASSUME at[r] = "conflict", maps[view[r].map] # None, NEW b \in Binding
        PROVE  maps[view[r].map].bindings[b] # view[r].layer
    <3>1. /\ view[r].map \in Map /\ view[r].layer \in Layer
          /\ layers[view[r].layer] # None /\ layers[view[r].layer].deleted
      BY <2>1, <2>3 DEF Served
    <3>2. Bindable(maps[view[r].map].bindings)
      BY <2>3, <3>1, Parts DEF Safe, MapsHeld
    <3> QED
      BY <3>1, <3>2, ConstantsAssumption DEF Bindable, Published
  <2> QED
    BY <2>2, <2>3
<1> QED
  BY Invariant, <1>1, PTL

(* No committed revision is written again and no update is lost.            *)
THEOREM NoUpdateLost == Spec => CommittedStays
<1>1. Safe /\ [Next]_vars => [Advances]_vars
  BY StepSafe
<1>2. Spec => [][Advances]_vars
  BY Invariant, <1>1, PTL DEF Spec
<1> QED
  BY <1>2 DEF CommittedStays, Advances
=============================================================================
