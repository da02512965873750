------------------------------ MODULE Content -------------------------------
(***************************************************************************)
(* The content service (content.ts of packages/server/src): layers with     *)
(* their retained revisions, media with their retained versions and         *)
(* originals, maps that bind layers; mutations made of several writes, any  *)
(* of which may fail or be the last before the process dies; readers that   *)
(* look one document up after another and never wait for a mutation.        *)
(*                                                                          *)
(* A document is reduced to what it refers to.  The checks of a mutation    *)
(* are one step: the queue of mutations lets nobody else write meanwhile.   *)
(***************************************************************************)
EXTENDS Integers, FiniteSets

CONSTANTS
  Client,       \* concurrent mutations
  Reader,       \* concurrent readers
  Layer, Asset, Version, Map, Binding,   \* identities
  Features,     \* what layers may show: sets of media versions
  MaxRevision,  \* bound on the revisions of a layer or a map
  MaxMedia,     \* bound on those of an asset
  None

Ref == Asset \X Version
Revision == 1..MaxRevision
MediaRevision == 1..MaxMedia
Bindings == [Binding -> Layer \cup {None}]

LayerDocument == [features : SUBSET Ref]
LayerHead == [revision : Revision, deleted : BOOLEAN]
MediaHead == [revision : MediaRevision, deleted : BOOLEAN, versions : SUBSET Version,
              retained : SUBSET Version]
MapDocument == [revision : Revision, bindings : Bindings]

ASSUME ConstantsAssumption ==
  /\ Features \subseteq SUBSET Ref /\ MaxRevision \in Nat /\ MaxMedia \in Nat
  /\ None \notin Layer \cup Map \cup Version
  /\ None \notin LayerDocument /\ None \notin LayerHead
  /\ None \notin MediaHead /\ None \notin MapDocument

VARIABLES
  \* the stores
  layers,     \* layers/<id>/head.json
  revisions,  \* layers/<id>/revisions/<n>.json: the media it shows
  media,      \* assets/<id>/head.json
  versions,   \* assets/<id>/versions/<version>.json: those that exist
  blobs,      \* the originals that exist
  maps,       \* maps/<id>.json
  \* mutations and readers: how far each is, and its locals
  pc, job, at, view

stores  == <<layers, revisions, media, versions, blobs, maps>>
calls   == <<pc, job>>
readers == <<at, view>>
vars    == <<stores, calls, readers>>

(* What a mutation is about to write.                                       *)
NoJob == [layer |-> None, head |-> None, features |-> {},
          ref |-> None, document |-> None, map |-> None, bound |-> None]

(* What a reader has to look up: the layers of its map, the revision it has *)
(* resolved, media not yet looked up, and those it has found.               *)
NoView == [map |-> None, todo |-> {}, layer |-> None, revision |-> 0,
           refs |-> {}, ref |-> None, found |-> {}]

Init ==
  /\ layers = [l \in Layer |-> None]
  /\ revisions = [l \in Layer |-> [n \in Revision |-> None]]
  /\ media = [a \in Asset |-> None]
  /\ versions = {} /\ blobs = {}
  /\ maps = [m \in Map |-> None]
  /\ pc = [c \in Client |-> "idle"] /\ job = [c \in Client |-> NoJob]
  /\ at = [r \in Reader |-> "idle"] /\ view = [r \in Reader |-> NoView]

-----------------------------------------------------------------------------
(* mutate(): a mutation begins when those called before it have settled.    *)

(* Slip: mutations are not queued.                                          *)
MutatesAtOnce(c) == pc[c] = "idle"

Mutates(c) == \A o \in Client : pc[o] = "idle"

Begins(c, label, j) ==
  /\ pc' = [pc EXCEPT ![c] = label] /\ job' = [job EXCEPT ![c] = j]
  /\ UNCHANGED <<stores, readers>>

Published(l) == layers[l] # None /\ ~layers[l].deleted
Available(a) == media[a] # None /\ ~media[a].deleted

(* checkReferences(): each medium is published, its version among those the *)
(* asset has now and among those it retains.                                *)
Referable(features) ==
  \A ref \in features :
    /\ Available(ref[1])
    /\ ref[2] \in media[ref[1]].versions /\ ref[2] \in media[ref[1]].retained
    /\ ref \in versions

(* An identity nobody has used, not even a mutation that failed.            *)
Unused(l) == layers[l] = None /\ \A n \in Revision : revisions[l][n] = None

PublishLayer(c, l, n, features) ==
  Begins(c, "revision", [NoJob EXCEPT !.layer = l, !.features = features,
                                      !.head = [revision |-> n, deleted |-> FALSE]])

CreateLayer(c, l, features) ==
  /\ Mutates(c) /\ Unused(l) /\ Referable(features) /\ MaxRevision > 0
  /\ PublishLayer(c, l, 1, features)

(* If-Match names the revision that is replaced.                            *)
ReplaceLayer(c, l, n, features) ==
  /\ Mutates(c) /\ Published(l) /\ n = layers[l].revision /\ n < MaxRevision
  /\ Referable(features)
  /\ PublishLayer(c, l, n + 1, features)

CopyLayer(c, l, from) ==
  /\ Mutates(c) /\ Published(from) /\ Unused(l)
  /\ LET document == revisions[from][layers[from].revision] IN
       /\ document # None /\ Referable(document.features)
       /\ PublishLayer(c, l, 1, document.features)

Bound(l) == \E m \in Map : maps[m] # None /\ \E b \in Binding : maps[m].bindings[b] = l

DeleteLayer(c, l, n) ==
  /\ Mutates(c) /\ Published(l) /\ n = layers[l].revision /\ ~Bound(l)
  /\ Begins(c, "layer", [NoJob EXCEPT !.layer = l, !.head = [revision |-> n, deleted |-> TRUE]])

(* checkBindings(): the layers a map binds are published.                   *)
Bindable(bindings) == \A b \in Binding : bindings[b] # None => Published(bindings[b])

PublishMap(c, m, n, bindings) ==
  Begins(c, "map", [NoJob EXCEPT !.map = m, !.bound = [revision |-> n, bindings |-> bindings]])

CreateMap(c, m, bindings) ==
  /\ Mutates(c) /\ maps[m] = None /\ Bindable(bindings) /\ MaxRevision > 0
  /\ PublishMap(c, m, 1, bindings)

ReplaceMap(c, m, n, bindings) ==
  /\ Mutates(c) /\ maps[m] # None /\ n = maps[m].revision /\ n < MaxRevision
  /\ Bindable(bindings)
  /\ PublishMap(c, m, n + 1, bindings)

(* setBinding(): of the bindings only the new one is looked at; None        *)
(* removes one that is there.                                               *)
SetBinding(c, m, n, b, l) ==
  /\ Mutates(c) /\ maps[m] # None /\ n = maps[m].revision /\ n < MaxRevision
  /\ IF l # None THEN Published(l) ELSE maps[m].bindings[b] # None
  /\ PublishMap(c, m, n + 1, [maps[m].bindings EXCEPT ![b] = l])

DeleteMap(c, m, n) ==
  /\ Mutates(c) /\ maps[m] # None /\ n = maps[m].revision
  /\ Begins(c, "map", [NoJob EXCEPT !.map = m])

-----------------------------------------------------------------------------
(* Media.                                                                   *)

PublishMedia(c, a, v, document) ==
  Begins(c, "blob", [NoJob EXCEPT !.ref = <<a, v>>, !.document = document])

(* importMedia() of a new asset.                                            *)
ImportMedia(c, a, v) ==
  /\ Mutates(c) /\ media[a] = None /\ \A w \in Version : <<a, w>> \notin versions
  /\ MaxMedia > 0
  /\ PublishMedia(c, a, v, [revision |-> 1, deleted |-> FALSE,
                            versions |-> {v}, retained |-> {v}])

(* importMedia() of a further version, or of one that was removed.          *)
AddVersion(c, a, v, n) ==
  /\ Mutates(c) /\ Available(a) /\ n = media[a].revision /\ n < MaxMedia
  /\ PublishMedia(c, a, v, [revision |-> n + 1, deleted |-> FALSE,
                            versions |-> media[a].versions \cup {v},
                            retained |-> media[a].retained \cup {v}])

(* Slip: only the revisions that are published now are looked at.           *)
ShowsLatest(l, ref) ==
  layers[l] # None /\ ref \in revisions[l][layers[l].revision].features

(* Every retained revision counts, those of a deleted layer too; one that   *)
(* cannot be read refuses the deletion as well.                             *)
Shows(l, ref) ==
  /\ layers[l] # None
  /\ \E n \in 1..layers[l].revision :
       revisions[l][n] = None \/ ref \in revisions[l][n].features

DeleteMedia(c, a, n) ==
  /\ Mutates(c) /\ Available(a) /\ n = media[a].revision
  /\ \A l \in Layer, v \in Version : ~Shows(l, <<a, v>>)
  /\ Begins(c, "media", [NoJob EXCEPT !.ref = <<a, None>>,
                                      !.document = [media[a] EXCEPT !.deleted = TRUE]])

DeleteVersion(c, a, v, n) ==
  /\ Mutates(c) /\ Available(a) /\ n = media[a].revision /\ n < MaxMedia
  /\ v \in media[a].versions /\ media[a].versions # {v}
  /\ \A l \in Layer : ~Shows(l, <<a, v>>)
  /\ Begins(c, "media", [NoJob EXCEPT !.ref = <<a, v>>,
                 !.document = [media[a] EXCEPT !.revision = n + 1, !.versions = @ \ {v}]])

-----------------------------------------------------------------------------
(* The writes of a mutation, one after the other.                           *)

(* Slip: the head is written before the revision it names.                  *)
RevisionWrittenLast(c) ==
  /\ pc[c] = "revision"
  /\ layers' = [layers EXCEPT ![job[c].layer] = job[c].head]
  /\ UNCHANGED <<revisions, media, versions, blobs, maps>>

RevisionWritten(c) ==
  /\ pc[c] = "revision"
  /\ revisions' = [revisions EXCEPT ![job[c].layer][job[c].head.revision] = [features |-> job[c].features]]
  /\ UNCHANGED <<layers, media, versions, blobs, maps>>

LayerWritten(c) ==
  /\ pc[c] = "layer"
  /\ layers' = [layers EXCEPT ![job[c].layer] = job[c].head]
  /\ UNCHANGED <<revisions, media, versions, blobs, maps>>

MapWritten(c) ==
  /\ pc[c] = "map"
  /\ maps' = [maps EXCEPT ![job[c].map] = job[c].bound]
  /\ UNCHANGED <<layers, revisions, media, versions, blobs>>

(* ensureOriginal() of the repository.                                      *)
BlobWritten(c) ==
  /\ pc[c] = "blob"
  /\ blobs' = blobs \cup {job[c].ref[2]}
  /\ UNCHANGED <<layers, revisions, media, versions, maps>>

VersionWritten(c) ==
  /\ pc[c] = "version"
  /\ versions' = versions \cup {job[c].ref}
  /\ UNCHANGED <<layers, revisions, media, blobs, maps>>

MediaWritten(c) ==
  /\ pc[c] = "media"
  /\ media' = [media EXCEPT ![job[c].ref[1]] = job[c].document]
  /\ UNCHANGED <<layers, revisions, versions, blobs, maps>>

Written(c) ==
  \/ RevisionWritten(c) \/ LayerWritten(c) \/ MapWritten(c)
  \/ BlobWritten(c) \/ VersionWritten(c) \/ MediaWritten(c)

(* Slip: what the mutation read and built is kept.                          *)
SettlesKeepingLocals(c) == pc' = [pc EXCEPT ![c] = "idle"] /\ UNCHANGED job

Settles(c) == pc' = [pc EXCEPT ![c] = "idle"] /\ job' = [job EXCEPT ![c] = NoJob]

(* What is written next.                                                    *)
Then(label) ==
  CASE label = "revision" -> "layer"
    [] label = "blob" -> "version"
    [] label = "version" -> "media"

Write(c) ==
  /\ Written(c)
  /\ IF pc[c] \in {"revision", "blob", "version"}
     THEN pc' = [pc EXCEPT ![c] = Then(pc[c])] /\ UNCHANGED job
     ELSE Settles(c)
  /\ UNCHANGED readers

(* A write fails, or the process dies: it has landed or not, and what was   *)
(* written before it stays.                                                 *)
Fails(c) ==
  /\ pc[c] # "idle"
  /\ Written(c) \/ UNCHANGED stores
  /\ Settles(c)
  /\ UNCHANGED readers

-----------------------------------------------------------------------------
(* Readers.                                                                 *)

Goes(r, label, v) ==
  /\ at' = [at EXCEPT ![r] = label] /\ view' = [view EXCEPT ![r] = v]
  /\ UNCHANGED <<stores, calls>>

(* snapshot() reads the map, and then the layers it binds, one by one, each *)
(* with the media it shows.                                                 *)
ReadMap(r, m) ==
  /\ at[r] = "idle" /\ maps[m] # None
  /\ Goes(r, "reading", [NoView EXCEPT !.map = m,
             !.todo = {maps[m].bindings[b] : b \in Binding} \ {None}])

(* getLayer(): the head; a layer that is gone is a conflict.                *)
ReadLayer(r, l) ==
  /\ at[r] = "reading" /\ l \in view[r].todo /\ view[r].refs = {}
  /\ IF Published(l)
     THEN Goes(r, "revision", [view[r] EXCEPT !.layer = l, !.revision = layers[l].revision])
     ELSE Goes(r, "conflict", [view[r] EXCEPT !.layer = l])

(* getLayer() of a retained revision, of a deleted layer too.               *)
ReadRetained(r, l, n) ==
  /\ at[r] = "idle" /\ layers[l] # None /\ n \in 1..layers[l].revision
  /\ Goes(r, "revision", [NoView EXCEPT !.layer = l, !.revision = n])

(* The document the head named.                                             *)
ReadRevision(r) ==
  /\ at[r] = "revision"
  /\ LET document == revisions[view[r].layer][view[r].revision] IN
     IF document = None THEN Goes(r, "missing", view[r])
     ELSE IF view[r].map = None THEN Goes(r, "idle", NoView)
     ELSE Goes(r, "reading", [view[r] EXCEPT
            !.todo = @ \ {view[r].layer}, !.layer = None, !.revision = 0,
            !.refs = document.features \ view[r].found])

(* getMediaVersion(): retained, whatever has become of the asset.           *)
ReadMedia(r, ref) ==
  /\ at[r] = "reading" /\ ref \in view[r].refs
  /\ IF media[ref[1]] # None /\ ref[2] \in media[ref[1]].retained
     THEN Goes(r, "version", [view[r] EXCEPT !.ref = ref])
     ELSE Goes(r, "missing", view[r])

ReadVersion(r) ==
  /\ at[r] = "version"
  /\ LET ref == view[r].ref IN
     IF ref \in versions
     THEN Goes(r, "reading", [view[r] EXCEPT !.refs = @ \ {ref}, !.ref = None,
                                             !.found = @ \cup {ref}])
     ELSE Goes(r, "missing", view[r])

(* The snapshot is complete; openPublicMedia() goes on to one of its media. *)
SnapshotRead(r) ==
  /\ at[r] = "reading" /\ view[r].todo = {} /\ view[r].refs = {}
  /\ \/ Goes(r, "idle", NoView)
     \/ \E ref \in view[r].found : Goes(r, "original", [view[r] EXCEPT !.ref = ref])

(* mediaObject(): the original is there.                                    *)
ReadOriginal(r) ==
  /\ at[r] = "original"
  /\ IF view[r].ref[2] \in blobs THEN Goes(r, "idle", NoView) ELSE Goes(r, "missing", view[r])

(* A read fails, or an error has been reported.                             *)
GivesUp(r) ==
  /\ at[r] # "idle"
  /\ Goes(r, "idle", NoView)

Mutation(c) ==
  \/ \E l \in Layer, f \in Features : CreateLayer(c, l, f)
  \/ \E l \in Layer, n \in Revision, f \in Features : ReplaceLayer(c, l, n, f)
  \/ \E l, from \in Layer : CopyLayer(c, l, from)
  \/ \E l \in Layer, n \in Revision : DeleteLayer(c, l, n)
  \/ \E m \in Map, bs \in Bindings : CreateMap(c, m, bs)
  \/ \E m \in Map, n \in Revision, bs \in Bindings : ReplaceMap(c, m, n, bs)
  \/ \E m \in Map, n \in Revision, b \in Binding, l \in Layer \cup {None} : SetBinding(c, m, n, b, l)
  \/ \E m \in Map, n \in Revision : DeleteMap(c, m, n)
  \/ \E a \in Asset, v \in Version : ImportMedia(c, a, v)
  \/ \E a \in Asset, v \in Version, n \in MediaRevision : AddVersion(c, a, v, n) \/ DeleteVersion(c, a, v, n)
  \/ \E a \in Asset, n \in MediaRevision : DeleteMedia(c, a, n)

Reading(r) ==
  \/ \E m \in Map : ReadMap(r, m)
  \/ \E l \in Layer : ReadLayer(r, l) \/ \E n \in Revision : ReadRetained(r, l, n)
  \/ \E ref \in Ref : ReadMedia(r, ref)
  \/ ReadRevision(r) \/ ReadVersion(r) \/ SnapshotRead(r) \/ ReadOriginal(r) \/ GivesUp(r)

Next ==
  \/ \E c \in Client : Mutation(c) \/ Write(c) \/ Fails(c)
  \/ \E r \in Reader : Reading(r)

Spec == Init /\ [][Next]_vars

-----------------------------------------------------------------------------
StoresTyped ==
  /\ layers \in [Layer -> LayerHead \cup {None}]
  /\ revisions \in [Layer -> [Revision -> LayerDocument \cup {None}]]
  /\ media \in [Asset -> MediaHead \cup {None}]
  /\ versions \subseteq Ref /\ blobs \subseteq Version
  /\ maps \in [Map -> MapDocument \cup {None}]

Jobs == [layer : Layer \cup {None}, head : LayerHead \cup {None}, features : SUBSET Ref,
         ref : (Asset \X (Version \cup {None})) \cup {None}, document : MediaHead \cup {None},
         map : Map \cup {None}, bound : MapDocument \cup {None}]

CallsTyped ==
  /\ pc \in [Client -> {"idle", "revision", "layer", "map", "blob", "version", "media"}]
  /\ job \in [Client -> Jobs]
  /\ \A c \in Client : pc[c] = "idle" => job[c] = NoJob

Views == [map : Map \cup {None}, todo : SUBSET Layer, layer : Layer \cup {None},
          revision : 0..MaxRevision, refs : SUBSET Ref, ref : Ref \cup {None},
          found : SUBSET Ref]

ReadersTyped ==
  /\ at \in [Reader -> {"idle", "reading", "revision", "version", "original", "conflict", "missing"}]
  /\ view \in [Reader -> Views]

(* Shapes, and nothing left behind by a mutation that has settled.          *)
TypeOK == StoresTyped /\ CallsTyped /\ ReadersTyped

(* What a retained revision shows is an available asset that has the        *)
(* version, what an asset retains is there with its original, and what a    *)
(* map binds is published: through every failed mutation and its repetition.*)
ReferencesHeld ==
  /\ \A l \in Layer : layers[l] # None =>
       \A n \in 1..layers[l].revision :
            revisions[l][n] # None /\ Referable(revisions[l][n].features)
  /\ \A a \in Asset : media[a] # None =>
       \A v \in media[a].retained : <<a, v>> \in versions /\ v \in blobs
  /\ \A m \in Map : maps[m] # None => Bindable(maps[m].bindings)

(* A reader that looks documents up one by one, beside any mutations, finds *)
(* everything it was referred to; it meets a layer that is gone only when   *)
(* its map does not bind that layer any more.                               *)
ReadersServed ==
  \A r \in Reader :
    /\ at[r] # "missing"
    /\ at[r] = "conflict" =>
         LET m == view[r].map IN
           maps[m] = None \/ \A b \in Binding : maps[m].bindings[b] # view[r].layer

(* What was once committed is never written again, and heads advance by one *)
(* revision, or keep it and become a tombstone: no update is lost to a      *)
(* concurrent one or to the repetition of one that failed.                  *)
CommittedStays ==
  [][/\ \A l \in Layer : layers[l] # None =>
          /\ \A n \in 1..layers[l].revision : revisions'[l][n] = revisions[l][n]
          /\ layers'[l] # layers[l] =>
               /\ layers'[l] # None /\ ~layers[l].deleted
               /\ layers'[l].revision = layers[l].revision + (IF layers'[l].deleted THEN 0 ELSE 1)
     /\ \A a \in Asset : media[a] # None /\ media'[a] # media[a] =>
          /\ media'[a] # None /\ ~media[a].deleted /\ media[a].retained \subseteq media'[a].retained
          /\ media'[a].revision = media[a].revision + (IF media'[a].deleted THEN 0 ELSE 1)
     /\ \A m \in Map : maps[m] # None /\ maps'[m] # maps[m] =>
          maps'[m] = None \/ maps'[m].revision = maps[m].revision + 1]_vars
=============================================================================
