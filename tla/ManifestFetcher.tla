--------------------------- MODULE ManifestFetcher ---------------------------
(***************************************************************************)
(* Validation of spec.apiServer.managedPipelines: the reconciles of several *)
(* DSPAs share one OCIManifestFetcher, which resolves an image reference in *)
(* the registry, looks the digest up in a cache with a lifetime, and only on *)
(* a miss reads the image's layers for app/managed-pipelines.json.          *)
(*                                                                         *)
(* A digest is a hash of its content, so an image is its own digest here: a  *)
(* sequence of layers, oldest first, each a sequence of the tar entries that *)
(* matter.  A tag of the registry may be pushed to at any time.             *)
(***************************************************************************)
EXTENDS Naturals, Sequences

CONSTANTS
    DSPAs,          \* reconciles that run at the same time
    Tags,           \* references that name.ParseReference accepts
    Omitted,        \* the reference of a DSPA that leaves its image out
    Denied,         \* references whose registry AllowedRegistries leaves out
    Defaults,       \* what Images.PipelinesComponents can be, Omitted for nothing
    Names,          \* pipeline names
    FirstSpecs,     \* what the DSPAs ask for before any edit
    Images,         \* the images the registry starts with
    PushedImages,   \* the images that may be pushed later
    ScannedImages,  \* the images the scan is compared with the reference on
    None,           \* no image, no manifest
    TTL,            \* cacheTTL
    MaxTime,        \* bound: the clock
    MaxEvents       \* bound: edits, pushes and failing registry calls together

Specs == [image : Tags \cup {Omitted}, pipelines : SUBSET Names]

VARIABLES
    spec,       \* spec[d]: the image and the pipelines DSPA d asks for
    queued,     \* d is in the workqueue
    job,        \* what the running Reconcile of d has found out so far
    result,     \* the ManagedPipelineValid verdict of the last reconcile
    cache,      \* the fetcher's cache: image |-> names and time of the fetch
    registry,   \* registry[t]: the image the allowed tag t points to
    default,    \* Images.PipelinesComponents in the operator's configuration
    now,
    events

vars == <<spec, queued, job, result, cache, registry, default, now, events>>

\* Tar entries: a manifest that lists names, one that is empty or no JSON, a
\* whiteout (.wh.<name> or .wh..wh..opq), and one that cannot be read (broken
\* tar, file above the size limit).
Manifests == [kind : {"manifest"}, names : SUBSET Names]
Entries == Manifests \cup [kind : {"malformed", "whiteout", "unreadable"}]
AllImages == Seq(Seq(Entries))

ASSUME ConstantsOK ==
    /\ Omitted \notin Tags /\ Denied \subseteq Tags
    /\ Defaults \subseteq Tags \cup {Omitted}
    /\ FirstSpecs \subseteq Specs
    /\ Images \subseteq AllImages /\ PushedImages \subseteq AllImages
    /\ ScannedImages \subseteq AllImages
    /\ None \notin AllImages
    /\ TTL \in Nat /\ MaxTime \in Nat
    /\ MaxEvents \in Nat

Verdicts == {"none", "notApplicable", "valid", "invalid", "fetchError",
             "paramsError"}

Idle == [pc |-> "idle", spec |-> [image |-> Omitted, pipelines |-> {}],
         img |-> None, names |-> {}]

NoResult == [verdict |-> "none", spec |-> Idle.spec, img |-> None]

-----------------------------------------------------------------------------
(* Reading the manifest out of an image. *)

Kinds(layer) == {layer[i].kind : i \in DOMAIN layer}

IsFile(e) == e.kind \in {"manifest", "malformed"}

\* The tar stream is read to its end: any entry that cannot be read spoils it, a
\* file beats a whiteout beside it, and the last file of several wins.
extractFileFromTar(layer) ==
    IF "unreadable" \in Kinds(layer) THEN [kind |-> "unreadable"]
    ELSE IF \E i \in DOMAIN layer : IsFile(layer[i])
         THEN layer[CHOOSE i \in DOMAIN layer :
                       /\ IsFile(layer[i])
                       /\ \A j \in DOMAIN layer : IsFile(layer[j]) => j <= i]
    ELSE IF "whiteout" \in Kinds(layer) THEN [kind |-> "whiteout"]
    ELSE [kind |-> "notFound"]

\* Mutant: a whiteout does not hide the older layers.
extractManifestPastWhiteouts(img) ==
    LET found == {i \in DOMAIN img :
                    extractFileFromTar(img[i]).kind \notin {"notFound", "whiteout"}}
    IN  IF found = {} THEN [kind |-> "notFound"]
        ELSE extractFileFromTar(img[CHOOSE i \in found : \A j \in found : j <= i])

\* Layers are looked at from the newest to the oldest; the first one that says
\* anything about the file decides.
extractManifestFromImage(img) ==
    LET found == {i \in DOMAIN img : extractFileFromTar(img[i]).kind # "notFound"}
    IN  IF found = {} THEN [kind |-> "notFound"]
        ELSE extractFileFromTar(img[CHOOSE i \in found : \A j \in found : j <= i])

\* A layer laid over what is below: its whiteouts hide that, then its files come.
Over(below, layer) ==
    LET files == {i \in DOMAIN layer : IsFile(layer[i])}
        hidden == IF "whiteout" \in Kinds(layer) THEN [kind |-> "whiteout"] ELSE below
    IN  IF "unreadable" \in Kinds(layer) THEN [kind |-> "unreadable"]
        ELSE IF files = {} THEN hidden
        ELSE layer[CHOOSE i \in files : \A j \in files : j <= i]

\* What the container that runs the image sees: the layers laid over each other
\* from the oldest on.
Visible(img) ==
    LET upTo[n \in 0..Len(img)] ==
            IF n = 0 THEN [kind |-> "notFound"] ELSE Over(upTo[n - 1], img[n])
    IN  upTo[Len(img)]

-----------------------------------------------------------------------------
(* One Reconcile, as far as managed pipelines go. *)

Goto(d, step) == job' = [job EXCEPT ![d].pc = step]

\* The verdict is set and the reconcile is over; `again` is a RequeueAfter.
Finish(d, s, img, verdict, again) ==
    /\ result' = [result EXCEPT ![d] = [verdict |-> verdict, spec |-> s, img |-> img]]
    /\ job' = [job EXCEPT ![d] = Idle]
    /\ queued' = [queued EXCEPT ![d] = (@ /\ job[d].pc # "idle") \/ again]

\* A permanentError blocks the API server and is not retried.
Block(d) == Finish(d, job[d].spec, job[d].img, "invalid", FALSE)

\* Mutant: no RequeueAfter.
TransientOnce(d) == Finish(d, job[d].spec, job[d].img, "fetchError", FALSE)

\* Any other error lets the API server be deployed and asks for a retry.
Transient(d) == Finish(d, job[d].spec, job[d].img, "fetchError", TRUE)

Event == events < MaxEvents /\ events' = events + 1

\* The image the init container gets: ExtractParams fills in the default in its
\* own copy of the spec, and fails when there is none.
InitImage(s) == IF s.image = Omitted THEN default ELSE s.image

\* The reference validated is the one in the DSPA, not ExtractParams' copy: an
\* image that is left out is deployed as the default and refused as "".
Reference(s) == s.image

\* ParseReference refuses it, or checkRegistryAllowlist.
BadReference(s) == Reference(s) \notin Tags \/ Reference(s) \in Denied

\* Mutant: a spec that has its verdict is not looked at again.
StartOncePerSpec(d) ==
    /\ job[d].pc = "idle" /\ queued[d]
    /\ queued' = [queued EXCEPT ![d] = FALSE]
    /\ IF BadReference(spec[d]) \/ (result[d].verdict = "valid" /\ result[d].spec = spec[d])
       THEN UNCHANGED job
       ELSE job' = [job EXCEPT ![d].pc = "resolve", ![d].spec = spec[d]]
    /\ UNCHANGED <<spec, result, cache, registry, default, now, events>>

\* The worker takes the DSPA's name from the queue and reads its spec; what
\* follows before the first call of the registry is its own business.
Start(d) ==
    /\ job[d].pc = "idle" /\ queued[d]
    /\ LET s == spec[d]
       IN  \/ /\ InitImage(s) = Omitted
              /\ Finish(d, s, None, "paramsError", TRUE)
           \/ /\ InitImage(s) # Omitted /\ s.pipelines = {}
              /\ Finish(d, s, None, "notApplicable", FALSE)
           \/ /\ InitImage(s) # Omitted /\ s.pipelines # {} /\ BadReference(s)
              /\ Finish(d, s, None, "invalid", FALSE)
           \/ /\ InitImage(s) # Omitted /\ s.pipelines # {} /\ ~BadReference(s)
              /\ job' = [job EXCEPT ![d].pc = "resolve", ![d].spec = s]
              /\ queued' = [queued EXCEPT ![d] = FALSE]
              /\ UNCHANGED result
    /\ UNCHANGED <<spec, cache, registry, default, now, events>>

resolveImageDigest(d) ==
    /\ job[d].pc = "resolve"
    /\ \/ /\ job' = [job EXCEPT ![d].pc = "lookup",
                                ![d].img = registry[Reference(job[d].spec)]]
          /\ UNCHANGED <<result, queued, events>>
       \/ Event /\ Transient(d)
    /\ UNCHANGED <<spec, cache, registry, default, now>>

Expired(entry) == now - entry.fetchedAt > TTL

Fresh(i) == i \in DOMAIN cache /\ ~Expired(cache[i])

\* Mutant: the entry gets the zero value, fetched before all time.
DropToZero(c, imgs) ==
    [i \in DOMAIN c |-> IF i \in imgs THEN [names |-> {}, fetchedAt |-> 0 - (TTL + 1)]
                                      ELSE c[i]]

Drop(c, imgs) == [i \in DOMAIN c \ imgs |-> c[i]]

\* The verdict, once the names the image lists are known.
ValidateManagedPipelineNames(d, names) ==
    Finish(d, job[d].spec, job[d].img,
           IF job[d].spec.pipelines \subseteq names THEN "valid" ELSE "invalid",
           FALSE)

\* Mutant: the cache is looked up by reference, so any image the tag has
\* pointed to will do.
getCachedByReference(d) ==
    /\ job[d].pc = "lookup"
    /\ \/ \E i \in DOMAIN cache :
             /\ ~Expired(cache[i])
             /\ ValidateManagedPipelineNames(d, cache[i].names)
       \/ /\ DOMAIN cache = {}
          /\ Goto(d, "extract") /\ UNCHANGED <<queued, result>>
    /\ UNCHANGED <<spec, cache, registry, default, now, events>>

\* Under the lock: an entry past its lifetime is dropped and counts as a miss.
getCached(d) ==
    /\ job[d].pc = "lookup"
    /\ LET i == job[d].img
       IN  \/ /\ Fresh(i)
              /\ ValidateManagedPipelineNames(d, cache[i].names)
              /\ UNCHANGED cache
           \/ /\ ~Fresh(i)
              /\ cache' = Drop(cache, {i})
              /\ Goto(d, "extract") /\ UNCHANGED <<queued, result>>
    /\ UNCHANGED <<spec, registry, default, now, events>>

\* The layers are downloaded and the manifest parsed, outside the lock.
Extract(d) ==
    /\ job[d].pc = "extract"
    /\ LET m == extractManifestFromImage(job[d].img)
       IN  \/ /\ m.kind = "manifest"
              /\ job' = [job EXCEPT ![d].pc = "put", ![d].names = m.names]
              /\ UNCHANGED <<queued, result, events>>
           \/ /\ m.kind \in {"malformed", "whiteout", "notFound"}
              /\ Block(d) /\ UNCHANGED events
           \/ /\ m.kind = "unreadable"
              /\ Transient(d) /\ UNCHANGED events
           \/ Event /\ Transient(d)
    /\ UNCHANGED <<spec, cache, registry, default, now>>

\* Under the lock again: expired entries go, this one is stored.
putCache(d) ==
    /\ job[d].pc = "put"
    /\ LET kept == Drop(cache, {i \in DOMAIN cache : Expired(cache[i])})
       IN  cache' = [i \in DOMAIN kept \cup {job[d].img} |->
                        IF i = job[d].img
                        THEN [names |-> job[d].names, fetchedAt |-> now]
                        ELSE kept[i]]
    /\ ValidateManagedPipelineNames(d, job[d].names)
    /\ UNCHANGED <<spec, registry, default, now, events>>

-----------------------------------------------------------------------------
(* The rest of the world. *)

Edit(d) ==
    /\ Event
    /\ \E s \in Specs : spec' = [spec EXCEPT ![d] = s]
    /\ queued' = [queued EXCEPT ![d] = TRUE]
    /\ UNCHANGED <<job, result, cache, registry, default, now>>

\* Nothing tells the operator.
Push(t) ==
    /\ Event
    /\ \E i \in PushedImages : registry' = [registry EXCEPT ![t] = i]
    /\ UNCHANGED <<spec, queued, job, result, cache, default, now>>

Tick ==
    /\ now < MaxTime /\ now' = now + 1
    /\ UNCHANGED <<spec, queued, job, result, cache, registry, default, events>>

\* One that comes while Reconcile runs takes effect after it.
Resync(d) ==
    /\ ~queued[d] /\ job[d].pc = "idle"
    /\ queued' = [queued EXCEPT ![d] = TRUE]
    /\ UNCHANGED <<spec, job, result, cache, registry, default, now, events>>

Reconcile(d) ==
    \/ Start(d) \/ resolveImageDigest(d) \/ getCached(d) \/ Extract(d) \/ putCache(d)

Init ==
    /\ spec \in [DSPAs -> FirstSpecs]
    /\ queued = [d \in DSPAs |-> TRUE]
    /\ job = [d \in DSPAs |-> Idle]
    /\ result = [d \in DSPAs |-> NoResult]
    /\ cache = [i \in {} |-> 0]
    /\ registry \in [Tags \ Denied -> Images] /\ default \in Defaults
    /\ now = 0 /\ events = 0

Next ==
    \/ \E d \in DSPAs : Reconcile(d) \/ Edit(d) \/ Resync(d)
    \/ \E t \in Tags \ Denied : Push(t)
    \/ Tick

Spec == Init /\ [][Next]_vars

\* Every worker that has work does it; resyncs may or may not come.
FairSpec == Spec /\ \A d \in DSPAs : WF_vars(Reconcile(d))

-----------------------------------------------------------------------------
Entry == [names : SUBSET Names, fetchedAt : Nat]
Steps == {"idle", "resolve", "lookup", "extract", "put"}

\* The variables hold what the declarations say.
TypeOK ==
    /\ spec \in [DSPAs -> Specs]
    /\ queued \in [DSPAs -> BOOLEAN]
    /\ job \in [DSPAs -> [pc : Steps, spec : Specs, img : AllImages \cup {None},
                          names : SUBSET Names]]
    /\ result \in [DSPAs -> [verdict : Verdicts, spec : Specs,
                             img : AllImages \cup {None}]]
    /\ DOMAIN cache \subseteq AllImages
    /\ \A i \in DOMAIN cache : cache[i] \in Entry
    /\ registry \in [Tags \ Denied -> AllImages] /\ default \in Tags \cup {Omitted}
    /\ now \in Nat /\ events \in Nat

\* The image lists every pipeline the DSPA asks for.
Lists(img, s) ==
    LET m == extractManifestFromImage(img)
    IN  m.kind = "manifest" /\ s.pipelines \subseteq m.names

\* A verdict is about the very image this reconcile resolved, whoever filled the
\* cache and however the tag has moved since: "valid" only if that image lists
\* the pipelines, "invalid" (the API server is blocked with no retry) only if it
\* does not or the reference is bad; a registry that fails or a layer that cannot
\* be read never blocks (FetchPipelineNames, validateManagedPipelines).
VerdictIsDeserved ==
    \A d \in DSPAs :
        LET r == result[d]
        IN  /\ r.verdict = "valid" => Lists(r.img, r.spec)
            /\ r.verdict = "invalid" =>
                 \/ BadReference(r.spec)
                 \/ /\ ~Lists(r.img, r.spec)
                    /\ extractManifestFromImage(r.img).kind # "unreadable"

\* The scan finds what a container of the image sees.
ScanAgrees(img) == extractManifestFromImage(img) = Visible(img)

\* The scan from the newest layer down finds what a container of the image sees,
\* for every arrangement of files, whiteouts and unreadable entries
\* (extractManifestFromImage, extractFileFromTar).  It is about images, not about
\* states, so the initial ones are enough.
ScanFindsTheVisibleManifest == Init => \A img \in ScannedImages : ScanAgrees(img)

\* A fetch that failed for a passing reason is tried again until the registry
\* answers: the verdict does not stay "fetchError" unless the image itself
\* cannot be read (the RequeueAfter of a transient failure).
FetchErrorsHeal ==
    \A d \in DSPAs :
        <>[](result[d].verdict = "fetchError" =>
                /\ ~BadReference(spec[d])
                /\ extractManifestFromImage(registry[Reference(spec[d])]).kind
                       = "unreadable")

\* With the informer's resync the verdict comes to be that of the image the tag
\* points to now, though no push wakes the operator up.
VerdictCatchesUp ==
    \A d \in DSPAs :
        WF_vars(Resync(d)) =>
            <>[](~BadReference(spec[d]) /\ spec[d].pipelines # {} =>
                    result[d].verdict =
                        IF Lists(registry[Reference(spec[d])], spec[d]) THEN "valid"
                        ELSE IF extractManifestFromImage(
                                    registry[Reference(spec[d])]).kind = "unreadable"
                             THEN "fetchError"
                             ELSE "invalid")

=============================================================================
