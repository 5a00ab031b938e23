------------------------ MODULE ManifestFetcherProofs ------------------------
(***************************************************************************)
(* Proofs about the validation of managed pipelines, for any number of DSPAs, *)
(* tags, images, edits, pushes and failing calls.                           *)
(*                                                                         *)
(* The scan of an image is right for every image: laying the layers over     *)
(* each other from the oldest on and looking for the file from the newest     *)
(* down come to the same, layer by layer.  The verdicts are right because    *)
(* whatever is in the cache, and whatever a reconcile is about to put there,  *)
(* is what the scan of that image finds.                                    *)
(***************************************************************************)
EXTENDS ManifestFetcher, TLAPS, WellFoundedInduction

Manifest(img) == extractManifestFromImage(img)

\* The names kept for an image are those its manifest lists.
NamesOf(img, names) == Manifest(img).kind = "manifest" /\ names = Manifest(img).names

CacheIsRight == \A i \in DOMAIN cache : NamesOf(i, cache[i].names)

JobsAreRight ==
    \A d \in DSPAs :
        /\ job[d].pc # "idle" => ~BadReference(job[d].spec)
        /\ job[d].pc \in {"lookup", "extract", "put"} => job[d].img \in AllImages
        /\ job[d].pc = "put" => NamesOf(job[d].img, job[d].names)

FetchInv == TypeOK /\ CacheIsRight /\ JobsAreRight /\ VerdictIsDeserved

-----------------------------------------------------------------------------
(* The least and the greatest of some numbers. *)

LEMMA Least ==
    ASSUME NEW T, T \subseteq Nat, T # {}
    PROVE  \E x \in T : \A y \in T : x <= y
<1>1. \E x \in T : \A y \in T : ~(<<y, x>> \in OpToRel(<, Nat))
  BY NatLessThanWellFounded, WFMin
<1>2. PICK x \in T : \A y \in T : ~(<<y, x>> \in OpToRel(<, Nat))
  BY <1>1
<1>3. \A y \in T : ~(y < x)
  BY <1>2 DEF OpToRel
<1> QED BY <1>3

LEMMA Greatest ==
    ASSUME NEW n \in Nat, NEW T, T \subseteq 1..n, T # {}
    PROVE  \E x \in T : \A y \in T : y <= x
<1> DEFINE bounds == {b \in Nat : \A y \in T : y <= b}
<1>1. n \in bounds /\ bounds \subseteq Nat
  OBVIOUS
<1>2. PICK b \in bounds : \A c \in bounds : b <= c
  BY <1>1, Least
<1>3. b \in T
  <2> SUFFICES ASSUME b \notin T PROVE FALSE
    OBVIOUS
  <2>1. \A y \in T : y <= b /\ y # b /\ y \in Nat /\ 1 <= y
    BY <1>2
  <2>2. b \in Nat /\ \E y \in T : y \in Nat /\ 1 <= y /\ y <= b
    BY <1>2, <2>1
  <2>3. b - 1 \in Nat /\ \A y \in T : y <= b - 1
    BY <2>1, <2>2
  <2>4. b - 1 \in bounds
    BY <2>3
  <2> QED BY <1>2, <2>2, <2>4
<1> QED BY <1>2, <1>3

-----------------------------------------------------------------------------
(* The scan. *)

NotFound == [kind |-> "notFound"]

\* What the scan of a layer may find.
Finding == Entries \cup {NotFound}

Files(layer) == {i \in DOMAIN layer : IsFile(layer[i])}

\* Where there is a file the last one is found.
LEMMA LastFile ==
    ASSUME NEW layer \in Seq(Entries), Files(layer) # {}
    PROVE  /\ (CHOOSE i \in Files(layer) : \A j \in Files(layer) : j <= i) \in Files(layer)
           /\ (CHOOSE i \in Files(layer) : \A j \in Files(layer) : j <= i) =
              (CHOOSE i \in DOMAIN layer :
                    /\ IsFile(layer[i])
                    /\ \A j \in DOMAIN layer : IsFile(layer[j]) => j <= i)
<1>1. Files(layer) \subseteq 1..Len(layer) /\ Len(layer) \in Nat
  BY DEF Files
<1>2. \E i \in Files(layer) : \A j \in Files(layer) : j <= i
  BY <1>1, Greatest
<1>3. PICK i \in Files(layer) : \A j \in Files(layer) : j <= i
  BY <1>2
<1> DEFINE a == CHOOSE x \in Files(layer) : \A y \in Files(layer) : y <= x
           b == CHOOSE x \in DOMAIN layer :
                    /\ IsFile(layer[x])
                    /\ \A y \in DOMAIN layer : IsFile(layer[y]) => y <= x
<1>4. a \in Files(layer) /\ \A y \in Files(layer) : y <= a
  BY <1>2
<1>5. \E x \in DOMAIN layer :
          /\ IsFile(layer[x]) /\ \A y \in DOMAIN layer : IsFile(layer[y]) => y <= x
  BY <1>2 DEF Files
<1>6. b \in Files(layer) /\ \A y \in Files(layer) : y <= b
  BY <1>5 DEF Files
<1> HIDE DEF a, b
<1>7. a = b
  <2>1. a <= b /\ b <= a /\ a \in Nat /\ b \in Nat
    BY <1>1, <1>4, <1>6
  <2> QED BY <2>1
<1> QED BY <1>4, <1>7 DEF a, b

\* A layer, case by case.
LEMMA LayerCases ==
    ASSUME NEW layer \in Seq(Entries)
    PROVE  /\ extractFileFromTar(layer) \in Finding
           /\ \A below :
                Over(below, layer) = IF extractFileFromTar(layer).kind = "notFound"
                                     THEN below ELSE extractFileFromTar(layer)
<1> DEFINE last == CHOOSE i \in Files(layer) : \A j \in Files(layer) : j <= i
<1>1. CASE "unreadable" \in Kinds(layer)
  <2>1. extractFileFromTar(layer) = [kind |-> "unreadable"]
    BY <1>1 DEF extractFileFromTar
  <2>2. \A below : Over(below, layer) = [kind |-> "unreadable"]
    BY <1>1 DEF Over
  <2> QED BY <2>1, <2>2 DEF Finding, Entries
<1>2. CASE "unreadable" \notin Kinds(layer) /\ Files(layer) # {}
  <2>1. \E i \in DOMAIN layer : IsFile(layer[i])
    BY <1>2 DEF Files
  <2>2. extractFileFromTar(layer) = layer[last]
    BY <1>2, <2>1, LastFile DEF extractFileFromTar
  <2>3. \A below : Over(below, layer) = layer[last]
    BY <1>2 DEF Over, Files
  <2>4. last \in DOMAIN layer /\ IsFile(layer[last])
    BY <1>2, LastFile DEF Files
  <2> HIDE DEF last
  <2>5. layer[last] \in Entries /\ layer[last].kind # "notFound"
    BY <2>4 DEF IsFile
  <2> QED BY <2>2, <2>3, <2>5 DEF Finding
<1>3. CASE "unreadable" \notin Kinds(layer) /\ Files(layer) = {}
  <2>1. ~\E i \in DOMAIN layer : IsFile(layer[i])
    BY <1>3 DEF Files
  <2>2. extractFileFromTar(layer) = IF "whiteout" \in Kinds(layer) THEN [kind |-> "whiteout"]
                                    ELSE NotFound
    BY <1>3, <2>1 DEF extractFileFromTar, NotFound
  <2>3. \A below : Over(below, layer) =
            IF "whiteout" \in Kinds(layer) THEN [kind |-> "whiteout"] ELSE below
    BY <1>3 DEF Over, Files
  <2>4. [kind |-> "whiteout"].kind # "notFound" /\ NotFound.kind = "notFound"
        /\ [kind |-> "whiteout"] \in Entries
    BY DEF NotFound, Entries
  <2> QED BY <2>2, <2>3, <2>4 DEF Finding
<1> QED BY <1>1, <1>2, <1>3

\* The scan of the oldest n layers.
Found(img, n) == {i \in 1..n : extractFileFromTar(img[i]).kind # "notFound"}
ScanUpTo(img, n) ==
    IF Found(img, n) = {} THEN NotFound
    ELSE extractFileFromTar(img[CHOOSE i \in Found(img, n) :
                                   \A j \in Found(img, n) : j <= i])

\* The newest of them with something to say decides.
LEMMA NewestFound ==
    ASSUME NEW img \in AllImages, NEW n \in 0..Len(img), Found(img, n) # {}
    PROVE  LET i == CHOOSE i \in Found(img, n) : \A j \in Found(img, n) : j <= i
           IN  i \in Found(img, n) /\ \A j \in Found(img, n) : j <= i
<1>1. Found(img, n) \subseteq 1..n /\ n \in Nat
  BY DEF Found, AllImages
<1>2. \E i \in Found(img, n) : \A j \in Found(img, n) : j <= i
  BY <1>1, Greatest
<1> QED BY <1>2

LEMMA ScanWhole ==
    ASSUME NEW img \in AllImages PROVE ScanUpTo(img, Len(img)) = Manifest(img)
<1>1. Found(img, Len(img)) = {i \in DOMAIN img : extractFileFromTar(img[i]).kind # "notFound"}
  BY DEF Found, AllImages
<1> QED BY <1>1 DEF ScanUpTo, Manifest, extractManifestFromImage, NotFound

\* One more layer: the scan goes on as the layers are laid over each other.
LEMMA ScanOneMore ==
    ASSUME NEW img \in AllImages, NEW n \in 1..Len(img)
    PROVE  ScanUpTo(img, n) = Over(ScanUpTo(img, n - 1), img[n])
<1>0. n \in Nat /\ n - 1 \in Nat /\ n \in 0..Len(img) /\ n - 1 \in 0..Len(img)
  BY DEF AllImages
<1>1. img[n] \in Seq(Entries)
  BY DEF AllImages
<1>2. CASE extractFileFromTar(img[n]).kind = "notFound"
  <2>1. Found(img, n) = Found(img, n - 1)
    BY <1>0, <1>2 DEF Found
  <2>2. ScanUpTo(img, n) = ScanUpTo(img, n - 1)
    BY <2>1 DEF ScanUpTo
  <2> QED BY <1>1, <1>2, <2>2, LayerCases
<1>3. CASE extractFileFromTar(img[n]).kind # "notFound"
  <2>1. n \in Found(img, n)
    BY <1>0, <1>3 DEF Found
  <2> DEFINE i == CHOOSE i \in Found(img, n) : \A j \in Found(img, n) : j <= i
  <2>2. i \in Found(img, n) /\ n <= i
    BY <1>0, <2>1, NewestFound
  <2>3. ScanUpTo(img, n) = extractFileFromTar(img[i])
    BY <2>1 DEF ScanUpTo
  <2> HIDE DEF i
  <2>4. i = n
    BY <1>0, <2>2 DEF Found
  <2> QED BY <1>1, <1>3, <2>3, <2>4, LayerCases
<1> QED BY <1>2, <1>3

\* f[n] is what is visible of the oldest n layers.
Layered(img, f) ==
    f = [n \in 0..Len(img) |->
            IF n = 0 THEN NotFound ELSE Over(f[n - 1], img[n])]

\* There is such a function: the scan.
LEMMA ScanIsLayered ==
    ASSUME NEW img \in AllImages
    PROVE  Layered(img, [n \in 0..Len(img) |-> ScanUpTo(img, n)])
<1> DEFINE f == [n \in 0..Len(img) |-> ScanUpTo(img, n)]
<1>1. ASSUME NEW n \in 0..Len(img)
      PROVE  f[n] = IF n = 0 THEN NotFound ELSE Over(f[n - 1], img[n])
  <2>1. CASE n = 0
    <3>1. Found(img, 0) = {}
      BY DEF Found
    <3> QED BY <2>1, <3>1 DEF ScanUpTo
  <2>2. CASE n # 0
    <3>1. n \in 1..Len(img) /\ n - 1 \in 0..Len(img)
      BY <2>2 DEF AllImages
    <3>2. f[n] = ScanUpTo(img, n) /\ f[n - 1] = ScanUpTo(img, n - 1)
      BY <3>1
    <3> QED BY <2>2, <3>1, <3>2, ScanOneMore
  <2> QED BY <2>1, <2>2
<1>2. f = [n \in 0..Len(img) |-> IF n = 0 THEN NotFound ELSE Over(f[n - 1], img[n])]
  BY <1>1
<1> QED BY <1>2 DEF Layered

\* And no other: take the least n where it would differ.
LEMMA LayeredIsScan ==
    ASSUME NEW img \in AllImages, NEW f, Layered(img, f)
    PROVE  \A n \in 0..Len(img) : f[n] = ScanUpTo(img, n)
<1> DEFINE T == {n \in 0..Len(img) : f[n] # ScanUpTo(img, n)}
<1> SUFFICES ASSUME T # {} PROVE FALSE
  OBVIOUS
<1>0. \A n \in 0..Len(img) : f[n] = IF n = 0 THEN NotFound ELSE Over(f[n - 1], img[n])
  <2> DEFINE g == [n \in 0..Len(img) |-> IF n = 0 THEN NotFound ELSE Over(f[n - 1], img[n])]
  <2>1. f = g
    BY DEF Layered
  <2>2. \A n \in 0..Len(img) : g[n] = IF n = 0 THEN NotFound ELSE Over(f[n - 1], img[n])
    OBVIOUS
  <2> HIDE DEF g
  <2> QED BY <2>1, <2>2
<1>1. T \subseteq Nat /\ Len(img) \in Nat
  BY DEF AllImages
<1>2. PICK n \in T : \A m \in T : n <= m
  BY <1>1, Least
<1>3. n \in 0..Len(img) /\ f[n] # ScanUpTo(img, n)
  BY <1>2
<1>4. CASE n = 0
  <2>1. Found(img, 0) = {}
    BY DEF Found
  <2> QED BY <1>0, <1>3, <1>4, <2>1 DEF ScanUpTo
<1>5. CASE n # 0
  <2>1. n \in 1..Len(img) /\ n - 1 \in 0..Len(img) /\ ~(n <= n - 1)
    BY <1>1, <1>3, <1>5
  <2>2. f[n - 1] = ScanUpTo(img, n - 1)
    BY <1>2, <2>1
  <2>3. f[n] = Over(f[n - 1], img[n])
    BY <1>0, <1>3, <1>5
  <2> QED BY <1>3, <2>1, <2>2, <2>3, ScanOneMore
<1> QED BY <1>4, <1>5

\* For every image, of any number of layers and entries, the scan from the newest
\* layer down finds exactly what a container of the image sees
\* (extractManifestFromImage, extractFileFromTar).
THEOREM ScanIsRight == \A img \in AllImages : ScanAgrees(img)
<1> SUFFICES ASSUME NEW img \in AllImages PROVE ScanAgrees(img)
  OBVIOUS
<1> DEFINE f == CHOOSE f : Layered(img, f)
<1>1. Layered(img, f)
  BY ScanIsLayered
<1>2. Visible(img) = f[Len(img)]
  BY DEF Visible, Layered, NotFound
<1> HIDE DEF f
<1>3. Len(img) \in 0..Len(img)
  BY DEF AllImages
<1>4. f[Len(img)] = ScanUpTo(img, Len(img))
  BY <1>1, <1>3, LayeredIsScan
<1> QED BY <1>2, <1>4, ScanWhole DEF ScanAgrees, Manifest

\* So the run's property holds whatever images it is asked about.
THEOREM ScanFindsVisible == Spec => []ScanFindsTheVisibleManifest
<1>1. ScanFindsTheVisibleManifest
  BY ScanIsRight, ConstantsOK DEF ScanFindsTheVisibleManifest
<1> QED BY <1>1, PTL

-----------------------------------------------------------------------------
(* The verdicts. *)

Job == [pc : Steps, spec : Specs, img : AllImages \cup {None}, names : SUBSET Names]
Result == [verdict : Verdicts, spec : Specs, img : AllImages \cup {None}]

\* What the scan of an image may find.
LEMMA ManifestType ==
    ASSUME NEW img \in AllImages
    PROVE  /\ Manifest(img) \in Finding
           /\ Manifest(img).kind \in {"manifest", "malformed", "whiteout", "unreadable", "notFound"}
           /\ Manifest(img).kind = "manifest" => Manifest(img).names \in SUBSET Names
<1>0. Len(img) \in Nat /\ Len(img) \in 0..Len(img)
  BY DEF AllImages
<1>1. Manifest(img) \in Finding
  <2>1. CASE Found(img, Len(img)) = {}
    BY <2>1, ScanWhole DEF ScanUpTo, Finding
  <2>2. CASE Found(img, Len(img)) # {}
    <3> DEFINE i == CHOOSE i \in Found(img, Len(img)) : \A j \in Found(img, Len(img)) : j <= i
    <3>1. i \in Found(img, Len(img))
      BY <1>0, <2>2, NewestFound
    <3>2. Manifest(img) = extractFileFromTar(img[i])
      BY <2>2, ScanWhole DEF ScanUpTo
    <3> HIDE DEF i
    <3>3. img[i] \in Seq(Entries)
      BY <1>0, <3>1 DEF Found, AllImages
    <3> QED BY <3>2, <3>3, LayerCases
  <2> QED BY <2>1, <2>2
<1>2. \A m \in Finding :
        /\ m.kind \in {"manifest", "malformed", "whiteout", "unreadable", "notFound"}
        /\ m.kind = "manifest" => m.names \in SUBSET Names
  BY DEF Finding, Entries, Manifests, NotFound
<1> QED BY <1>1, <1>2

LEMMA IdleType == Idle \in Job /\ Idle.pc = "idle" /\ Idle.spec \in Specs /\ NoResult \in Result
<1>1. Idle.spec \in Specs
  BY DEF Idle, Specs
<1> QED BY <1>1 DEF Idle, Job, Steps, NoResult, Result, Verdicts

\* A verdict that is deserved.
Deserved(r) ==
    /\ r.verdict = "valid" => Lists(r.img, r.spec)
    /\ r.verdict = "invalid" =>
         \/ BadReference(r.spec)
         \/ /\ ~Lists(r.img, r.spec)
            /\ Manifest(r.img).kind # "unreadable"

LEMMA DeservedAll == VerdictIsDeserved <=> \A d \in DSPAs : Deserved(result[d])
BY DEF VerdictIsDeserved, Deserved, Manifest

\* The end of a reconcile with a verdict that is deserved.
LEMMA FinishStep ==
    ASSUME FetchInv, NEW d \in DSPAs, NEW s \in Specs, NEW img \in AllImages \cup {None},
           NEW verdict \in Verdicts, NEW again \in BOOLEAN,
           Finish(d, s, img, verdict, again),
           Deserved([verdict |-> verdict, spec |-> s, img |-> img]),
           UNCHANGED <<spec, registry, default, now>>, events' \in Nat,
           DOMAIN cache' \subseteq AllImages,
           \A i \in DOMAIN cache' : cache'[i] \in Entry, CacheIsRight'
    PROVE  FetchInv'
<1>1. result' = [result EXCEPT ![d] = [verdict |-> verdict, spec |-> s, img |-> img]]
      /\ job' = [job EXCEPT ![d] = Idle]
      /\ queued' = [queued EXCEPT ![d] = (@ /\ job[d].pc # "idle") \/ again]
  BY DEF Finish
<1>2. job \in [DSPAs -> Job] /\ result \in [DSPAs -> Result] /\ queued \in [DSPAs -> BOOLEAN]
  BY DEF FetchInv, TypeOK, Job, Result
<1>3. job' \in [DSPAs -> Job]
  BY <1>1, <1>2, IdleType
<1>4. result' \in [DSPAs -> Result]
  <2>1. [verdict |-> verdict, spec |-> s, img |-> img] \in Result
    BY DEF Result
  <2> QED BY <1>1, <1>2, <2>1
<1>5. queued' \in [DSPAs -> BOOLEAN]
  <2>1. ((queued[d] /\ job[d].pc # "idle") \/ again) \in BOOLEAN
    OBVIOUS
  <2> QED BY <1>1, <1>2, <2>1
<1>6. TypeOK'
  BY <1>3, <1>4, <1>5 DEF FetchInv, TypeOK, Job, Result
<1>7. JobsAreRight'
  <2>1. \A e \in DSPAs : job'[e] = job[e] \/ job'[e].pc = "idle"
    BY <1>1, <1>2, IdleType
  <2> QED BY <2>1 DEF FetchInv, JobsAreRight, BadReference, Reference
<1>8. VerdictIsDeserved'
  <2>1. \A e \in DSPAs : result'[e] = result[e]
                         \/ result'[e] = [verdict |-> verdict, spec |-> s, img |-> img]
    BY <1>1, <1>2
  <2>2. \A e \in DSPAs : Deserved(result[e])
    BY DeservedAll DEF FetchInv
  <2>3. \A e \in DSPAs : Deserved(result'[e])
    BY <2>1, <2>2
  <2> QED BY <2>3 DEF VerdictIsDeserved, Deserved, Manifest
<1> QED BY <1>6, <1>7, <1>8 DEF FetchInv

\* A step of a reconcile that goes on.
LEMMA JobStep ==
    ASSUME FetchInv, NEW d \in DSPAs, NEW j \in Job, job' = [job EXCEPT ![d] = j],
           j.pc # "idle" => ~BadReference(j.spec),
           j.pc \in {"lookup", "extract", "put"} => j.img \in AllImages,
           j.pc = "put" => NamesOf(j.img, j.names),
           queued' \in [DSPAs -> BOOLEAN],
           UNCHANGED <<spec, result, registry, default, now, events>>,
           DOMAIN cache' \subseteq AllImages,
           \A i \in DOMAIN cache' : cache'[i] \in Entry, CacheIsRight'
    PROVE  FetchInv'
<1>1. job \in [DSPAs -> Job]
  BY DEF FetchInv, TypeOK, Job
<1>2. job' \in [DSPAs -> Job] /\ \A e \in DSPAs : job'[e] = job[e] \/ job'[e] = j
  BY <1>1
<1>3. TypeOK'
  BY <1>2 DEF FetchInv, TypeOK, Job
<1>4. JobsAreRight'
  BY <1>2 DEF FetchInv, JobsAreRight, BadReference, Reference, NamesOf, Manifest
<1>5. VerdictIsDeserved'
  BY DEF FetchInv, VerdictIsDeserved
<1> QED BY <1>3, <1>4, <1>5 DEF FetchInv

\* A step that concerns neither jobs, results nor cache.
LEMMA OtherStep ==
    ASSUME FetchInv, UNCHANGED <<job, result, cache, default>>,
           spec' \in [DSPAs -> Specs], queued' \in [DSPAs -> BOOLEAN],
           registry' \in [Tags \ Denied -> AllImages], now' \in Nat, events' \in Nat
    PROVE  FetchInv'
<1>1. TypeOK'
  BY DEF FetchInv, TypeOK
<1>2. CacheIsRight' /\ JobsAreRight' /\ VerdictIsDeserved'
  BY DEF FetchInv, CacheIsRight, JobsAreRight, VerdictIsDeserved
<1> QED BY <1>1, <1>2 DEF FetchInv

\* A verdict about names that are the image's own is deserved.
LEMMA NamesDecide ==
    ASSUME NEW img, NEW s, NEW names, NamesOf(img, names)
    PROVE  Deserved([verdict |-> IF s.pipelines \subseteq names THEN "valid" ELSE "invalid",
                     spec |-> s, img |-> img])
<1>1. Lists(img, s) <=> s.pipelines \subseteq names
  BY DEF NamesOf, Lists, Manifest
<1>2. Manifest(img).kind # "unreadable"
  BY DEF NamesOf
<1>3. CASE s.pipelines \subseteq names
  BY <1>1, <1>3 DEF Deserved
<1>4. CASE ~(s.pipelines \subseteq names)
  BY <1>1, <1>2, <1>4 DEF Deserved
<1> QED BY <1>3, <1>4

LEMMA FetchInit == Init => FetchInv
<1> SUFFICES ASSUME Init PROVE FetchInv
  OBVIOUS
<1>1. spec \in [DSPAs -> Specs] /\ registry \in [Tags \ Denied -> AllImages]
      /\ default \in Tags \cup {Omitted}
  BY ConstantsOK DEF Init
<1>2. job \in [DSPAs -> Job] /\ result \in [DSPAs -> Result]
  BY IdleType DEF Init
<1>3. DOMAIN cache = {}
  BY DEF Init
<1>4. TypeOK
  BY <1>1, <1>2, <1>3 DEF Init, TypeOK, Job, Result
<1>5. CacheIsRight
  BY <1>3 DEF CacheIsRight
<1>6. JobsAreRight
  BY IdleType DEF Init, JobsAreRight
<1>7. VerdictIsDeserved
  BY DEF Init, VerdictIsDeserved, NoResult
<1> QED BY <1>4, <1>5, <1>6, <1>7 DEF FetchInv

LEMMA FetchStep == FetchInv /\ [Next]_vars => FetchInv'
<1> SUFFICES ASSUME FetchInv, [Next]_vars PROVE FetchInv'
  OBVIOUS
<1>0. /\ spec \in [DSPAs -> Specs] /\ queued \in [DSPAs -> BOOLEAN] /\ job \in [DSPAs -> Job]
      /\ registry \in [Tags \ Denied -> AllImages] /\ now \in Nat /\ events \in Nat
      /\ DOMAIN cache \subseteq AllImages /\ \A i \in DOMAIN cache : cache[i] \in Entry
  BY DEF FetchInv, TypeOK, Job
<1>c. CacheIsRight /\ JobsAreRight
  BY DEF FetchInv
<1>u. UNCHANGED cache =>
        /\ DOMAIN cache' \subseteq AllImages /\ \A i \in DOMAIN cache' : cache'[i] \in Entry
        /\ CacheIsRight'
  BY <1>0, <1>c DEF CacheIsRight
<1>e. Event => events' \in Nat
  BY <1>0 DEF Event
<1>j. \A d \in DSPAs :
        /\ job[d] \in Job /\ job[d].spec \in Specs /\ job[d].img \in AllImages \cup {None}
        /\ job[d].names \in SUBSET Names
  BY <1>0 DEF Job
<1>t. ASSUME NEW d \in DSPAs, Transient(d), UNCHANGED <<spec, cache, registry, default, now>>,
             events' \in Nat
      PROVE  FetchInv'
  <2>1. Deserved([verdict |-> "fetchError", spec |-> job[d].spec, img |-> job[d].img])
    BY DEF Deserved
  <2>2. Finish(d, job[d].spec, job[d].img, "fetchError", TRUE)
    BY <1>t DEF Transient
  <2>3. PICK again \in BOOLEAN : again = TRUE
    OBVIOUS
  <2>4. Finish(d, job[d].spec, job[d].img, "fetchError", again)
    BY <2>2, <2>3 DEF Finish
  <2> QED BY <1>j, <1>t, <1>u, <2>1, <2>4, FinishStep DEF Verdicts
<1>v. ASSUME NEW d \in DSPAs, NEW names, ValidateManagedPipelineNames(d, names),
             NamesOf(job[d].img, names), job[d].img \in AllImages,
             UNCHANGED <<spec, registry, default, now, events>>,
             DOMAIN cache' \subseteq AllImages,
             \A i \in DOMAIN cache' : cache'[i] \in Entry, CacheIsRight'
      PROVE  FetchInv'
  <2> DEFINE verdict == IF job[d].spec.pipelines \subseteq names THEN "valid" ELSE "invalid"
  <2>1. Deserved([verdict |-> verdict, spec |-> job[d].spec, img |-> job[d].img])
    BY <1>v, NamesDecide
  <2>2. verdict \in Verdicts
    BY DEF Verdicts
  <2>3. PICK again \in BOOLEAN : again = FALSE
    OBVIOUS
  <2>4. Finish(d, job[d].spec, job[d].img, verdict, again)
    BY <1>v, <2>3 DEF ValidateManagedPipelineNames, Finish
  <2> HIDE DEF verdict
  <2> QED BY <1>0, <1>j, <1>v, <2>1, <2>2, <2>4, FinishStep
<1>1. ASSUME NEW d \in DSPAs, Start(d) PROVE FetchInv'
  <2>1. UNCHANGED <<spec, cache, registry, default, now, events>> /\ spec[d] \in Specs
    BY <1>0, <1>1 DEF Start
  <2>2. ASSUME NEW verdict \in {"paramsError", "notApplicable", "invalid"},
               NEW again \in BOOLEAN, verdict = "invalid" => BadReference(spec[d]),
               Finish(d, spec[d], None, verdict, again)
        PROVE  FetchInv'
    <3>1. Deserved([verdict |-> verdict, spec |-> spec[d], img |-> None])
      BY <2>2 DEF Deserved
    <3>2. verdict \in Verdicts
      BY DEF Verdicts
    <3> QED BY <1>0, <1>u, <2>1, <2>2, <3>1, <3>2, FinishStep
  <2>3. CASE ~BadReference(spec[d])
             /\ job' = [job EXCEPT ![d].pc = "resolve", ![d].spec = spec[d]]
             /\ queued' = [queued EXCEPT ![d] = FALSE] /\ UNCHANGED result
    <3> DEFINE j == [job[d] EXCEPT !.pc = "resolve", !.spec = spec[d]]
    <3>1. j \in Job /\ j.pc = "resolve" /\ j.spec = spec[d]
      BY <1>j, <2>1 DEF Job, Steps
    <3>2. job' = [job EXCEPT ![d] = j]
      BY <1>0, <2>3
    <3>3. queued' \in [DSPAs -> BOOLEAN]
      BY <1>0, <2>3
    <3> HIDE DEF j
    <3> QED BY <1>u, <2>1, <2>3, <3>1, <3>2, <3>3, JobStep
  <2>4. PICK yes \in BOOLEAN, no \in BOOLEAN : yes = TRUE /\ no = FALSE
    OBVIOUS
  <2>5. \/ Finish(d, spec[d], None, "paramsError", yes)
        \/ Finish(d, spec[d], None, "notApplicable", no)
        \/ BadReference(spec[d]) /\ Finish(d, spec[d], None, "invalid", no)
        \/ /\ ~BadReference(spec[d])
           /\ job' = [job EXCEPT ![d].pc = "resolve", ![d].spec = spec[d]]
           /\ queued' = [queued EXCEPT ![d] = FALSE] /\ UNCHANGED result
    BY <1>1, <2>4 DEF Start, Finish
  <2> QED BY <2>2, <2>3, <2>5
<1>2. ASSUME NEW d \in DSPAs, resolveImageDigest(d) PROVE FetchInv'
  <2>1. job[d].pc = "resolve" /\ UNCHANGED <<spec, cache, registry, default, now>>
    BY <1>2 DEF resolveImageDigest
  <2>2. CASE Event /\ Transient(d)
    BY <1>e, <1>t, <2>1, <2>2
  <2>3. CASE /\ job' = [job EXCEPT ![d].pc = "lookup",
                                   ![d].img = registry[Reference(job[d].spec)]]
             /\ UNCHANGED <<result, queued, events>>
    <3> DEFINE j == [job[d] EXCEPT !.pc = "lookup", !.img = registry[Reference(job[d].spec)]]
    <3>1. ~BadReference(job[d].spec)
      BY <1>c, <2>1 DEF JobsAreRight
    <3>2. registry[Reference(job[d].spec)] \in AllImages
      BY <1>0, <3>1 DEF BadReference
    <3>3. j \in Job /\ j.pc = "lookup" /\ j.spec = job[d].spec /\ j.img \in AllImages
      BY <1>j, <3>2 DEF Job, Steps
    <3>4. job' = [job EXCEPT ![d] = j]
      BY <1>0, <2>3
    <3> HIDE DEF j
    <3> QED BY <1>0, <1>u, <2>1, <2>3, <3>1, <3>3, <3>4, JobStep
  <2> QED BY <1>2, <2>2, <2>3 DEF resolveImageDigest
<1>3. ASSUME NEW d \in DSPAs, getCached(d) PROVE FetchInv'
  <2>1. job[d].pc = "lookup" /\ UNCHANGED <<spec, registry, default, now, events>>
    BY <1>3 DEF getCached
  <2>2. job[d].img \in AllImages /\ ~BadReference(job[d].spec)
    BY <1>c, <2>1 DEF JobsAreRight
  <2>3. CASE /\ Fresh(job[d].img) /\ UNCHANGED cache
             /\ ValidateManagedPipelineNames(d, cache[job[d].img].names)
    <3>1. NamesOf(job[d].img, cache[job[d].img].names)
      BY <1>c, <2>3 DEF Fresh, CacheIsRight
    <3> QED BY <1>u, <1>v, <2>1, <2>2, <2>3, <3>1
  <2>4. CASE /\ cache' = Drop(cache, {job[d].img})
             /\ Goto(d, "extract") /\ UNCHANGED <<queued, result>>
    <3> DEFINE j == [job[d] EXCEPT !.pc = "extract"]
    <3>1. j \in Job /\ j.pc = "extract" /\ j.spec = job[d].spec /\ j.img = job[d].img
      BY <1>j DEF Job, Steps
    <3>2. job' = [job EXCEPT ![d] = j]
      BY <1>0, <2>4 DEF Goto
    <3>3. DOMAIN cache' \subseteq DOMAIN cache /\ \A i \in DOMAIN cache' : cache'[i] = cache[i]
      BY <2>4 DEF Drop
    <3>4. /\ DOMAIN cache' \subseteq AllImages /\ \A i \in DOMAIN cache' : cache'[i] \in Entry
          /\ CacheIsRight'
      BY <1>0, <1>c, <3>3 DEF CacheIsRight
    <3> HIDE DEF j
    <3> QED BY <1>0, <2>1, <2>2, <2>4, <3>1, <3>2, <3>4, JobStep
  <2> QED BY <1>3, <2>3, <2>4 DEF getCached
<1>4. ASSUME NEW d \in DSPAs, Extract(d) PROVE FetchInv'
  <2> DEFINE m == Manifest(job[d].img)
  <2>1. job[d].pc = "extract" /\ UNCHANGED <<spec, cache, registry, default, now>>
    BY <1>4 DEF Extract
  <2>2. job[d].img \in AllImages /\ ~BadReference(job[d].spec)
    BY <1>c, <2>1 DEF JobsAreRight
  <2>3. CASE /\ m.kind = "manifest"
             /\ job' = [job EXCEPT ![d].pc = "put", ![d].names = m.names]
             /\ UNCHANGED <<queued, result, events>>
    <3> DEFINE j == [job[d] EXCEPT !.pc = "put", !.names = m.names]
    <3>0. m.names \in SUBSET Names
      BY <2>2, <2>3, ManifestType
    <3>1. j \in Job /\ j.pc = "put" /\ j.spec = job[d].spec /\ j.img = job[d].img
          /\ j.names = m.names
      BY <1>j, <3>0 DEF Job, Steps
    <3>2. job' = [job EXCEPT ![d] = j]
      BY <1>0, <2>3
    <3>3. NamesOf(j.img, j.names)
      BY <2>3, <3>1 DEF NamesOf
    <3> HIDE DEF j, m
    <3> QED BY <1>0, <1>u, <2>1, <2>2, <2>3, <3>1, <3>2, <3>3, JobStep
  <2>4. CASE m.kind \in {"malformed", "whiteout", "notFound"} /\ Block(d) /\ UNCHANGED events
    <3>1. ~Lists(job[d].img, job[d].spec) /\ m.kind # "unreadable"
      BY <2>4 DEF Lists, Manifest
    <3>2. Deserved([verdict |-> "invalid", spec |-> job[d].spec, img |-> job[d].img])
      BY <3>1 DEF Deserved
    <3>3. PICK again \in BOOLEAN : again = FALSE
      OBVIOUS
    <3>4. Finish(d, job[d].spec, job[d].img, "invalid", again)
      BY <2>4, <3>3 DEF Block, Finish
    <3> QED BY <1>0, <1>j, <1>u, <2>1, <2>4, <3>2, <3>4, FinishStep DEF Verdicts
  <2>5. CASE Transient(d) /\ (UNCHANGED events \/ Event)
    BY <1>0, <1>e, <1>t, <2>1, <2>5
  <2> QED BY <1>4, <2>3, <2>4, <2>5 DEF Extract, Manifest
<1>5. ASSUME NEW d \in DSPAs, putCache(d) PROVE FetchInv'
  <2> DEFINE kept == Drop(cache, {i \in DOMAIN cache : Expired(cache[i])})
  <2>1. /\ job[d].pc = "put" /\ UNCHANGED <<spec, registry, default, now, events>>
        /\ ValidateManagedPipelineNames(d, job[d].names)
        /\ cache' = [i \in DOMAIN kept \cup {job[d].img} |->
                        IF i = job[d].img
                        THEN [names |-> job[d].names, fetchedAt |-> now] ELSE kept[i]]
    BY <1>5 DEF putCache
  <2>2. job[d].img \in AllImages /\ NamesOf(job[d].img, job[d].names)
    BY <1>c, <2>1 DEF JobsAreRight
  <2>3. DOMAIN kept \subseteq DOMAIN cache /\ \A i \in DOMAIN kept : kept[i] = cache[i]
    BY DEF Drop
  <2> HIDE DEF kept
  <2>4. [names |-> job[d].names, fetchedAt |-> now] \in Entry
    BY <1>0, <1>j DEF Entry
  <2>5. /\ DOMAIN cache' \subseteq AllImages
        /\ \A i \in DOMAIN cache' : \/ i \in DOMAIN cache /\ cache'[i] = cache[i]
                                    \/ /\ i = job[d].img
                                       /\ cache'[i] = [names |-> job[d].names, fetchedAt |-> now]
    BY <1>0, <2>1, <2>2, <2>3
  <2>6. /\ \A i \in DOMAIN cache' : cache'[i] \in Entry
        /\ CacheIsRight'
    BY <1>0, <1>c, <2>2, <2>4, <2>5 DEF CacheIsRight
  <2> QED BY <1>v, <2>1, <2>2, <2>5, <2>6
<1>6. ASSUME NEW d \in DSPAs, Edit(d) PROVE FetchInv'
  <2>1. PICK s \in Specs : spec' = [spec EXCEPT ![d] = s]
    BY <1>6 DEF Edit
  <2>2. spec' \in [DSPAs -> Specs] /\ queued' \in [DSPAs -> BOOLEAN] /\ events' \in Nat
    BY <1>0, <1>6, <1>e, <2>1 DEF Edit
  <2> QED BY <1>0, <1>6, <2>2, OtherStep DEF Edit
<1>7. ASSUME NEW d \in DSPAs, Resync(d) PROVE FetchInv'
  <2>1. queued' \in [DSPAs -> BOOLEAN]
    BY <1>0, <1>7 DEF Resync
  <2> QED BY <1>0, <1>7, <2>1, OtherStep DEF Resync
<1>8. ASSUME NEW t \in Tags \ Denied, Push(t) PROVE FetchInv'
  <2>1. PICK i \in PushedImages : registry' = [registry EXCEPT ![t] = i]
    BY <1>8 DEF Push
  <2>2. registry' \in [Tags \ Denied -> AllImages]
    BY <1>0, <2>1, ConstantsOK
  <2> QED BY <1>0, <1>8, <1>e, <2>2, OtherStep DEF Push
<1>9. CASE Tick
  <2>1. now' \in Nat /\ UNCHANGED <<spec, queued, job, result, cache, registry, default, events>>
    BY <1>0, <1>9 DEF Tick
  <2> QED BY <1>0, <2>1, OtherStep
<1>10. CASE UNCHANGED vars
  BY <1>0, <1>10, OtherStep DEF vars
<1> QED
  BY <1>1, <1>2, <1>3, <1>4, <1>5, <1>6, <1>7, <1>8, <1>9, <1>10 DEF Next, Reconcile

\* The type invariant holds for any number of DSPAs, tags and images: among others
\* only images of the registry come into the cache, with names that exist.
THEOREM FetcherTypeCorrect == Spec => []TypeOK
<1>1. FetchInv => TypeOK
  BY DEF FetchInv
<1> QED BY <1>1, FetchInit, FetchStep, PTL DEF Spec

\* Every verdict is about the very image the reconcile resolved and is deserved,
\* whoever filled the cache and however tags move (FetchPipelineNames, getCached,
\* putCache, validateManagedPipelines).
THEOREM VerdictsAreDeserved == Spec => []VerdictIsDeserved
<1>1. FetchInv => VerdictIsDeserved
  BY DEF FetchInv
<1> QED BY <1>1, FetchInit, FetchStep, PTL DEF Spec

-----------------------------------------------------------------------------
(* No edit is lost. *)

Final == {"notApplicable", "valid", "invalid"}

\* When d's name is not in the queue, the reconcile that runs is about its spec as
\* it is, and if none runs that spec has a final verdict: an edit in the middle of
\* a reconcile or a failed fetch is never the last word (RequeueAfter, the watch).
EveryEditIsJudged ==
    \A d \in DSPAs : ~queued[d] =>
        IF job[d].pc # "idle" THEN job[d].spec = spec[d]
        ELSE /\ result[d].spec = spec[d]
             /\ result[d].verdict \in {"notApplicable", "valid", "invalid"}

\* What EveryEditIsJudged says of d.
Judged(d) ==
    ~queued[d] =>
        IF job[d].pc # "idle" THEN job[d].spec = spec[d]
        ELSE result[d].spec = spec[d] /\ result[d].verdict \in Final

LEMMA JudgedAll == EveryEditIsJudged <=> \A d \in DSPAs : Judged(d)
BY DEF EveryEditIsJudged, Judged, Final

\* The end of a reconcile: either the name is queued again, or the spec that was
\* judged is the one there is.
LEMMA FinishJudges ==
    ASSUME TypeOK, NEW d \in DSPAs, Judged(d), NEW s, NEW img, NEW verdict,
           NEW again \in BOOLEAN, Finish(d, s, img, verdict, again), UNCHANGED spec,
           again \/ verdict \in Final,
           job[d].pc = "idle" => s = spec[d], job[d].pc # "idle" => s = job[d].spec
    PROVE  Judged(d)'
<1>1. /\ job'[d] = Idle /\ queued'[d] = ((queued[d] /\ job[d].pc # "idle") \/ again)
      /\ result'[d] = [verdict |-> verdict, spec |-> s, img |-> img]
  BY DEF Finish, TypeOK
<1> SUFFICES ASSUME ~queued'[d] PROVE result'[d].spec = spec[d] /\ result'[d].verdict \in Final
  BY <1>1, IdleType DEF Judged
<1>2. ~again /\ (job[d].pc # "idle" => ~queued[d])
  BY <1>1
<1>3. s = spec[d]
  BY <1>2 DEF Judged
<1> QED BY <1>1, <1>2, <1>3

LEMMA JudgedStep == TypeOK /\ EveryEditIsJudged /\ [Next]_vars => EveryEditIsJudged'
<1> SUFFICES ASSUME TypeOK, \A d \in DSPAs : Judged(d), [Next]_vars, NEW e \in DSPAs
             PROVE  Judged(e)'
  <2> SUFFICES ASSUME TypeOK, EveryEditIsJudged, [Next]_vars PROVE EveryEditIsJudged'
    OBVIOUS
  <2>1. \A d \in DSPAs : Judged(d)
    BY JudgedAll
  <2>2. \A d \in DSPAs : Judged(d)'
    BY <2>1
  <2> QED BY <2>2 DEF EveryEditIsJudged, Judged, Final
<1>0. job \in [DSPAs -> Job] /\ queued \in [DSPAs -> BOOLEAN] /\ spec \in [DSPAs -> Specs]
      /\ result \in [DSPAs -> Result]
  BY DEF TypeOK, Job, Result
<1>1. ASSUME UNCHANGED <<spec[e], job[e], result[e]>>, queued'[e] \/ queued'[e] = queued[e]
      PROVE  Judged(e)'
  BY <1>1 DEF Judged
<1>2. ASSUME NEW d \in DSPAs, d # e, Reconcile(d) PROVE Judged(e)'
  <2>1. UNCHANGED spec
    BY <1>2 DEF Reconcile, Start, resolveImageDigest, getCached, Extract, putCache
  <2>2. job'[e] = job[e] /\ result'[e] = result[e] /\ queued'[e] = queued[e]
    BY <1>0, <1>2 DEF Reconcile, Start, resolveImageDigest, getCached, Extract, putCache,
         Finish, Transient, Block, Goto, ValidateManagedPipelineNames
  <2> QED BY <1>1, <2>1, <2>2
<1>3. CASE Start(e)
  <2>1. job[e].pc = "idle" /\ UNCHANGED spec
    BY <1>3 DEF Start
  <2>2. PICK yes \in BOOLEAN, no \in BOOLEAN : yes = TRUE /\ no = FALSE
    OBVIOUS
  <2>3. \/ Finish(e, spec[e], None, "paramsError", yes)
        \/ Finish(e, spec[e], None, "notApplicable", no)
        \/ Finish(e, spec[e], None, "invalid", no)
        \/ job' = [job EXCEPT ![e].pc = "resolve", ![e].spec = spec[e]]
    BY <1>3, <2>2 DEF Start, Finish
  <2>4. CASE Finish(e, spec[e], None, "paramsError", yes)
    BY <2>1, <2>2, <2>4, FinishJudges
  <2>5. CASE Finish(e, spec[e], None, "notApplicable", no)
    BY <2>1, <2>2, <2>5, FinishJudges DEF Final
  <2>6. CASE Finish(e, spec[e], None, "invalid", no)
    BY <2>1, <2>2, <2>6, FinishJudges DEF Final
  <2>7. CASE job' = [job EXCEPT ![e].pc = "resolve", ![e].spec = spec[e]]
    <3>1. job'[e].pc = "resolve" /\ job'[e].spec = spec[e]
      BY <1>0, <2>7 DEF Job
    <3> QED BY <2>1, <3>1 DEF Judged
  <2> QED BY <2>3, <2>4, <2>5, <2>6, <2>7
<1>4. ASSUME job[e].pc # "idle", job'[e].pc # "idle", job'[e].spec = job[e].spec,
             UNCHANGED <<spec, queued>>
      PROVE  Judged(e)'
  BY <1>4 DEF Judged
<1>5. ASSUME job[e].pc # "idle", UNCHANGED spec, Transient(e) PROVE Judged(e)'
  <2>1. PICK again \in BOOLEAN : again = TRUE
    OBVIOUS
  <2>2. Finish(e, job[e].spec, job[e].img, "fetchError", again)
    BY <1>5, <2>1 DEF Transient, Finish
  <2> QED BY <1>5, <2>1, <2>2, FinishJudges
<1>6. ASSUME job[e].pc # "idle", UNCHANGED spec,
             Block(e) \/ \E names : ValidateManagedPipelineNames(e, names)
      PROVE  Judged(e)'
  <2>1. PICK again \in BOOLEAN : again = FALSE
    OBVIOUS
  <2>2. \E verdict \in Final : Finish(e, job[e].spec, job[e].img, verdict, again)
    BY <1>6, <2>1 DEF Block, ValidateManagedPipelineNames, Finish, Final
  <2>3. PICK verdict \in Final : Finish(e, job[e].spec, job[e].img, verdict, again)
    BY <2>2
  <2> QED BY <1>6, <2>1, <2>3, FinishJudges
<1>7. CASE resolveImageDigest(e)
  <2>1. job[e].pc = "resolve" /\ UNCHANGED spec
    BY <1>7 DEF resolveImageDigest
  <2>2. CASE Transient(e)
    BY <1>5, <2>1, <2>2
  <2>3. CASE ~Transient(e)
    <3>1. job' = [job EXCEPT ![e].pc = "lookup", ![e].img = registry[Reference(job[e].spec)]]
          /\ UNCHANGED queued
      BY <1>7, <2>3 DEF resolveImageDigest
    <3>2. job'[e].pc = "lookup" /\ job'[e].spec = job[e].spec
      BY <1>0, <3>1 DEF Job
    <3> QED BY <1>4, <2>1, <3>1, <3>2
  <2> QED BY <2>2, <2>3
<1>8. CASE getCached(e)
  <2>1. job[e].pc = "lookup" /\ UNCHANGED spec
    BY <1>8 DEF getCached
  <2>2. CASE \E names : ValidateManagedPipelineNames(e, names)
    BY <1>6, <2>1, <2>2
  <2>3. CASE Goto(e, "extract") /\ UNCHANGED queued
    <3>1. job'[e].pc = "extract" /\ job'[e].spec = job[e].spec
      BY <1>0, <2>3 DEF Goto, Job
    <3> QED BY <1>4, <2>1, <2>3, <3>1
  <2> QED BY <1>8, <2>2, <2>3 DEF getCached
<1>9. CASE Extract(e)
  <2>1. job[e].pc = "extract" /\ UNCHANGED spec
    BY <1>9 DEF Extract
  <2>2. CASE Transient(e) \/ Block(e)
    BY <1>5, <1>6, <2>1, <2>2
  <2>3. CASE ~(Transient(e) \/ Block(e))
    <3>1. /\ job' = [job EXCEPT ![e].pc = "put",
                                ![e].names = extractManifestFromImage(job[e].img).names]
          /\ UNCHANGED queued
      BY <1>9, <2>3 DEF Extract
    <3>2. job'[e].pc = "put" /\ job'[e].spec = job[e].spec
      BY <1>0, <3>1 DEF Job
    <3> QED BY <1>4, <2>1, <3>1, <3>2
  <2> QED BY <2>2, <2>3
<1>10. CASE putCache(e)
  BY <1>6, <1>10 DEF putCache
<1>11. ASSUME NEW d \in DSPAs, Edit(d) \/ Resync(d) PROVE Judged(e)'
  <2>1. UNCHANGED <<job, result>> /\ queued' = [queued EXCEPT ![d] = TRUE]
        /\ (spec' = spec \/ \E s \in Specs : spec' = [spec EXCEPT ![d] = s])
    BY <1>11 DEF Edit, Resync
  <2>2. CASE d = e
    <3>1. queued'[e]
      BY <1>0, <2>1, <2>2
    <3> QED BY <3>1 DEF Judged
  <2>3. CASE d # e
    <3>1. queued'[e] = queued[e] /\ spec'[e] = spec[e]
      BY <1>0, <2>1, <2>3
    <3> QED BY <1>1, <2>1, <3>1
  <2> QED BY <2>2, <2>3
<1>12. CASE Tick \/ UNCHANGED vars \/ \E t \in Tags \ Denied : Push(t)
  <2>1. UNCHANGED <<spec, job, result, queued>>
    BY <1>12 DEF Tick, vars, Push
  <2> QED BY <1>1, <2>1
<1> QED
  BY <1>2, <1>3, <1>7, <1>8, <1>9, <1>10, <1>11, <1>12 DEF Next, Reconcile

\* A DSPA whose name is not in the queue is judged by its spec as it is, or is just
\* being so: no edit in the middle of a reconcile and no failed fetch is lost, the
\* safety half of FetchErrorsHeal and VerdictCatchesUp (RequeueAfter, the watch).
THEOREM EditsAreJudged == Spec => []EveryEditIsJudged
<1>1. Init => EveryEditIsJudged
  BY DEF Init, EveryEditIsJudged
<1>2. FetchInv => TypeOK
  BY DEF FetchInv
<1> QED BY <1>1, <1>2, FetchInit, FetchStep, JudgedStep, PTL DEF Spec

=============================================================================
