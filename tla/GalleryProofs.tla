---------------------------- MODULE GalleryProofs ----------------------------
(***************************************************************************)
(* For any finite document and any number of fetches: the page shows whole *)
(* galleries only, and without overlapping fetches no photo disappears.    *)
(***************************************************************************)
EXTENDS Gallery, FiniteSetTheorems, SequenceTheorems, TLAPS

UrlsOf(s) == {s[k].url : k \in 1..Len(s)}

\* The group counts the downloads that are running, and every other path of the
\* document has its result.
GroupCounts ==
    \A f \in Fetches :
        /\ fetch[f].phase # "loading" => fetch[f].left = {}
        /\ fetch[f].left \subseteq fetch[f].urls
        /\ fetch[f].group = Cardinality(fetch[f].left)
        /\ fetch[f].phase = "loading" =>
              /\ Len(fetch[f].got) + fetch[f].group = Cardinality(fetch[f].urls)
              /\ UrlsOf(fetch[f].got) = fetch[f].urls \ fetch[f].left

\* Without overlap there is one fetch at a time, and none once there are photos.
OneFetch ==
    ~overlapped => /\ \A f, h \in Fetches : f \in Busy /\ h \in Busy => f = h
                   /\ photos # <<>> => Busy = {}

IInv == TypeOK /\ GroupCounts /\ WholeGallery /\ OneFetch

\* Any set of paths is finite and has a number of elements.
LEMMA Finite == ASSUME NEW us \in SUBSET Urls
                PROVE  IsFiniteSet(us) /\ Cardinality(us) \in Nat
  BY UrlsAreFinite, FS_Subset, FS_CardinalityType

\* One download fewer.
LEMMA OneLess == ASSUME NEW us \in SUBSET Urls, NEW u \in us
                 PROVE  /\ Cardinality(us \ {u}) = Cardinality(us) - 1
                        /\ Cardinality(us \ {u}) \in Nat
<1>1. IsFiniteSet(us) /\ us \ {u} \in SUBSET Urls
  BY Finite
<1> QED BY <1>1, Finite, FS_RemoveElement

\* AsPhotos keeps the paths and the number of the images.
LEMMA AsPhotosKeeps ==
    ASSUME NEW got \in Seq(Image)
    PROVE  /\ AsPhotos(got) \in Seq(Photo)
           /\ Len(AsPhotos(got)) = Len(got)
           /\ UrlsOf(AsPhotos(got)) = UrlsOf(got)
<1>1. Len(got) \in Nat /\ \A k \in 1..Len(got) : got[k] \in Image
  BY LenProperties, ElementOfSeq
<1>2. \A k \in 1..Len(got) :
        [url |-> got[k].url, photo |-> IF got[k].image = "nil" THEN "blank" ELSE "loaded"]
            \in Photo
  BY <1>1 DEF Image, Photo
<1>3. AsPhotos(got) \in Seq(Photo) /\ Len(AsPhotos(got)) = Len(got)
  BY <1>1, <1>2 DEF AsPhotos
<1>4. \A k \in 1..Len(got) : AsPhotos(got)[k].url = got[k].url
  BY DEF AsPhotos
<1> QED BY <1>3, <1>4 DEF UrlsOf

\* Appending an image adds its path.
LEMMA AppendUrl ==
    ASSUME NEW got \in Seq(Image), NEW u \in Urls, NEW i \in {"loaded", "nil"}
    PROVE  LET new == Append(got, [url |-> u, image |-> i]) IN
           /\ new \in Seq(Image)
           /\ Len(new) = Len(got) + 1
           /\ UrlsOf(new) = UrlsOf(got) \cup {u}
<1> DEFINE e == [url |-> u, image |-> i]
           new == Append(got, e)
<1>1. e \in Image
  BY DEF Image
<1>2. /\ new \in Seq(Image) /\ Len(got) \in Nat /\ Len(new) = Len(got) + 1
      /\ \A k \in 1..Len(got) : new[k] = got[k]
      /\ new[Len(got) + 1] = e
  BY <1>1, AppendProperties, LenProperties
<1>3. e.url = u
  OBVIOUS
<1> HIDE DEF new, e
<1>4. UrlsOf(new) \subseteq UrlsOf(got) \cup {u}
  BY <1>2, <1>3 DEF UrlsOf
<1>5. UrlsOf(got) \cup {u} \subseteq UrlsOf(new)
  BY <1>2, <1>3 DEF UrlsOf
<1> QED BY <1>2, <1>4, <1>5 DEF new, e

\* The page after a launch satisfies the inductive invariant.
LEMMA InitIInv == Init => IInv
<1> SUFFICES ASSUME Init PROVE IInv
  OBVIOUS
<1>1. Idle \in FetchState /\ Idle.phase = "idle" /\ Idle.left = {} /\ Idle.group = 0
  BY DEF Idle, FetchState
<1>2. Cardinality({}) = 0
  BY FS_EmptySet
<1>3. TypeOK
  <2>1. server \subseteq Urls /\ cache \subseteq Urls /\ shown \subseteq Urls
    BY DEF Init
  <2>2. fetch \in [Fetches -> FetchState]
    BY <1>1 DEF Init
  <2>3. photos \in Seq(Photo) /\ selectedPhoto \in {None} \cup Photo
    BY DEF Init
  <2>4. overlapped \in BOOLEAN
    BY DEF Init
  <2> QED BY <2>1, <2>2, <2>3, <2>4 DEF TypeOK
<1>4. GroupCounts
  BY <1>1, <1>2 DEF Init, GroupCounts
<1>5. WholeGallery
  BY <1>2 DEF Init, WholeGallery
<1>6. OneFetch
  BY <1>1 DEF Init, OneFetch, Busy
<1> QED BY <1>3, <1>4, <1>5, <1>6 DEF IInv

\* A step of one fetch that leaves the page alone and keeps that fetch's counts.
LEMMA FetchStep ==
    ASSUME IInv, NEW f \in Fetches, NEW r \in FetchState, Fetch(f, r),
           server' \subseteq Urls, cache' \subseteq Urls, overlapped' = overlapped,
           UNCHANGED page,
           r.phase # "loading" => r.left = {},
           r.left \subseteq r.urls,
           r.group = Cardinality(r.left),
           r.phase = "loading" => /\ Len(r.got) + r.group = Cardinality(r.urls)
                                  /\ UrlsOf(r.got) = r.urls \ r.left,
           fetch[f].phase # "idle"
    PROVE  IInv'
<1> USE DEF IInv
<1>1. /\ fetch \in [Fetches -> FetchState]
      /\ fetch' \in [Fetches -> FetchState]
      /\ fetch'[f] = r
      /\ \A h \in Fetches \ {f} : fetch'[h] = fetch[h]
  BY DEF TypeOK, Fetch
<1>2. TypeOK'
  BY <1>1 DEF TypeOK, page
<1>3. GroupCounts'
  <2> SUFFICES ASSUME NEW h \in Fetches
               PROVE  /\ fetch'[h].phase # "loading" => fetch'[h].left = {}
                      /\ fetch'[h].left \subseteq fetch'[h].urls
                      /\ fetch'[h].group = Cardinality(fetch'[h].left)
                      /\ fetch'[h].phase = "loading" =>
                            /\ Len(fetch'[h].got) + fetch'[h].group
                                  = Cardinality(fetch'[h].urls)
                            /\ UrlsOf(fetch'[h].got) = fetch'[h].urls \ fetch'[h].left
    BY DEF GroupCounts
  <2>1. CASE h = f
    BY <2>1, <1>1
  <2>2. CASE h # f
    <3>1. fetch'[h] = fetch[h]
      BY <2>2, <1>1
    <3> QED BY <3>1 DEF GroupCounts
  <2> QED BY <2>1, <2>2
<1>4. WholeGallery'
  BY DEF WholeGallery, page
<1>5. OneFetch'
  <2>1. Busy' \subseteq Busy
    BY <1>1 DEF Busy
  <2> QED BY <2>1 DEF OneFetch, page
<1> QED BY <1>2, <1>3, <1>4, <1>5

\* Every step keeps the inductive invariant.
LEMMA NextIInv == IInv /\ [Next]_vars => IInv'
<1> SUFFICES ASSUME IInv, [Next]_vars PROVE IInv'
  OBVIOUS
<1>0. Idle \in FetchState /\ Idle.phase = "idle" /\ Idle.left = {} /\ Idle.group = 0
      /\ Idle.urls = {}
  BY DEF Idle, FetchState
<1>c. Cardinality({}) = 0
  BY FS_EmptySet
<1>1. ASSUME NEW u \in Urls, NEW old, Publish(u, old) PROVE IInv'
  <2>1. TypeOK'
    BY <1>1 DEF IInv, TypeOK, Publish, page
  <2>2. GroupCounts' /\ WholeGallery' /\ OneFetch'
    BY <1>1 DEF IInv, GroupCounts, WholeGallery, OneFetch, Busy, Publish, page
  <2> QED BY <2>1, <2>2 DEF IInv
<1>2. ASSUME NEW f \in Fetches, Appear(f) PROVE IInv'
  <2>0. /\ fetch' = [fetch EXCEPT ![f] = [Idle EXCEPT !.phase = "asking"]]
        /\ photos = <<>> /\ photos' = photos /\ f \notin Busy
        /\ UNCHANGED <<server, cache, selectedPhoto, shown>>
    BY <1>2 DEF Appear, RetrieveGallery, Fetch, page
  <2>1. [Idle EXCEPT !.phase = "asking"] \in FetchState
    BY <1>0 DEF FetchState
  <2>2. /\ fetch \in [Fetches -> FetchState] /\ fetch' \in [Fetches -> FetchState]
        /\ fetch'[f].phase = "asking" /\ fetch'[f].left = {} /\ fetch'[f].group = 0
        /\ \A h \in Fetches \ {f} : fetch'[h] = fetch[h]
    BY <2>0, <2>1 DEF IInv, TypeOK, Idle
  <2>3. overlapped' \in BOOLEAN
    BY <1>2 DEF Appear, RetrieveGallery
  <2>4. TypeOK'
    BY <2>0, <2>2, <2>3 DEF IInv, TypeOK
  <2>5. GroupCounts'
    BY <2>2, <1>c DEF IInv, GroupCounts
  <2>6. WholeGallery'
    BY <2>0 DEF IInv, WholeGallery
  <2>7. ASSUME ~overlapped' PROVE Busy = {}
    BY <1>2, <2>7 DEF Appear, RetrieveGallery
  <2>8. OneFetch'
    <3>1. Busy' \subseteq Busy \cup {f}
      BY <2>2 DEF Busy
    <3> QED BY <2>7, <3>1, <2>0 DEF OneFetch
  <2> QED BY <2>4, <2>5, <2>6, <2>8 DEF IInv
<1>3. ASSUME NEW f \in Fetches, NEW urls \in SUBSET Urls, GotUrls(f, urls) PROVE IInv'
  <2> DEFINE r == [phase |-> "loading", urls |-> urls, left |-> urls,
                   group |-> Cardinality(urls), got |-> <<>>]
  <2>1. Cardinality(urls) \in Nat
    BY Finite
  <2>2. r \in FetchState
    BY <2>1 DEF FetchState
  <2>3. UrlsOf(r.got) = {} /\ Len(r.got) = 0
    BY DEF UrlsOf
  <2>4. /\ r.phase = "loading" /\ r.left = urls /\ r.urls = urls
        /\ r.group = Cardinality(urls)
    OBVIOUS
  <2>5. /\ Fetch(f, r) /\ server' = server /\ cache' = urls /\ UNCHANGED page
        /\ overlapped' = overlapped /\ fetch[f].phase # "idle"
    BY <1>3 DEF GotUrls
  <2>6. server' \subseteq Urls /\ cache' \subseteq Urls
    BY <2>5 DEF IInv, TypeOK
  <2> HIDE DEF r
  <2>7. Len(r.got) + r.group = Cardinality(r.urls) /\ UrlsOf(r.got) = r.urls \ r.left
    BY <2>1, <2>3, <2>4
  <2> QED BY <2>2, <2>4, <2>5, <2>6, <2>7, FetchStep
<1>4. ASSUME NEW f \in Fetches, UrlsError(f) PROVE IInv'
  <2>1. /\ Fetch(f, Idle) /\ server' = server /\ cache' = cache /\ UNCHANGED page
        /\ overlapped' = overlapped /\ fetch[f].phase # "idle"
    BY <1>4 DEF UrlsError
  <2>2. server' \subseteq Urls /\ cache' \subseteq Urls
    BY <2>1 DEF IInv, TypeOK
  <2> QED BY <1>0, <1>c, <2>1, <2>2, FetchStep
<1>5. ASSUME NEW f \in Fetches, NEW u \in Urls, NEW i \in {"loaded", "nil"},
             Retrieved(f, u, i)
      PROVE  IInv'
  <2> DEFINE o == fetch[f]
             new == Append(o.got, [url |-> u, image |-> i])
             r == [o EXCEPT !.left = @ \ {u}, !.group = @ - 1,
                            !.got = Append(@, [url |-> u, image |-> i])]
  <2>1. /\ u \in o.left /\ Fetch(f, r) /\ server' = server /\ cache' = cache
        /\ UNCHANGED page /\ overlapped' = overlapped
    BY <1>5 DEF Retrieved
  <2>2. /\ o \in FetchState /\ o.phase = "loading" /\ o.left \subseteq o.urls
        /\ o.group = Cardinality(o.left)
        /\ Len(o.got) + o.group = Cardinality(o.urls)
        /\ UrlsOf(o.got) = o.urls \ o.left
    BY <2>1 DEF IInv, TypeOK, GroupCounts
  <2>3. /\ o.got \in Seq(Image) /\ o.left \in SUBSET Urls /\ o.urls \in SUBSET Urls
        /\ o.group \in Nat
    BY <2>2 DEF FetchState
  <2>4. /\ new \in Seq(Image) /\ Len(new) = Len(o.got) + 1
        /\ UrlsOf(new) = UrlsOf(o.got) \cup {u}
    BY <2>3, AppendUrl
  <2>5. /\ Cardinality(o.left \ {u}) = o.group - 1
        /\ o.group - 1 \in Nat
    BY <2>1, <2>2, <2>3, OneLess
  <2>6. /\ r.phase = "loading" /\ r.urls = o.urls /\ r.left = o.left \ {u}
        /\ r.group = o.group - 1 /\ r.got = new
    BY <2>2 DEF FetchState
  <2>7. r \in FetchState
    BY <2>2, <2>3, <2>4, <2>5 DEF FetchState
  <2>8. Len(o.got) \in Nat
    BY <2>3, LenProperties
  <2>9. server' \subseteq Urls /\ cache' \subseteq Urls
    BY <2>1 DEF IInv, TypeOK
  <2> HIDE DEF r, new
  <2>10. Len(r.got) + r.group = Cardinality(r.urls)
    BY <2>2, <2>3, <2>4, <2>6, <2>8
  <2>11. UrlsOf(r.got) = r.urls \ r.left
    BY <2>1, <2>2, <2>4, <2>6
  <2>12. r.left \subseteq r.urls /\ r.group = Cardinality(r.left) /\ o.phase # "idle"
    BY <2>2, <2>5, <2>6
  <2> QED BY <2>1, <2>6, <2>7, <2>9, <2>10, <2>11, <2>12, FetchStep
<1>6. ASSUME NEW f \in Fetches, Notify(f) PROVE IInv'
  <2> DEFINE o == fetch[f]
  <2>1. /\ fetch' = [fetch EXCEPT ![f] = Idle]
        /\ photos' = AsPhotos(o.got) /\ shown' = o.urls
        /\ o.phase = "loading" /\ o.group = 0
        /\ UNCHANGED <<server, cache, selectedPhoto, overlapped>>
    BY <1>6 DEF Notify, Fetch
  <2>2. /\ o \in FetchState /\ o.left \subseteq o.urls
        /\ o.group = Cardinality(o.left)
        /\ Len(o.got) + o.group = Cardinality(o.urls)
        /\ UrlsOf(o.got) = o.urls \ o.left
    BY <2>1 DEF IInv, TypeOK, GroupCounts
  <2>3. o.got \in Seq(Image) /\ o.left \in SUBSET Urls /\ o.urls \in SUBSET Urls
    BY <2>2 DEF FetchState
  <2>4. o.left = {}
    BY <2>1, <2>2, <2>3, Finite, FS_EmptySet
  <2>5. Len(o.got) \in Nat
    BY <2>3, LenProperties
  <2>6. /\ photos' \in Seq(Photo) /\ Len(photos') = Cardinality(shown')
        /\ UrlsOf(photos') = shown'
    BY <2>1, <2>2, <2>3, <2>4, <2>5, AsPhotosKeeps
  <2>7. /\ fetch \in [Fetches -> FetchState] /\ fetch' \in [Fetches -> FetchState]
        /\ fetch'[f] = Idle /\ \A h \in Fetches \ {f} : fetch'[h] = fetch[h]
    BY <2>1, <1>0 DEF IInv, TypeOK
  <2>8. TypeOK'
    BY <2>1, <2>3, <2>6, <2>7 DEF IInv, TypeOK
  <2>9. GroupCounts'
    BY <2>7, <1>0, <1>c DEF IInv, GroupCounts
  <2>10. WholeGallery'
    BY <2>6 DEF WholeGallery, UrlsOf
  <2>11. OneFetch'
    <3>1. f \in Busy /\ Busy' = Busy \ {f}
      BY <2>1, <2>7, <1>0 DEF Busy
    <3>2. ASSUME ~overlapped' PROVE ~overlapped
      BY <2>1, <3>2
    <3>3. ASSUME ~overlapped' PROVE Busy' = {}
      BY <3>1, <3>2, <3>3 DEF IInv, OneFetch, Busy
    <3> QED BY <3>3 DEF OneFetch
  <2> QED BY <2>8, <2>9, <2>10, <2>11 DEF IInv
<1>7. ASSUME UNCHANGED <<server, cache, fetch, photos, shown, overlapped>>,
             selectedPhoto' \in {None} \cup Photo
      PROVE  IInv'
  <2>1. TypeOK'
    BY <1>7 DEF IInv, TypeOK
  <2>2. GroupCounts' /\ WholeGallery' /\ OneFetch'
    BY <1>7 DEF IInv, GroupCounts, WholeGallery, OneFetch, Busy
  <2> QED BY <2>1, <2>2 DEF IInv
<1>8. ASSUME NEW k \in 1..Len(photos), TapPhoto(k) PROVE IInv'
  <2>1. photos[k] \in Photo
    BY ElementOfSeq DEF IInv, TypeOK
  <2> QED BY <1>7, <1>8, <2>1 DEF TapPhoto
<1>9. ASSUME DismissPhoto PROVE IInv'
  BY <1>7, <1>9 DEF DismissPhoto
<1>10. ASSUME Relaunch PROVE IInv'
  <2>1. server' = server /\ cache' = cache /\ overlapped' = FALSE
        /\ fetch' = [f \in Fetches |-> Idle]
        /\ photos' = <<>> /\ selectedPhoto' = None /\ shown' = {}
    BY <1>10 DEF Relaunch
  <2>2. overlapped' \in BOOLEAN
    BY <2>1
  <2>3. photos' \in Seq(Photo) /\ fetch' \in [Fetches -> FetchState]
    BY <2>1, <1>0
  <2>4. TypeOK'
    BY <2>1, <2>2, <2>3 DEF IInv, TypeOK
  <2>5. GroupCounts'
    BY <2>1, <1>0, <1>c DEF GroupCounts
  <2>6. WholeGallery'
    BY <2>1, <1>c DEF WholeGallery
  <2>7. OneFetch'
    BY <2>1, <1>0 DEF OneFetch, Busy
  <2> QED BY <2>4, <2>5, <2>6, <2>7 DEF IInv
<1>11. CASE UNCHANGED vars
  BY <1>11, <1>7 DEF vars, page, IInv, TypeOK
<1>12. server \in SUBSET Urls /\ cache \in SUBSET Urls
  BY DEF IInv, TypeOK
<1> QED BY <1>1, <1>2, <1>3, <1>4, <1>5, <1>6, <1>8, <1>9, <1>10, <1>11, <1>12
        DEF Next, RetrieveOK, RetrieveFailed

\* The inductive invariant holds at all times.
LEMMA AlwaysIInv == Spec => []IInv
  BY InitIInv, NextIInv, PTL DEF Spec

\* Every variable keeps its type for every document and number of fetches; in
\* particular a group is never left more often than it was entered.
THEOREM TypeCorrect == Spec => []TypeOK
<1>1. IInv => TypeOK
  BY DEF IInv
<1> QED BY <1>1, AlwaysIInv, PTL

\* The page shows every path of the document it read, once, whatever the order in
\* which the downloads end and however many fetches overlap.
THEOREM Whole == Spec => []WholeGallery
<1>1. IInv => WholeGallery
  BY DEF IInv
<1> QED BY <1>1, AlwaysIInv, PTL

\* Without overlapping fetches a loaded photo stays until the page is gone.
THEOREM LoadedStay == Spec => LoadedPhotosStay
<1>1. IInv /\ [Next]_vars => [\/ overlapped
                                 \/ Loaded(photos) \subseteq Loaded(photos')
                                 \/ Relaunch]_vars
  <2> SUFFICES ASSUME IInv, Next, ~overlapped, ~Relaunch
               PROVE  Loaded(photos) \subseteq Loaded(photos')
    OBVIOUS
  <2>1. ASSUME NEW f \in Fetches, Notify(f)
        PROVE  Loaded(photos) \subseteq Loaded(photos')
    <3>1. f \in Busy
      BY <2>1 DEF Notify, Busy
    <3>2. photos = <<>>
      BY <3>1 DEF IInv, OneFetch
    <3> QED BY <3>2 DEF Loaded
  <2>2. \/ \E f \in Fetches : Notify(f)
        \/ photos' = photos
    BY DEF Next, Publish, Appear, RetrieveGallery, GotUrls, UrlsError, RetrieveOK,
           RetrieveFailed, Retrieved, TapPhoto, DismissPhoto, page
  <2> QED BY <2>1, <2>2 DEF Loaded
<1> QED BY <1>1, AlwaysIInv, PTL DEF Spec, LoadedPhotosStay
=============================================================================
