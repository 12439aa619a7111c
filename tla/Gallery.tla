------------------------------- MODULE Gallery -------------------------------
(***************************************************************************)
(* GalleryPage on one guest's phone.                                       *)
(*                                                                         *)
(* When the page appears without photos it calls retrieveGallery: one read *)
(* of the paths in the "Gallery" document, one download per path, all in   *)
(* parallel, and a DispatchGroup that waits for the last of them.  The     *)
(* photos are kept in the order in which the downloads end; a failed one   *)
(* leaves a blank picture.  The page may appear again while all this is    *)
(* going on, and then starts another fetch.                                *)
(*                                                                         *)
(* Handlers run one at a time on the main queue.  The couple goes on       *)
(* publishing paths (WeddingUpload), each of which has a file.             *)
(***************************************************************************)
EXTENDS Naturals, Sequences, FiniteSets

CONSTANTS
    Urls,        \* paths in the "Gallery" document
    MaxFetches,  \* bound: retrieveGallery calls outstanding together
    None         \* no photo selected

ASSUME MaxFetchesIsNumber == MaxFetches \in Nat
ASSUME UrlsAreFinite == IsFiniteSet(Urls)

VARIABLES
    server,         \* paths in the wedding's "Gallery" document
    cache,          \* those Firestore's on-disk cache knows
    fetch,          \* the retrieveGallery calls
    photos,         \* GalleryPage.photos
    selectedPhoto,  \* GalleryPage.selectedPhoto, shown on the full screen
    shown,          \* history: the paths behind photos
    overlapped      \* history: a fetch was started while another was running

page == <<photos, selectedPhoto, shown>>
vars == <<server, cache, fetch, page, overlapped>>

Fetches == 1..MaxFetches

\* asking: the paths are being read; loading: downloads are running in the paths
\* of left, the group counts the ones entered and not left, got collects results.
Image == [url : Urls, image : {"loaded", "nil"}]
Photo == [url : Urls, photo : {"loaded", "blank"}]
FetchState == [phase : {"idle", "asking", "loading"}, urls : SUBSET Urls,
               left : SUBSET Urls, group : Nat, got : Seq(Image)]
Idle == [phase |-> "idle", urls |-> {}, left |-> {}, group |-> 0, got |-> <<>>]

TypeOK ==
    /\ server \subseteq Urls
    /\ cache \subseteq Urls
    /\ fetch \in [Fetches -> FetchState]
    /\ photos \in Seq(Photo)
    /\ selectedPhoto \in {None} \cup Photo
    /\ shown \subseteq Urls
    /\ overlapped \in BOOLEAN

Init ==
    /\ server = {} /\ cache = {}
    /\ fetch = [f \in Fetches |-> Idle]
    /\ photos = <<>> /\ selectedPhoto = None /\ shown = {}
    /\ overlapped = FALSE

Busy == {f \in Fetches : fetch[f].phase # "idle"}

\* One step of fetch f.
Fetch(f, r) == fetch' = [fetch EXCEPT ![f] = r]
-----------------------------------------------------------------------------
\* Paths still known somewhere.  A path is a UUID, never used twice; one that nobody
\* remembers is as good as a fresh one.
Known == server \cup cache \cup shown \cup UNION {fetch[f].urls : f \in Fetches}

\* The couple's phone writes the path of a finished upload to its field, which is
\* new or held another path (old is empty or has that one).
Publish(u, old) ==
    /\ u \notin Known
    /\ server' = (server \ old) \cup {u}
    /\ UNCHANGED <<cache, fetch, page, overlapped>>

\* retrieveGallery is called: getGalleryUrls reads the document.
RetrieveGallery(f) ==
    /\ f \notin Busy
    /\ Fetch(f, [Idle EXCEPT !.phase = "asking"])
    /\ overlapped' = (overlapped \/ Busy # {})
    /\ UNCHANGED <<server, cache, page>>

\* Fault: the page fetches whenever it appears.
AppearAlways(f) == RetrieveGallery(f)

\* The page appears, the first time or again.
Appear(f) ==
    /\ photos = <<>>
    /\ RetrieveGallery(f)

\* The document is read, from the server or, offline, from the cache; without one
\* there are no paths.  Every path enters the group and its download is started.
GotUrls(f, urls) ==
    /\ fetch[f].phase = "asking"
    /\ Fetch(f, [phase |-> "loading", urls |-> urls, left |-> urls,
                 group |-> Cardinality(urls), got |-> <<>>])
    /\ cache' = urls
    /\ UNCHANGED <<server, page, overlapped>>

\* The read fails: retrieveGallery reports it and never calls back.
UrlsError(f) ==
    /\ fetch[f].phase = "asking"
    /\ Fetch(f, Idle)
    /\ UNCHANGED <<server, cache, page, overlapped>>

\* retrieveImage calls back with an image or nil: it is appended, the group left.
Retrieved(f, u, i) ==
    /\ u \in fetch[f].left
    /\ Fetch(f, [fetch[f] EXCEPT !.left = @ \ {u}, !.group = @ - 1,
                                 !.got = Append(@, [url |-> u, image |-> i])])
    /\ UNCHANGED <<server, cache, page, overlapped>>

RetrieveOK(f, u) == Retrieved(f, u, "loaded")

\* Fault: a failed download does not call back (as in getImageOf).
RetrieveFailedSilent(f, u) ==
    /\ u \in fetch[f].left
    /\ Fetch(f, [fetch[f] EXCEPT !.left = @ \ {u}])
    /\ UNCHANGED <<server, cache, page, overlapped>>

\* No network, a file above the size limit, or no picture in it.
RetrieveFailed(f, u) == Retrieved(f, u, "nil")

\* Fault: nil is passed on.
AsPhotosRaw(got) == [k \in 1..Len(got) |-> [url |-> got[k].url, photo |-> got[k].image]]

\* The page turns images into photos, nil into a blank one.
AsPhotos(got) ==
    [k \in 1..Len(got) |->
        [url |-> got[k].url, photo |-> IF got[k].image = "nil" THEN "blank" ELSE "loaded"]]

\* Fault: the completion handler does not wait for the group.
NotifyEarly(f) ==
    /\ fetch[f].phase = "loading"
    /\ Fetch(f, Idle)
    /\ photos' = AsPhotos(fetch[f].got)
    /\ shown' = fetch[f].urls
    /\ UNCHANGED <<server, cache, selectedPhoto, overlapped>>

\* The group is empty: the page takes the photos, whatever it has by now.
Notify(f) ==
    /\ fetch[f].phase = "loading" /\ fetch[f].group = 0
    /\ Fetch(f, Idle)
    /\ photos' = AsPhotos(fetch[f].got)
    /\ shown' = fetch[f].urls
    /\ UNCHANGED <<server, cache, selectedPhoto, overlapped>>

\* A tap shows a photo on the full screen, a long drag dismisses it.
TapPhoto(k) ==
    /\ selectedPhoto = None
    /\ selectedPhoto' = photos[k]
    /\ UNCHANGED <<server, cache, fetch, photos, shown, overlapped>>

DismissPhoto ==
    /\ selectedPhoto # None
    /\ selectedPhoto' = None
    /\ UNCHANGED <<server, cache, fetch, photos, shown, overlapped>>

\* The guest leaves the wedding, or the app is ended: the page and its state are gone.
Relaunch ==
    /\ fetch' = [f \in Fetches |-> Idle]
    /\ photos' = <<>> /\ selectedPhoto' = None /\ shown' = {}
    /\ overlapped' = FALSE
    /\ UNCHANGED <<server, cache>>

Next ==
    \/ \E u \in Urls : Publish(u, {}) \/ \E v \in server : Publish(u, {v})
    \/ \E f \in Fetches :
          \/ Appear(f)
          \/ GotUrls(f, server) \/ GotUrls(f, cache) \/ UrlsError(f)
          \/ \E u \in Urls : RetrieveOK(f, u) \/ RetrieveFailed(f, u)
          \/ Notify(f)
    \/ \E k \in 1..Len(photos) : TapPhoto(k)
    \/ DismissPhoto
    \/ Relaunch

Spec == Init /\ [][Next]_vars

(***************************************************************************)
(* Fairness.  Firestore answers the read, Storage every download (with an  *)
(* error when its retries are over), and the main queue runs what is       *)
(* queued.  What the guest does is not forced.                             *)
(***************************************************************************)
Fairness ==
    \A f \in Fetches :
        /\ WF_vars(GotUrls(f, server) \/ GotUrls(f, cache) \/ UrlsError(f))
        /\ WF_vars(\E u \in Urls : RetrieveOK(f, u) \/ RetrieveFailed(f, u))
        /\ WF_vars(Notify(f))

FairSpec == Spec /\ Fairness
-----------------------------------------------------------------------------
\* The page never shows a part of a gallery: photos has one entry, loaded or
\* blank, for every path of the document that was read, in whatever order the
\* downloads ended and however many fetches were running.
WholeGallery ==
    /\ Len(photos) = Cardinality(shown)
    /\ {photos[k].url : k \in 1..Len(photos)} = shown

Loaded(ps) == {ps[k].url : k \in {j \in 1..Len(ps) : ps[j].photo = "loaded"}}

\* A photo the guest sees does not turn blank or disappear while the app runs,
\* unless two fetches overlapped: the page fetches again only while it is empty.
LoadedPhotosStay ==
    [][\/ overlapped
       \/ Loaded(photos) \subseteq Loaded(photos')
       \/ Relaunch]_vars

\* retrieveGallery comes to an end although downloads fail: the group that waits
\* for them is always left.
FetchEnds == \A f \in Fetches : (fetch[f].phase # "idle") ~> (fetch[f].phase = "idle")
=============================================================================
