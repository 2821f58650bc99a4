-------------------------------- MODULE TryOn --------------------------------
(***************************************************************************)
(* Virtual try-on: VTOOrchestrator.generate with the engines it falls back  *)
(* to, and the two endpoints that call it on the threads of the service.    *)
(* The cache and the directory of results are shared by all threads.        *)
(***************************************************************************)
EXTENDS Integers, FiniteSets

CONSTANTS
  Fitters,      \* threads that serve try-ons
  Photos,       \* uploaded photos
  BadPhotos,    \* those that are no image
  Garments,     \* product ids
  Apparel,      \* those whose id names a piece of clothing
  Sizes,        \* target sizes, each with a height; "M" is what the legacy endpoint asks for
  MaxSecond,    \* bound: the clock stops here
  MaxDrapes     \* bound: nothing new is made once the cache is this large

ASSUME TryOnAssumption ==
  /\ BadPhotos \subseteq Photos /\ Apparel \subseteq Garments
  /\ "M" \in Sizes /\ MaxSecond \in Nat /\ MaxDrapes \in Nat

VARIABLES
  fittings,    \* fittings[t]: the request of thread t, how far it is, its answer
  drapes,      \* _cache: pairs of a key and the response stored under it
  results,     \* vto-storage: the picture in the file named for a second
  second,      \* int(time.time())
  idm,         \* VTO_USE_IDM
  kolors       \* _kolors_engine: not there yet, with its weights, or the client

tryOnVars == <<fittings, drapes, results, second, idm, kolors>>

NotFitting == [at |-> "done", answer |-> [status |-> "none"]]

TryOnInit ==
  /\ fittings = [t \in Fitters |-> NotFitting]
  /\ drapes = {} /\ results = {} /\ second = 0
  /\ idm \in BOOLEAN
  /\ kolors = "none"

(* The height that the user enters is part of the size asked for: both are   *)
(* in the key, and both only go into the rating.                           *)
(* mutant: the size is left out of the key *)
CacheKeyOfPhoto(request) == [photo |-> request.photo, garment |-> request.garment]

CacheKey(request) ==
  [photo |-> request.photo, garment |-> request.garment, size |-> request.size]

Ends(t, answer) == [fittings EXCEPT ![t] = [at |-> "done", request |-> @.request, answer |-> answer]]

(* generate raised: 500, where the legacy endpoint drapes the photo locally *)
(* and answers without looking whether that worked.                        *)
Failed(request) ==
  [status |-> IF request.legacy THEN "draped or not" ELSE "error",
   photo |-> request.photo, garment |-> request.garment]

(* The lookup in the cache, which a hit ends; else the photo is measured.   *)
AskFit(t) ==
  /\ fittings[t].at = "done"
  /\ \E photo \in Photos, garment \in Garments, size \in Sizes, legacy \in BOOLEAN :
       LET request == [photo |-> photo, garment |-> garment, legacy |-> legacy,
                       size |-> IF legacy THEN "M" ELSE size]
           hits == {pair \in drapes : pair[1] = CacheKey(request)}
       IN /\ hits # {} \/ Cardinality(drapes) < MaxDrapes
          /\ fittings' = [fittings EXCEPT ![t] =
               IF hits # {}
               THEN [at |-> "done", request |-> request, answer |-> (CHOOSE pair \in hits : TRUE)[2]]
               ELSE IF photo \in BadPhotos
               THEN [at |-> "done", request |-> request, answer |-> Failed(request)]
               ELSE [at |-> "download", request |-> request]]
  /\ UNCHANGED <<drapes, results, second, idm, kolors>>

Download(t) ==
  /\ fittings[t].at = "download"
  /\ \/ fittings' = Ends(t, Failed(fittings[t].request))
     \/ fittings' = [fittings EXCEPT ![t].at =
          IF fittings[t].request.garment \in Apparel THEN "kolors" ELSE "local"]
  /\ UNCHANGED <<drapes, results, second, idm, kolors>>

Picture(request, by) == [photo |-> request.photo, garment |-> request.garment, by |-> by]

Drawn(t, by) ==
  fittings' = [fittings EXCEPT ![t] =
    [at |-> "save", request |-> @.request, image |-> Picture(@.request, by)]]

(* The engine is made on first use: the local one where there is a GPU,      *)
(* whose weights may fail to load each time, else the client of the spaces.  *)
Kolors(t) ==
  /\ fittings[t].at = "kolors"
  /\ \E engine \in IF kolors = "none" THEN {"local", "client"} ELSE {kolors} :
       /\ kolors' = engine
       /\ \/ Drawn(t, IF engine = "local" THEN "kolors-vto-local" ELSE "idm-vton-api")
          \/ fittings' = [fittings EXCEPT ![t].at = IF idm THEN "idm" ELSE "local"]
  /\ UNCHANGED <<drapes, results, second, idm>>

(* A timeout only ends the wait for the result: the pool is left after its   *)
(* worker, and what that one returns is dropped.                           *)
Idm(t) ==
  /\ fittings[t].at = "idm"
  /\ \/ Drawn(t, "idm-vton")
     \/ fittings' = [fittings EXCEPT ![t].at = "local"]
  /\ UNCHANGED <<drapes, results, second, idm, kolors>>

DrapeLocally(t) ==
  /\ fittings[t].at = "local"
  /\ Drawn(t, "local") \/ fittings' = Ends(t, Failed(fittings[t].request))
  /\ UNCHANGED <<drapes, results, second, idm, kolors>>

(* _save_public_result: the file is named for the second.  alone: no other   *)
(* picture was there.  What a remote model sent may be no picture.         *)
Save(t) ==
  LET others == {file \in results : file.second = second}
  IN /\ fittings[t].at = "save"
     /\ \/ /\ results' = (results \ others) \cup
                {[second |-> second, image |-> fittings[t].image, alone |-> others = {}]}
           /\ fittings' = [fittings EXCEPT ![t] =
                [at |-> "store", request |-> @.request, image |-> @.image, path |-> second]]
        \/ /\ fittings[t].image.by \in {"idm-vton-api", "idm-vton"}
           /\ fittings' = Ends(t, Failed(fittings[t].request))
           /\ UNCHANGED results
     /\ UNCHANGED <<drapes, second, idm, kolors>>

Response(fitting) ==
  [status |-> "ok", image |-> fitting.image, path |-> fitting.path,
   fits |-> [photo |-> fitting.request.photo, garment |-> fitting.request.garment,
             size |-> fitting.request.size]]

StoreDrape(t) ==
  LET key == CacheKey(fittings[t].request)
      response == Response(fittings[t])
  IN /\ fittings[t].at = "store"
     /\ drapes' = {pair \in drapes : pair[1] # key} \cup {<<key, response>>}
     /\ fittings' = Ends(t, response)
     /\ UNCHANGED <<results, second, idm, kolors>>

NextSecond ==
  /\ second < MaxSecond
  /\ second' = second + 1
  /\ UNCHANGED <<fittings, drapes, results, idm, kolors>>

TryOnNext ==
  \/ \E t \in Fitters :
       \/ AskFit(t) \/ Download(t) \/ Kolors(t) \/ Idm(t)
       \/ DrapeLocally(t) \/ Save(t) \/ StoreDrape(t)
  \/ NextSecond

TryOnSpec == TryOnInit /\ [][TryOnNext]_tryOnVars
-----------------------------------------------------------------------------
(* Whoever asks sees the own photo in the garment asked for, rated for the   *)
(* size asked for, cached answers included; and as long as no two pictures   *)
(* were saved in one second, the file that the answer names shows the same.  *)
TryOnsOwn ==
  \A t \in Fitters :
    LET request == fittings[t].request
        answer == fittings[t].answer
    IN (fittings[t].at = "done" /\ answer.status = "ok") =>
         /\ answer.image.photo = request.photo /\ answer.image.garment = request.garment
         /\ answer.fits = [photo |-> request.photo, garment |-> request.garment, size |-> request.size]
         /\ \E file \in results :
              file.second = answer.path /\ (file.alone => file.image = answer.image)
=============================================================================
