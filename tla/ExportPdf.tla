------------------------------ MODULE ExportPdf ------------------------------
(***************************************************************************)
(* The PDF export of tools-service: the itinerary is fetched from          *)
(* itinerary-service with the caller's credentials, rendered, stored under *)
(* a key made of its id and the clock, recorded, and answered with a       *)
(* presigned URL of that key.                                              *)
(***************************************************************************)
EXTENDS Gateway

CONSTANTS
  MaxClock,       \* bound: milliseconds in which exports are made
  MaxEdits        \* bound: saves of the itinerary while it is exported

ASSUME ExportAssumption == MaxClock \in Nat \ {0} /\ MaxEdits \in Nat

VARIABLES
  saved,          \* the committed version of the itinerary; 0 when deleted
  clock,          \* Date.now()
  rendered,       \* the version in the PDF of each request; 0 before
  storageKey,     \* the key of each request; 0 before
  objects,        \* the bucket: the version stored under each key
  pdfExports      \* the requests that have a row

exportVars == <<saved, clock, rendered, storageKey, objects, pdfExports>>

ExportTypeOK ==
  /\ saved \in 0..(1 + MaxEdits)
  /\ clock \in 1..MaxClock
  /\ rendered \in [Requests -> 0..(1 + MaxEdits)]
  /\ storageKey \in [Requests -> 0..MaxClock]
  /\ objects \in [1..MaxClock -> 0..(1 + MaxEdits)]
  /\ pdfExports \subseteq Requests

ExportInit ==
  /\ saved = 1
  /\ clock = 1
  /\ rendered = [r \in Requests |-> 0]
  /\ storageKey = [r \in Requests |-> 0]
  /\ objects = [k \in 1..MaxClock |-> 0]
  /\ pdfExports = {}

-----------------------------------------------------------------------------
\* Other users of itinerary-service, and time.
ItineraryEdited ==
  /\ saved \in 1..MaxEdits
  /\ saved' \in {0, saved + 1}
  /\ UNCHANGED <<gatewayVars, clock, rendered, storageKey, objects, pdfExports>>

Tick ==
  /\ clock < MaxClock
  /\ clock' = clock + 1
  /\ UNCHANGED <<gatewayVars, saved, rendered, storageKey, objects, pdfExports>>

\* requireAuth and the id.
AcceptExport(r) ==
  /\ At(r, "accept")
  /\ kind[r] = "exportPdf"
  /\ IF session = "expired" THEN Fail(r, "401") ELSE Continue(r)
  /\ UNCHANGED <<exportVars, troubles>>

\* itineraryClient: a 404 is passed on; a service that is unreachable, slow,
\* failing or that answers another shape is a 502, and so is a token which has
\* expired since, of which itinerary-service makes a 500.
FetchItinerary(r) ==
  /\ At(r, "fetch")
  /\ \/ /\ session = "valid" /\ saved > 0
        /\ rendered' = [rendered EXCEPT ![r] = saved]
        /\ Continue(r)
        /\ UNCHANGED troubles
     \/ /\ session = "valid" /\ saved = 0
        /\ Fail(r, "404")
        /\ UNCHANGED <<rendered, troubles>>
     \/ /\ Fail(r, "502")
        /\ IF session = "valid" THEN Trouble ELSE UNCHANGED troubles
        /\ UNCHANGED rendered
  /\ UNCHANGED <<saved, clock, storageKey, objects, pdfExports>>

\* What is left of the handler throws, and errorHandler answers 500.
Throws(r) == Trouble /\ Fail(r, "500")
Goes(r)   == Continue(r) /\ UNCHANGED troubles

\* parsePdfItinerary and renderItineraryPdf; the key has the millisecond.
RenderPdf(r) ==
  /\ At(r, "render")
  /\ \/ Goes(r) /\ storageKey' = [storageKey EXCEPT ![r] = clock]
     \/ Throws(r) /\ UNCHANGED storageKey
  /\ UNCHANGED <<saved, clock, rendered, objects, pdfExports>>

\* Mutant: the upload is not awaited.
PutObjectUnawaited(r) ==
  /\ At(r, "put")
  /\ Goes(r)
  /\ \/ objects' = [objects EXCEPT ![storageKey[r]] = rendered[r]]
     \/ UNCHANGED objects
  /\ UNCHANGED <<saved, clock, rendered, storageKey, pdfExports>>

\* storage.putObject, which may take effect and fail nevertheless.
PutObject(r) ==
  /\ At(r, "put")
  /\ \/ /\ Goes(r) \/ Throws(r)
        /\ objects' = [objects EXCEPT ![storageKey[r]] = rendered[r]]
     \/ Throws(r) /\ UNCHANGED objects
  /\ UNCHANGED <<saved, clock, rendered, storageKey, pdfExports>>

\* recordPdfExport, whose reply may be lost after it has taken effect; the URL
\* is signed without asking anybody.
RecordPdfExport(r) ==
  /\ At(r, "record")
  /\ \/ (Goes(r) \/ Throws(r)) /\ pdfExports' = pdfExports \cup {r}
     \/ Throws(r) /\ UNCHANGED pdfExports
  /\ UNCHANGED <<saved, clock, rendered, storageKey, objects>>

ExportHandler(r) ==
  AcceptExport(r) \/ FetchItinerary(r) \/ RenderPdf(r) \/ PutObject(r) \/ RecordPdfExport(r)

=============================================================================
