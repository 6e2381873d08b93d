--------------------------------- MODULE Ends ---------------------------------
(* The study rooms, the mail store and the Crowdmark photos: what must end in each.
   One component runs at a time, and part says which; the others stay as they start. *)
EXTENDS RoomBooking

VARIABLE part  \* the component that runs

\* Forwarded mail.
CONSTANTS msDeliveries, msOwner, msMessages, msSize, msTrusted, msMalformed,
  msMaxMessages, msMaxBytes, msNone, msMaxOffers, msMaxForms, msMaxFaults, msMaxCrashes
VARIABLES msIndex, msEml, msBody, msLogged, msPolicy, msQueue, msCache, msLoad, msJob,
  msAcked, msPushedOut, msTold, msOffers, msForms, msFaults, msCrashes

msVars == <<msIndex, msEml, msBody, msLogged, msPolicy, msQueue, msCache, msLoad, msJob,
  msAcked, msPushedOut, msTold, msOffers, msForms, msFaults, msCrashes>>

MS == INSTANCE MailStore WITH Deliveries <- msDeliveries, Owner <- msOwner,
  Messages <- msMessages, Size <- msSize, Trusted <- msTrusted,
  Malformed <- msMalformed, MaxMessages <- msMaxMessages, MaxBytes <- msMaxBytes,
  None <- msNone, MaxOffers <- msMaxOffers, MaxForms <- msMaxForms,
  MaxFaults <- msMaxFaults, MaxCrashes <- msMaxCrashes, index <- msIndex,
  eml <- msEml, body <- msBody, logged <- msLogged, policy <- msPolicy,
  queue <- msQueue, cache <- msCache, load <- msLoad, job <- msJob,
  acked <- msAcked, pushedOut <- msPushedOut, told <- msTold, offers <- msOffers,
  forms <- msForms, faults <- msFaults, crashes <- msCrashes

\* Upload tickets and photos.
CONSTANTS cfTickets, cfMaxRows, cfMaxCrashes
VARIABLES cfFiles, cfTorn, cfExpired, cfClosed, cfTask, cfReady, cfCrashes

cfVars == <<cfFiles, cfTorn, cfExpired, cfClosed, cfTask, cfReady, cfCrashes>>

CF == INSTANCE CrowdmarkFiles WITH Tickets <- cfTickets, MaxRows <- cfMaxRows,
  MaxCrashes <- cfMaxCrashes, files <- cfFiles, torn <- cfTorn,
  expired <- cfExpired, closed <- cfClosed, task <- cfTask, ready <- cfReady,
  crashes <- cfCrashes

-----------------------------------------------------------------------------

EndsInit ==
  /\ part \in {"rooms", "mail", "photos"}
  /\ Init /\ MS!Init /\ CF!Init
  /\ \/ part = "rooms"
     \/ /\ req = CHOOSE f \in [Calls -> Requests] : TRUE
        /\ sig = CHOOSE f \in [Calls -> Signatures] : TRUE

inRooms == part = "rooms" /\ UNCHANGED <<part, msVars, cfVars>>
inMail == part = "mail" /\ UNCHANGED <<part, vars, cfVars>>
inPhotos == part = "photos" /\ UNCHANGED <<part, vars, msVars>>

EndsNext ==
  \/ inRooms /\ Next
  \/ inMail /\ MS!Next
  \/ inPhotos /\ CF!Next

endsVars == <<part, vars, msVars, cfVars>>

\* The fairness of each component.
RoomsGoOn == \A c \in Calls : WF_endsVars(inRooms /\ Step(c))

MailGoesOn ==
  /\ \A p \in msDeliveries : WF_endsVars(inMail /\ MS!Step(p))
  /\ WF_endsVars(inMail /\ MS!WritePolicy)
  /\ WF_endsVars(inMail /\ MS!ReadIndex)
  /\ WF_endsVars(inMail /\ MS!SettleLoad)

PhotosGoOn ==
  /\ SF_endsVars(inPhotos /\ CF!Sweep)
  /\ SF_endsVars(inPhotos /\ CF!RemoveOne)
  /\ WF_endsVars(inPhotos /\ CF!QueueStep)

EndsSpec == EndsInit /\ [][EndsNext]_endsVars /\ RoomsGoOn /\ MailGoesOn /\ PhotosGoOn

-----------------------------------------------------------------------------

\* mail-store.mjs, exclusive: every delivery is answered, whatever fails in the queue
\* before it.  libcal.mjs, locked: every room call ends, whatever the library does.
RequestsEnd == CallsEnd /\ MS!DeliveriesEnd

\* crowdmark-files.mjs, cleanup: the ticket of an upload that has expired goes, however
\* sweeps are stopped or fail, as long as no ticket is torn.
ExpiredIsRemoved == CF!ExpiredIsRemoved

=============================================================================
