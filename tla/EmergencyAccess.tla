--------------------------- MODULE EmergencyAccess ---------------------------
(***************************************************************************)
(* Emergency contacts and their requests for the key of a vault:             *)
(* usbvault-app/src/services/emergencyAccessService.ts.                      *)
(*                                                                          *)
(* The service keeps nothing in memory.  Every call loads the lists of       *)
(* contacts and requests from storage, decides on what it loaded, and writes *)
(* back with _persistContact and _persistRequest, which load the list once   *)
(* more, replace one entry and store it.  Other calls run between any two of *)
(* these steps.                                                              *)
(*                                                                          *)
(* Left out: the history of accesses, which only grows and decides nothing,  *)
(* and getActiveRequests, which changes copies of the stored requests only   *)
(* (it compares a list with itself before it would store it).                *)
(***************************************************************************)
EXTENDS Naturals, FiniteSets

CONSTANTS
    EContacts,        \* emergency contacts
    EReqs,            \* ids of requests
    ECalls            \* calls of the service that may overlap

VARIABLES
    contacts,  \* CONTACTS_STORAGE_KEY: the status of each contact
    requests,  \* REQUESTS_STORAGE_KEY: the status of each request and its contact
    ecall,     \* the calls in progress
    named,     \* ids given to contacts: generateEmergencyId gives each one once
    revoked,   \* history: contacts that a removal or a revocation of all is done with
    undone,    \* history: contacts put back by a list of contacts that was loaded earlier
    gaveKeyTo  \* history: contacts who got the key and had been revoked when they were checked

EmergencyVars == <<contacts, requests, ecall, named, revoked, undone, gaveKeyTo>>

CStatus == {"none", "active", "revoked"}
RStatus == {"none", "pending", "approved", "denied", "expired", "accessed"}
EmergencyOps == {"none", "designate", "request", "access", "remove", "revokeAll"}

(* "con" and "req" are what the call is about, "set" the status it will      *)
(* store, "todo" the contacts still to be revoked, "late" that the contact   *)
(* had been revoked when it was checked; the lists are what it loaded.       *)
NoCall == [op |-> "none", at |-> "none", con |-> {}, req |-> {}, set |-> "none",
           clist |-> [c \in EContacts |-> "none"],
           rlist |-> [q \in EReqs |-> [status |-> "none", by |-> {}]],
           todo |-> {}, late |-> FALSE]

(* The type invariant.                                                       *)
EmergencyTypeOK ==
    /\ contacts \in [EContacts -> CStatus]
    /\ requests \in [EReqs -> [status : RStatus, by : SUBSET EContacts]]
    /\ \A q \in EReqs : requests[q].status # "none" => Cardinality(requests[q].by) = 1
    /\ named \subseteq EContacts
    /\ revoked \subseteq EContacts /\ undone \subseteq EContacts /\ gaveKeyTo \subseteq EContacts
    /\ \A k \in ECalls :
          /\ ecall[k].op \in EmergencyOps
          /\ ecall[k].at \in {"none", "contact", "cload", "cwrite", "rload", "rwrite", "rall"}
          /\ ecall[k].clist \in [EContacts -> CStatus]

EmergencyInit ==
    /\ contacts = [c \in EContacts |-> "none"]
    /\ requests = [q \in EReqs |-> [status |-> "none", by |-> {}]]
    /\ named = {} /\ revoked = {} /\ undone = {} /\ gaveKeyTo = {}
    /\ ecall = [k \in ECalls |-> NoCall]

-----------------------------------------------------------------------------
StartCall(k, r) == ecall[k] = NoCall /\ ecall' = [ecall EXCEPT ![k] = r]
CallAt(k, at) == ecall[k].at = at
OnlyCall == UNCHANGED <<contacts, requests, named, revoked, undone, gaveKeyTo>>

(* A contact gets an id of its own; the key is sealed before it is stored.   *)
designateContact(k, c) ==
    /\ c \notin named /\ named' = named \cup {c}
    /\ StartCall(k, [NoCall EXCEPT !.op = "designate", !.at = "cload", !.con = {c}, !.set = "active"])
    /\ UNCHANGED <<contacts, requests, revoked, undone, gaveKeyTo>>

(* The contact must be active; a new request is stored.                      *)
requestAccess(k, c, q) ==
    /\ contacts[c] = "active"
    /\ requests[q].status = "none" /\ \A j \in ECalls : q \notin ecall[j].req
    /\ StartCall(k, [NoCall EXCEPT !.op = "request", !.at = "rload", !.con = {c}, !.req = {q},
                                   !.set = "pending"])
    /\ OnlyCall

denyAccess(k, q) ==
    /\ requests[q].status = "pending"
    /\ StartCall(k, [NoCall EXCEPT !.op = "request", !.at = "rload", !.req = {q},
                                   !.con = requests[q].by, !.set = "denied"])
    /\ OnlyCall

(* A pending, approved or expired request can be approved.                   *)
approveAccess(k, q) ==
    /\ requests[q].status \in {"pending", "approved", "expired"}
    /\ StartCall(k, [NoCall EXCEPT !.op = "request", !.at = "rload", !.req = {q},
                                   !.con = requests[q].by, !.set = "approved"])
    /\ OnlyCall

(* After its 72 hours, whenever they end, a pending request expires; the     *)
(* branch that would approve it tests for a pending request after that.      *)
checkAccessStatus(k, q) ==
    /\ requests[q].status = "pending"
    /\ StartCall(k, [NoCall EXCEPT !.op = "request", !.at = "rload", !.req = {q},
                                   !.con = requests[q].by, !.set = "expired"])
    /\ OnlyCall

(* The request must be approved, and then the contact active.                *)
accessVault(k, q) ==
    /\ requests[q].status = "approved"
    /\ StartCall(k, [NoCall EXCEPT !.op = "access", !.at = "contact", !.req = {q},
                                   !.con = requests[q].by, !.set = "accessed"])
    /\ OnlyCall

AccessChecksContact(k) ==
    /\ CallAt(k, "contact")
    /\ IF \A c \in ecall[k].con : contacts[c] = "active"
       THEN ecall' = [ecall EXCEPT ![k].at = "rload", ![k].late = ecall[k].con \subseteq revoked]
       ELSE ecall' = [ecall EXCEPT ![k] = NoCall]
    /\ OnlyCall

-----------------------------------------------------------------------------
(* Slip: only the pending requests of the contact are invalidated.           *)
removeContactRequests(k, c) ==
    /\ contacts[c] # "none"
    /\ StartCall(k, [NoCall EXCEPT !.op = "remove", !.at = "rall", !.con = {c}])
    /\ OnlyCall

(* The contact is stored as revoked, then its pending requests as denied.    *)
removeContact(k, c) ==
    /\ contacts[c] # "none"
    /\ StartCall(k, [NoCall EXCEPT !.op = "remove", !.at = "cload", !.con = {c}, !.set = "revoked"])
    /\ OnlyCall

(* All pending and approved requests are stored as denied, then the contacts *)
(* one by one as revoked.                                                    *)
revokeAllAccess(k) ==
    LET known == {c \in EContacts : contacts[c] # "none"} IN
    /\ StartCall(k, [NoCall EXCEPT !.op = "revokeAll", !.at = "rwrite", !.con = known,
           !.todo = known, !.set = "revoked",
           !.rlist = [q \in EReqs |-> IF requests[q].status \in {"pending", "approved"}
                                      THEN [requests[q] EXCEPT !.status = "denied"] ELSE requests[q]]])
    /\ OnlyCall

-----------------------------------------------------------------------------
(* _persistRequest loads the list again and replaces its entry in it.        *)
_persistRequestLoads(k) ==
    /\ CallAt(k, "rload")
    /\ ecall' = [ecall EXCEPT ![k].at = "rwrite",
           ![k].rlist = [q \in EReqs |-> IF q \in ecall[k].req
                                         THEN [status |-> ecall[k].set, by |-> ecall[k].con]
                                         ELSE requests[q]]]
    /\ OnlyCall

(* The list is stored; accessVault then returns the key.  What a call does   *)
(* after its last store, the audit log and the sync queue, is left out.      *)
_persistRequests(k) ==
    LET e == ecall[k] IN
    /\ CallAt(k, "rwrite")
    /\ requests' = e.rlist
    /\ gaveKeyTo' = IF e.op = "access" /\ e.late THEN gaveKeyTo \cup e.con ELSE gaveKeyTo
    /\ revoked' = IF e.op = "remove" THEN revoked \cup e.con ELSE revoked
    /\ ecall' = [ecall EXCEPT ![k] = IF e.todo = {} THEN NoCall
                                     ELSE [e EXCEPT !.at = "cload", !.rlist = NoCall.rlist]]
    /\ UNCHANGED <<contacts, named, undone>>

(* _persistContact, in the same way: its copies of the other contacts may be *)
(* older than what is stored.                                                *)
_persistContactLoads(k) ==
    /\ CallAt(k, "cload")
    /\ ecall' = [ecall EXCEPT ![k].at = "cwrite", ![k].clist = contacts]
    /\ OnlyCall

_persistContact(k) ==
    LET e == ecall[k]
        c == IF e.op = "revokeAll" THEN CHOOSE d \in e.todo : TRUE ELSE CHOOSE d \in e.con : TRUE
        left == e.todo \ {c}
        stored == [e EXCEPT !.todo = left, !.clist = NoCall.clist]
    IN
    /\ CallAt(k, "cwrite")
    /\ contacts' = [e.clist EXCEPT ![c] = e.set]
    /\ ecall' = [ecall EXCEPT ![k] = IF left # {} THEN [stored EXCEPT !.at = "cload"]
                                     ELSE IF e.op = "remove" THEN [stored EXCEPT !.at = "rall"]
                                     ELSE NoCall]
    /\ revoked' = IF e.op = "revokeAll" /\ left = {} THEN revoked \cup e.con ELSE revoked
    /\ undone' = undone \cup {d \in EContacts \ {c} : contacts[d] = "revoked" /\ e.clist[d] # "revoked"}
    /\ UNCHANGED <<requests, named, gaveKeyTo>>

(* removeContact loads the requests and denies the pending ones.             *)
InvalidatePending(k) ==
    /\ CallAt(k, "rall")
    /\ ecall' = [ecall EXCEPT ![k].at = "rwrite",
           ![k].rlist = [q \in EReqs |->
               IF requests[q].by = ecall[k].con /\ requests[q].status = "pending"
               THEN [requests[q] EXCEPT !.status = "denied"] ELSE requests[q]]]
    /\ OnlyCall

(* Storage or the audit log fails, or the application is closed.             *)
CallAborts(k) ==
    /\ ecall[k] # NoCall
    /\ ecall' = [ecall EXCEPT ![k] = NoCall]
    /\ OnlyCall

EmergencyNext ==
    \E k \in ECalls :
        \/ \E c \in EContacts : designateContact(k, c) \/ removeContact(k, c)
        \/ \E c \in EContacts, q \in EReqs : requestAccess(k, c, q)
        \/ \E q \in EReqs : denyAccess(k, q) \/ approveAccess(k, q) \/ checkAccessStatus(k, q)
                            \/ accessVault(k, q)
        \/ revokeAllAccess(k) \/ AccessChecksContact(k)
        \/ _persistRequestLoads(k) \/ _persistRequests(k)
        \/ _persistContactLoads(k) \/ _persistContact(k) \/ InvalidatePending(k)
        \/ CallAborts(k)

EmergencySpec == EmergencyInit /\ [][EmergencyNext]_EmergencyVars

-----------------------------------------------------------------------------
(* Once the revocation of a contact has been reported, the key goes to it    *)
(* only through a call that had found the contact active before the report:  *)
(* not through one made later, nor one that had loaded the approved request  *)
(* earlier and not yet the contacts.  Exception: calls that store contacts   *)
(* overlap, and one of them put the contact back from the list it had loaded *)
(* before.                                                                   *)
RevokedGetNoKey == gaveKeyTo \subseteq undone

(* removeContact: "Prevents future access requests from this contact".       *)
RevocationLasts == \A c \in revoked : contacts[c] = "revoked"

(* "Auto-approves if 72 hours have elapsed and request not denied"           *)
(* (checkAccessStatus): after a check, an overdue request is not lost.       *)
OverdueIsApproved == \A q \in EReqs : requests[q].status # "expired"

(* A denied request stays denied.                                            *)
DeniedIsFinal == [][\A q \in EReqs : requests[q].status = "denied" => requests'[q].status = "denied"]_EmergencyVars
=============================================================================
