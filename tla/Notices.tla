------------------------------ MODULE Notices ------------------------------
(***************************************************************************)
(* The notifications that gather the documents of one issuer authorized    *)
(* within the aggregation window.                                          *)
(*                                                                         *)
(* The open notification is looked up first and written later, by id,      *)
(* without a lock.  A document is announced by the check that finds it     *)
(* authorized, once (see DocumentTransmission); several checks run at a    *)
(* time.                                                                   *)
(***************************************************************************)
EXTENDS Naturals, Sequences, FiniteSets

CONSTANTS
    Invoices,        \* documents SRI authorizes
    MaxListed,       \* AGGREGATION_MAX_DOCS
    NoticeFailures   \* bound: statements that fail, and crashes

ASSUME NoticeBounds == MaxListed \in Nat \ {0} /\ NoticeFailures \in Nat

VARIABLES
    notices,         \* the issuer's DOCUMENT_AUTHORIZED rows, the newest last
    announcing,      \* what createDocumentAuthorized() is doing for each document
    noticeFailures,  \* failures so far
    overwritten      \* history: documents another check may write over, having read before they
                     \* were listed

noticesVars == <<notices, announcing, noticeFailures, overwritten>>

Notification == [unread : BOOLEAN, recent : BOOLEAN, documents : SUBSET Invoices, count : Nat]
Announcement == [at : {"none", "found", "done", "failed"}, existing : Nat,
                 documents : SUBSET Invoices, count : Nat]

NoticesTypeOK ==
    /\ notices \in Seq(Notification) /\ announcing \in [Invoices -> Announcement]
    /\ noticeFailures \in Nat /\ overwritten \subseteq Invoices

NoAnnouncement == [at |-> "none", existing |-> 0, documents |-> {}, count |-> 0]

NoticesInit ==
    /\ notices = <<>> /\ announcing = [d \in Invoices |-> NoAnnouncement]
    /\ noticeFailures = 0 /\ overwritten = {}

NoticeFailure == noticeFailures < NoticeFailures /\ noticeFailures' = noticeFailures + 1

-----------------------------------------------------------------------------
(* createDocumentAuthorized().                                             *)

Pending == {i \in DOMAIN notices : notices[i].unread /\ notices[i].recent}

\* findPendingDocumentAuthorized(): the newest unread one inside the window.
FindsNotice(d) ==
    /\ announcing[d].at = "none"
    /\ announcing' = [announcing EXCEPT ![d] =
          IF Pending = {} THEN [@ EXCEPT !.at = "found"]
          ELSE LET i == CHOOSE i \in Pending : \A k \in Pending : k <= i
               IN [at |-> "found", existing |-> i, documents |-> notices[i].documents,
                   count |-> notices[i].count]]
    /\ UNCHANGED <<notices, noticeFailures, overwritten>>

\* Mutant: a full list stops the count too.
CappedCount(d, a) == IF Cardinality(a.documents) < MaxListed THEN a.count + 1 ELSE a.count

\* The list stops at MaxListed, the count does not.
Listed(d, a) == IF Cardinality(a.documents) < MaxListed THEN a.documents \cup {d} ELSE a.documents
Count(d, a) == a.count + 1

\* The row is written by id with what was read, also when it was read or written since.
WritesNotice(d) ==
    /\ announcing[d].at = "found"
    /\ LET a == announcing[d] IN
          /\ notices' = IF a.existing = 0
                        THEN Append(notices, [unread |-> TRUE, recent |-> TRUE,
                                              documents |-> {d}, count |-> 1])
                        ELSE [notices EXCEPT ![a.existing].documents = Listed(d, a),
                                             ![a.existing].count = Count(d, a)]
          /\ announcing' = [announcing EXCEPT ![d] = [a EXCEPT !.at = "done",
                                !.existing = IF a.existing = 0 THEN Len(notices) + 1
                                             ELSE a.existing]]
          /\ overwritten' = IF a.existing # 0 /\ \E e \in Invoices \ {d} :
                                  announcing[e].at = "found" /\ announcing[e].existing = a.existing
                            THEN overwritten \cup {d} ELSE overwritten
    /\ UNCHANGED noticeFailures

\* A statement fails: the check fails with it, and the next finds nothing to announce.
AnnouncingFails(d) ==
    /\ announcing[d].at = "found" /\ NoticeFailure
    /\ announcing' = [announcing EXCEPT ![d] = [NoAnnouncement EXCEPT !.at = "failed"]]
    /\ UNCHANGED <<notices, overwritten>>

\* The tenant reads one, or the window passes.
NoticeCloses(i) ==
    /\ notices[i].unread /\ notices[i].recent
    /\ \/ notices' = [notices EXCEPT ![i].unread = FALSE]
       \/ notices' = [notices EXCEPT ![i].recent = FALSE]
    /\ UNCHANGED <<announcing, noticeFailures, overwritten>>

-----------------------------------------------------------------------------
NoticesNext ==
    \/ \E d \in Invoices : FindsNotice(d) \/ WritesNotice(d) \/ AnnouncingFails(d)
    \/ \E i \in DOMAIN notices : NoticeCloses(i)

NoticesSpec == NoticesInit /\ [][NoticesNext]_noticesVars

-----------------------------------------------------------------------------
(* Property.                                                               *)

Announced(i) == {d \in Invoices : announcing[d].at = "done" /\ announcing[d].existing = i}

\* A notification counts every document announced with it and lists each, as far as
\* the list goes, whether it was read or its window ended meanwhile; unless another
\* check had read it before one of them was written (notification.service.js:185-213).
NoticeCountsDocuments ==
    \A i \in DOMAIN notices :
        Announced(i) \cap overwritten = {} =>
            /\ notices[i].count = Cardinality(Announced(i))
            /\ notices[i].documents \subseteq Announced(i)
            /\ Cardinality(notices[i].documents) = MaxListed \/ notices[i].documents = Announced(i)
=============================================================================
