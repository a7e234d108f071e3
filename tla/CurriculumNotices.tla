-------------------------- MODULE CurriculumNotices --------------------------
(***************************************************************************)
(* Regulatory notices, the evidence cards that bring them to a principal   *)
(* and the school's acknowledgement, from app/curriculum/services.py.      *)
(*                                                                         *)
(* The services take model instances, decide by the fields the instance    *)
(* was loaded with and save the whole row.  A card that was just built     *)
(* carries the notice instance it was built from; a card that was loaded   *)
(* fetches its notice when clean() first asks for it.  One notice and one  *)
(* school are enough: nothing here looks across two of either.  Nor does   *)
(* anything look across two types of card; the cards about the notice are  *)
(* of one notification_type.                                               *)
(***************************************************************************)
EXTENDS Integers, Sequences, FiniteSets

CONSTANTS Clerks,          \* concurrent requests, each with its user
          Nobody,
          MaxCards,        \* bound: PrincipalNotificationEvidenceCard rows
          MaxSaves         \* bound: rows written

ASSUME NoticesAssumption == Nobody \notin Clerks /\ {MaxCards, MaxSaves} \subseteq Nat

VARIABLES notice,       \* review_status of the notice, or "absent"
          cards,        \* cards: evidence, status and acknowledged_by
          acks,         \* SchoolUpdateAcknowledgement rows
          desk,         \* the instances each request holds
          word,         \* history: what registration and review last said
          garbled,      \* history: the notice was saved from an old instance
          swept,        \* history: cards saved from an old instance
          issues,       \* history: the circumstances of every issue
          saves

noticeVars == <<notice, cards, acks, desk, word, garbled, swept, issues, saves>>

Empty == [on |-> "nothing", card |-> 0, status |-> "none", by |-> Nobody,
          review |-> "unfetched", oldNotice |-> FALSE, oldCard |-> FALSE]

NoticesInit ==
    /\ notice = "absent" /\ cards = <<>> /\ acks = {}
    /\ desk = [k \in Clerks |-> Empty]
    /\ word = "absent" /\ garbled = FALSE /\ swept = {} /\ issues = {} /\ saves = 0

Write == saves < MaxSaves /\ saves' = saves + 1

-----------------------------------------------------------------------------
(* Notices.                                                                *)

\* Instances of the notice held elsewhere are older than the row now.
NoticeOutdated(d, k) ==
    [j \in Clerks |-> IF j # k /\ d[j].review # "unfetched"
                      THEN [d[j] EXCEPT !.oldNotice = TRUE] ELSE d[j]]

\* register_regulatory_notice: VERIFIED only by a truth manager with a source.
RegisterNotice(review) ==
    /\ Write /\ notice = "absent"
    /\ notice' = review /\ word' = review
    /\ UNCHANGED <<cards, acks, desk, garbled, swept, issues>>

\* The review of a notice happens outside this repository's services.
ReviewNotice(review) ==
    /\ Write /\ notice \notin {"absent", review}
    /\ notice' = review /\ word' = review /\ garbled' = FALSE
    /\ desk' = NoticeOutdated(desk, Nobody)
    /\ UNCHANGED <<cards, acks, swept, issues>>

LoadNotice(k) ==
    /\ notice # "absent"
    /\ desk' = [desk EXCEPT ![k] = [Empty EXCEPT !.on = "notice", !.review = notice]]
    /\ UNCHANGED <<notice, cards, acks, word, garbled, swept, issues, saves>>

\* classify_regulatory_notice saves review_status along with the new type.
ClassifyNotice(k) ==
    /\ Write /\ desk[k].on = "notice"
    /\ notice' = desk[k].review
    /\ garbled' = (garbled \/ desk[k].oldNotice)
    /\ desk' = NoticeOutdated(desk, k)
    /\ UNCHANGED <<cards, acks, word, swept, issues>>

-----------------------------------------------------------------------------
(* Cards.                                                                  *)

\* One card of a type per school and notice; cards about a curriculum diff
\* have no notice and are never equal to the constraint.
CardFree(source) == source = "notice" => \A i \in DOMAIN cards : cards[i].source # "notice"

\* build_principal_notification_evidence_card: from a verified notice, or
\* from a diff or impact, whose review is taken for granted.
BuildCard(k, source) ==
    /\ Write /\ Len(cards) < MaxCards /\ CardFree(source)
    /\ source = "notice" => desk[k].on = "notice" /\ desk[k].review = "verified"
    /\ cards' = Append(cards, [source |-> source, status |-> "ready_for_review", by |-> Nobody])
    /\ desk' = [desk EXCEPT ![k] =
          [(IF source = "notice" THEN @ ELSE Empty) EXCEPT
             !.on = "card", !.card = Len(cards) + 1, !.status = "ready_for_review"]]
    /\ UNCHANGED <<notice, acks, word, garbled, swept, issues>>

LoadCard(k, i) ==
    /\ i \in DOMAIN cards
    /\ desk' = [desk EXCEPT ![k] =
          [Empty EXCEPT !.on = "card", !.card = i, !.status = cards[i].status,
                        !.by = cards[i].by]]
    /\ UNCHANGED <<notice, cards, acks, word, garbled, swept, issues, saves>>

\* The whole row is saved, and stays in the request's instance.
SaveCard(k, status, by, review) ==
    LET i == desk[k].card
    IN  /\ cards' = [cards EXCEPT ![i].status = status, ![i].by = by]
        /\ swept' = IF desk[k].oldCard THEN swept \cup {i} ELSE swept
        /\ desk' = [j \in Clerks |->
              IF j = k THEN [desk[j] EXCEPT !.status = status, !.by = by, !.review = review]
              ELSE IF desk[j].card = i THEN [desk[j] EXCEPT !.oldCard = TRUE]
              ELSE desk[j]]

\* The review status clean() sees: of the instance's notice, fetched at need.
ReviewSeen(k) ==
    IF cards[desk[k].card].source = "notice" /\ desk[k].review = "unfetched"
    THEN notice ELSE desk[k].review

\* Faulty variant of MayBeIssued: clean() does not look at the notice.
MayBeIssuedUnverified(k) == desk[k].status = "ready_for_review"

\* The status check of the service and the clean() of an ISSUED card.
MayBeIssued(k) ==
    /\ desk[k].status = "ready_for_review"
    /\ cards[desk[k].card].source = "notice" => ReviewSeen(k) = "verified"

\* issue_principal_notification_evidence_card
IssueCard(k) ==
    /\ Write /\ desk[k].on = "card" /\ MayBeIssued(k)
    /\ SaveCard(k, "issued", desk[k].by, ReviewSeen(k))
    /\ issues' = issues \cup {[source |-> cards[desk[k].card].source, word |-> word,
                               overlap |-> desk[k].oldNotice \/ garbled]}
    /\ UNCHANGED <<notice, acks, word, garbled>>

\* The unique constraint on acknowledgements of a card.
Unacknowledged(i) == \A a \in acks : a.card # i

\* acknowledge_school_update
AcknowledgeCard(k) ==
    /\ Write /\ desk[k].on = "card"
    /\ desk[k].status \in {"issued", "acknowledged"}
    /\ Unacknowledged(desk[k].card)
    /\ acks' = acks \cup {[card |-> desk[k].card, who |-> k]}
    /\ SaveCard(k, "acknowledged", k, desk[k].review)
    /\ UNCHANGED <<notice, word, garbled, issues>>

\* Faulty variant of ArchivedBy: archiving clears the acknowledgement.
ArchivedByNobody(k) == Nobody

ArchivedBy(k) == desk[k].by

\* archive_notification_evidence_card: from any status.
ArchiveCard(k) ==
    /\ Write /\ desk[k].on = "card"
    /\ SaveCard(k, "archived", ArchivedBy(k), desk[k].review)
    /\ UNCHANGED <<notice, acks, word, garbled, issues>>

NoticesNext ==
    \/ \E review \in {"pending_review", "verified"} : RegisterNotice(review)
    \/ \E review \in {"verified", "rejected"} : ReviewNotice(review)
    \/ \E k \in Clerks :
          \/ LoadNotice(k) \/ ClassifyNotice(k)
          \/ \E source \in {"notice", "diff"} : BuildCard(k, source)
          \/ \E i \in 1..MaxCards : LoadCard(k, i)
          \/ IssueCard(k) \/ AcknowledgeCard(k) \/ ArchiveCard(k)

NoticesSpec == NoticesInit /\ [][NoticesNext]_noticeVars

-----------------------------------------------------------------------------
(* Properties.                                                             *)

\* A card about a notice is issued only while the last word on the notice is
\* "verified", unless the review changed under an instance somebody held.
IssuedWhileVerified ==
    \A e \in issues : e.source = "notice" => e.word = "verified" \/ e.overlap

\* However many people act on it at once, a card is acknowledged once and a
\* notice has one card per school of each notification_type (the unique key is
\* of the three, and the model is of one type).
OnePerKey ==
    /\ \A a, b \in acks : a.card = b.card => a = b
    /\ \A i, j \in DOMAIN cards :
          cards[i].source = "notice" /\ cards[j].source = "notice" => i = j

\* The card of an acknowledgement names who gave it and never goes back to
\* waiting for one, unless it was saved from an instance loaded before.
AcknowledgementKept ==
    \A a \in acks :
        \/ cards[a.card].by = a.who /\ cards[a.card].status \in {"acknowledged", "archived"}
        \/ a.card \in swept

\* An acknowledgement is given once and not forgotten.
AcknowledgedOnce == OnePerKey /\ AcknowledgementKept
=============================================================================
