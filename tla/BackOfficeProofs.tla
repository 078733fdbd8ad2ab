--------------------------- MODULE BackOfficeProofs ---------------------------
(***************************************************************************)
(* Proofs about the back office, for any handlers, mixes of requests, jobs,   *)
(* customers and ratings.  First what all parts share: what a step does to the *)
(* desk, and that a step of one part leaves the requests of the others as they *)
(* are; then one part after the other, each with an inductive invariant of its *)
(* own, conjoined with the desk's.                                          *)
(***************************************************************************)
EXTENDS BackOffice, SumTheorems

-----------------------------------------------------------------------------
(* What a step does to the desk, whichever part it is of: a request of one   *)
(* of these kinds comes, or the one at hand goes on.                         *)
DeskStep(h, kinds) ==
    \/ \E kind \in kinds : \E plan, read : Begin(h, kind, plan, read)
    \/ Busy(h) /\ req[h].kind \in kinds /\ \E plan, read : GoOn(h, plan, read)
    \/ UNCHANGED desk

LEMMA Begun ==
    ASSUME NEW h, NEW kinds, NEW kind \in kinds, NEW plan, NEW read, Begin(h, kind, plan, read)
    PROVE  DeskStep(h, kinds)
  BY Zenon DEF DeskStep

LEMMA WentOn ==
    ASSUME NEW h, NEW kinds, Busy(h), Concerns(h, kinds), NEW plan, NEW read, GoOn(h, plan, read)
    PROVE  DeskStep(h, kinds)
  BY Zenon DEF DeskStep, Concerns

LEMMA Went ==
    ASSUME NEW h, NEW kinds, Busy(h), Concerns(h, kinds), Proceed(h) \/ Stop(h)
    PROVE  DeskStep(h, kinds)
  BY Zenon DEF DeskStep, Concerns, Proceed, Stop

LEMMA CatalogueDesk ==
    ASSUME NEW h, CatalogueStep(h), Concerns(h, ProductKinds \cup ScannerKinds)
    PROVE  DeskStep(h, ProductKinds \cup ScannerKinds)
  <1>1. CASE PlaceOrder(h)
        BY <1>1, Begun, Went, WentOn, Zenon DEF PlaceOrder, ProductKinds, ScannerKinds, At
  <1>2. CASE GetRates(h)
        BY <1>2, Begun, Went, WentOn, Zenon DEF GetRates, ProductKinds, ScannerKinds, At
  <1>3. CASE HoldCredit(h)
        BY <1>3, Begun, Went, WentOn, Zenon DEF HoldCredit, ProductKinds, ScannerKinds, At
  <1>4. CASE Supersede(h)
        BY <1>4, Begun, Went, WentOn, Zenon DEF Supersede, ProductKinds, ScannerKinds, At
  <1>5. CASE Expire(h)
        BY <1>5, Begun, Went, WentOn, Zenon DEF Expire, ProductKinds, ScannerKinds, At
  <1>6. CASE ReleaseStep(h)
        BY <1>6, Begun, Went, WentOn, Zenon DEF ReleaseStep, ProductKinds, ScannerKinds, At
  <1>7. CASE FailStep(h)
        BY <1>7, Begun, Went, WentOn, Zenon DEF FailStep, ProductKinds, ScannerKinds, At
  <1>8. CASE PaymentArrives(h)
        BY <1>8, Begun, Went, WentOn, Zenon DEF PaymentArrives, ProductKinds, ScannerKinds, At
  <1>9. CASE Fulfil(h)
        BY <1>9, Begun, Went, WentOn, Zenon DEF Fulfil, ProductKinds, ScannerKinds, At
  <1>10. CASE OpenForm(h)
    <2>1. PICK c \in Changes :
              Begin(h, c.what, <<"read", "save", "labels", "tell">>, [form |-> product, c |-> c])
          BY <1>10, Zenon DEF OpenForm
    <2>2. c.what \in ProductKinds  BY DEF Changes, ProductKinds
    <2> QED  BY <2>1, <2>2, Begun, Zenon
  <1>11. CASE ReadProduct(h)
        BY <1>11, Begun, Went, WentOn, Zenon DEF ReadProduct, ProductKinds, ScannerKinds, At
  <1>12. CASE Save(h)  BY <1>12, Begun, Went, WentOn, Zenon DEF Save, ProductKinds, ScannerKinds, At
  <1>13. CASE EnsureLabels(h)
        BY <1>13, Begun, Went, WentOn, Zenon DEF EnsureLabels, ProductKinds, ScannerKinds, At
  <1>14. CASE TellShoppers(h)
        BY <1>14, Begun, Went, WentOn, Zenon DEF TellShoppers, ProductKinds, ScannerKinds, At
  <1>15. CASE StartMigration(h)
        BY <1>15, Begun, Went, WentOn, Zenon DEF StartMigration, ProductKinds, ScannerKinds, At
  <1>16. CASE Migrate(h)
        BY <1>16, Begun, Went, WentOn, Zenon DEF Migrate, ProductKinds, ScannerKinds, At
  <1>17. CASE FindLabel(h, "mark")
        BY <1>17, Begun, Went, WentOn, Zenon DEF FindLabel, ProductKinds, ScannerKinds, At
  <1>18. CASE MarkSent(h)
        BY <1>18, Begun, Went, WentOn, Zenon DEF MarkSent, ProductKinds, ScannerKinds, At
  <1>19. CASE FindLabel(h, "regenerate")
        BY <1>19, Begun, Went, WentOn, Zenon DEF FindLabel, ProductKinds, ScannerKinds, At
  <1>20. CASE Regenerate(h)
        BY <1>20, Begun, Went, WentOn, Zenon DEF Regenerate, ProductKinds, ScannerKinds, At
  <1> QED  BY <1>1, <1>2, <1>3, <1>4, <1>5, <1>6, <1>7, <1>8, <1>9, <1>10, <1>11, <1>12, <1>13, <1>14, <1>15, <1>16, <1>17, <1>18, <1>19, <1>20, Zenon DEF CatalogueStep

LEMMA WarehouseDesk ==
    ASSUME NEW h, WarehouseStep(h), Concerns(h, ScannerKinds)
    PROVE  DeskStep(h, ScannerKinds)
  <1>1. CASE ScanToAdjust(h)  BY <1>1, Begun, Went, WentOn, Zenon DEF ScanToAdjust, ScannerKinds, At
  <1>2. CASE Adjust(h)  BY <1>2, Begun, Went, WentOn, Zenon DEF Adjust, ScannerKinds, At
  <1>3. CASE ScanLine(h)  BY <1>3, Begun, Went, WentOn, Zenon DEF ScanLine, ScannerKinds, At
  <1>4. CASE UpsertLine(h)  BY <1>4, Begun, Went, WentOn, Zenon DEF UpsertLine, ScannerKinds, At
  <1>5. CASE PlanLine(h)  BY <1>5, Begun, Went, WentOn, Zenon DEF PlanLine, ScannerKinds, At
  <1>6. CASE WriteLine(h)  BY <1>6, Begun, Went, WentOn, Zenon DEF WriteLine, ScannerKinds, At
  <1>7. CASE RemoveLine(h)  BY <1>7, Begun, Went, WentOn, Zenon DEF RemoveLine, ScannerKinds, At
  <1>8. CASE OpenToClose(h, "discard", "discard")
        BY <1>8, Begun, Went, WentOn, Zenon DEF OpenToClose, ScannerKinds, At
  <1>9. CASE Discard(h)  BY <1>9, Begun, Went, WentOn, Zenon DEF Discard, ScannerKinds, At
  <1>10. CASE OpenToClose(h, "confirm", "check")
        BY <1>10, Begun, Went, WentOn, Zenon DEF OpenToClose, ScannerKinds, At
  <1>11. CASE CheckPlan(h)  BY <1>11, Begun, Went, WentOn, Zenon DEF CheckPlan, ScannerKinds, At
  <1>12. CASE ApplyPlan(h)  BY <1>12, Begun, Went, WentOn, Zenon DEF ApplyPlan, ScannerKinds, At
  <1> QED  BY <1>1, <1>2, <1>3, <1>4, <1>5, <1>6, <1>7, <1>8, <1>9, <1>10, <1>11, <1>12, Zenon DEF WarehouseStep

LEMMA AlertsDesk ==
    ASSUME NEW h, AlertsStep(h), Concerns(h, ShopperKinds)
    PROVE  DeskStep(h, ShopperKinds)
  <1>1. CASE Subscribe(h)  BY <1>1, Begun, Went, WentOn, Zenon DEF Subscribe, ShopperKinds, At
  <1>2. CASE Toggle(h)  BY <1>2, Begun, Went, WentOn, Zenon DEF Toggle, ShopperKinds, At
  <1>3. CASE Arm(h)  BY <1>3, Begun, Went, WentOn, Zenon DEF Arm, ShopperKinds, At
  <1>4. CASE Hook(h)  BY <1>4, Begun, Went, WentOn, Zenon DEF Hook, Notify, ShopperKinds, At
  <1>5. CASE Job(h)  BY <1>5, Begun, Went, WentOn, Zenon DEF Job, Notify, ShopperKinds, At
  <1>6. CASE (At(h, "enrol") /\ Enrol(h))
        BY <1>6, Begun, Went, WentOn, Zenon DEF Enrol, ShopperKinds, At
  <1>7. CASE Gather(h)  BY <1>7, Begun, Went, WentOn, Zenon DEF Gather, ShopperKinds, At
  <1>8. CASE (At(h, "mail") /\ Mail(h))
        BY <1>8, Begun, Went, WentOn, Zenon DEF Mail, ShopperKinds, At
  <1>9. CASE Mark(h)  BY <1>9, Begun, Went, WentOn, Zenon DEF Mark, ShopperKinds, At
  <1> QED  BY <1>1, <1>2, <1>3, <1>4, <1>5, <1>6, <1>7, <1>8, <1>9, Zenon DEF AlertsStep

LEMMA RefurbishDesk ==
    ASSUME NEW h, RefurbishStep(h), Concerns(h, RefurbishKinds)
    PROVE  DeskStep(h, RefurbishKinds)
  <1>1. CASE ChangeJob(h)  BY <1>1, Begun, Went, WentOn, Zenon DEF ChangeJob, RefurbishKinds, At
  <1>2. CASE FindListing(h)  BY <1>2, Begun, Went, WentOn, Zenon DEF FindListing, RefurbishKinds, At
  <1>3. CASE ListUnit(h)  BY <1>3, Begun, Went, WentOn, Zenon DEF ListUnit, RefurbishKinds, At
  <1>4. CASE SetStatus(h)  BY <1>4, Begun, Went, WentOn, Zenon DEF SetStatus, RefurbishKinds, At
  <1>5. CASE TransitionUnits(h)
        BY <1>5, Begun, Went, WentOn, Zenon DEF TransitionUnits, RefurbishKinds, At
  <1>6. CASE OpenListing(h)  BY <1>6, Begun, Went, WentOn, Zenon DEF OpenListing, RefurbishKinds, At
  <1>7. CASE CreateListing(h)
        BY <1>7, Begun, Went, WentOn, Zenon DEF CreateListing, RefurbishKinds, At
  <1>8. CASE PublishListing(h)
        BY <1>8, Begun, Went, WentOn, Zenon DEF PublishListing, RefurbishKinds, At
  <1>9. CASE MoveByScan(h)  BY <1>9, Begun, Went, WentOn, Zenon DEF MoveByScan, RefurbishKinds, At
  <1> QED  BY <1>1, <1>2, <1>3, <1>4, <1>5, <1>6, <1>7, <1>8, <1>9, Zenon DEF RefurbishStep

LEMMA ReviewsDesk ==
    ASSUME NEW h, ReviewsStep(h), Concerns(h, ReviewKinds)
    PROVE  DeskStep(h, ReviewKinds)
  <1>1. CASE CreateReview(h)
        BY <1>1, Begun, Went, WentOn, Zenon DEF CreateReview, Take, ReviewKinds, At
  <1>2. CASE EditReview(h)
        BY <1>2, Begun, Went, WentOn, Zenon DEF EditReview, Take, ReviewKinds, At
  <1>3. CASE DeleteReview(h)
        BY <1>3, Begun, Went, WentOn, Zenon DEF DeleteReview, Take, ReviewKinds, At
  <1>4. CASE RejectReview(h)
        BY <1>4, Begun, Went, WentOn, Zenon DEF RejectReview, Take, ReviewKinds, At
  <1>5. CASE PostReview(h)  BY <1>5, Begun, Went, WentOn, Zenon DEF PostReview, ReviewKinds, At
  <1>6. CASE CountReviews(h)  BY <1>6, Begun, Went, WentOn, Zenon DEF CountReviews, ReviewKinds, At
  <1>7. CASE WriteRating(h)  BY <1>7, Begun, Went, WentOn, Zenon DEF WriteRating, ReviewKinds, At
  <1> QED  BY <1>1, <1>2, <1>3, <1>4, <1>5, <1>6, <1>7, Zenon DEF ReviewsStep

LEMMA BlogDesk ==
    ASSUME NEW h, BlogStep(h), Concerns(h, ArticleKinds)
    PROVE  DeskStep(h, ArticleKinds)
  <1>1. CASE WritePost(h)
        BY <1>1, Begun, Went, WentOn, Zenon DEF WritePost, Change, ArticleKinds, At
  <1>2. CASE DuplicatePost(h)
        BY <1>2, Begun, Went, WentOn, Zenon DEF DuplicatePost, Change, ArticleKinds, At
  <1>3. CASE EditPost(h)  BY <1>3, Begun, Went, WentOn, Zenon DEF EditPost, Change, ArticleKinds, At
  <1>4. CASE FeaturePost(h)
        BY <1>4, Begun, Went, WentOn, Zenon DEF FeaturePost, Change, ArticleKinds, At
  <1>5. CASE SetPostStatus(h)
        BY <1>5, Begun, Went, WentOn, Zenon DEF SetPostStatus, Change, ArticleKinds, At
  <1>6. CASE DeletePost(h)
        BY <1>6, Begun, Went, WentOn, Zenon DEF DeletePost, Change, ArticleKinds, At
  <1>7. CASE Put(h)  BY <1>7, Begun, Went, WentOn, Zenon DEF Put, ArticleKinds, At
  <1>8. CASE TimeComes(h)  BY <1>8, Begun, Went, WentOn, Zenon DEF TimeComes, ArticleKinds, At
  <1>9. CASE FindDue(h)  BY <1>9, Begun, Went, WentOn, Zenon DEF FindDue, ArticleKinds, At
  <1>10. CASE (At(h, "publish") /\ PublishDue(h))
        BY <1>10, Begun, Went, WentOn, Zenon DEF PublishDue, ArticleKinds, At
  <1> QED  BY <1>1, <1>2, <1>3, <1>4, <1>5, <1>6, <1>7, <1>8, <1>9, <1>10, Zenon DEF BlogStep

LEMMA CategoriesDesk ==
    ASSUME NEW h, CategoriesStep(h), Concerns(h, CategoryKinds)
    PROVE  DeskStep(h, CategoryKinds)
  <1>1. CASE CreateCategory(h)
        BY <1>1, Begun, Went, WentOn, Zenon DEF CreateCategory, CategoryKinds, At
  <1>2. CASE MoveCategory(h)
        BY <1>2, Begun, Went, WentOn, Zenon DEF MoveCategory, CategoryKinds, At
  <1>3. CASE WeighParent(h)  BY <1>3, Begun, Went, WentOn, Zenon DEF WeighParent, CategoryKinds, At
  <1>4. CASE HangCategory(h)
        BY <1>4, Begun, Went, WentOn, Zenon DEF HangCategory, CategoryKinds, At
  <1>5. CASE DeleteCategory(h)
        BY <1>5, Begun, Went, WentOn, Zenon DEF DeleteCategory, CategoryKinds, At
  <1>6. CASE Prune(h)  BY <1>6, Begun, Went, WentOn, Zenon DEF Prune, CategoryKinds, At
  <1>7. CASE FileProduct(h)  BY <1>7, Begun, Went, WentOn, Zenon DEF FileProduct, CategoryKinds, At
  <1> QED  BY <1>1, <1>2, <1>3, <1>4, <1>5, <1>6, <1>7, Zenon DEF CategoriesStep

LEMMA HomePageDesk ==
    ASSUME NEW h, HomePageStep(h), Concerns(h, HomePageKinds)
    PROVE  DeskStep(h, HomePageKinds)
  <1>1. CASE Visit(h)  BY <1>1, Begun, Went, WentOn, Zenon DEF Visit, HomePageKinds, At
  <1>2. CASE Reseed(h)  BY <1>2, Begun, Went, WentOn, Zenon DEF Reseed, HomePageKinds, At
  <1>3. CASE CountSlides(h)  BY <1>3, Begun, Went, WentOn, Zenon DEF CountSlides, HomePageKinds, At
  <1>4. CASE ClearSlides(h)  BY <1>4, Begun, Went, WentOn, Zenon DEF ClearSlides, HomePageKinds, At
  <1>5. CASE Plant(h)  BY <1>5, Begun, Went, WentOn, Zenon DEF Plant, HomePageKinds, At
  <1>6. CASE Add(h)  BY <1>6, Begun, Went, WentOn, Zenon DEF Add, HomePageKinds, At
  <1>7. CASE WriteSlide(h)  BY <1>7, Begun, Went, WentOn, Zenon DEF WriteSlide, HomePageKinds, At
  <1>8. CASE SaveSlide(h)  BY <1>8, Begun, Went, WentOn, Zenon DEF SaveSlide, HomePageKinds, At
  <1>9. CASE DeleteCards(h)  BY <1>9, Begun, Went, WentOn, Zenon DEF DeleteCards, HomePageKinds, At
  <1>10. CASE WriteSave(h)  BY <1>10, Begun, Went, WentOn, Zenon DEF WriteSave, HomePageKinds, At
  <1>11. CASE Hide(h)  BY <1>11, Begun, Went, WentOn, Zenon DEF Hide, HomePageKinds, At
  <1>12. CASE HardDelete(h)  BY <1>12, Begun, Went, WentOn, Zenon DEF HardDelete, HomePageKinds, At
  <1>13. CASE Reorder(h)  BY <1>13, Begun, Went, WentOn, Zenon DEF Reorder, HomePageKinds, At
  <1>14. CASE WriteOrder(h)  BY <1>14, Begun, Went, WentOn, Zenon DEF WriteOrder, HomePageKinds, At
  <1> QED  BY <1>1, <1>2, <1>3, <1>4, <1>5, <1>6, <1>7, <1>8, <1>9, <1>10, <1>11, <1>12, <1>13, <1>14, Zenon DEF HomePageStep

LEMMA RelayDesk ==
    ASSUME NEW h, RelayStep(h), Concerns(h, PhoneKinds)
    PROVE  DeskStep(h, PhoneKinds)
  <1>1. CASE JoinSession(h)
        BY <1>1, Begun, Went, WentOn, Zenon DEF JoinSession, Instant, PhoneKinds, At
  <1>2. CASE ApproveJoin(h)
        BY <1>2, Begun, Went, WentOn, Zenon DEF ApproveJoin, Instant, PhoneKinds, At
  <1>3. CASE RejectJoin(h)
        BY <1>3, Begun, Went, WentOn, Zenon DEF RejectJoin, Instant, PhoneKinds, At
  <1>4. CASE Disconnect(h)
        BY <1>4, Begun, Went, WentOn, Zenon DEF Disconnect, Instant, PhoneKinds, At
  <1>5. CASE RelayScan(h)
        BY <1>5, Begun, Went, WentOn, Zenon DEF RelayScan, Instant, PhoneKinds, At
  <1>6. CASE Subscribes(h)
        BY <1>6, Begun, Went, WentOn, Zenon DEF Subscribes, Instant, PhoneKinds, At
  <1>7. CASE LinkBreaks(h)
        BY <1>7, Begun, Went, WentOn, Zenon DEF LinkBreaks, Instant, PhoneKinds, At
  <1>8. CASE SessionEnds(h)
        BY <1>8, Begun, Went, WentOn, Zenon DEF SessionEnds, Instant, PhoneKinds, At
  <1> QED  BY <1>1, <1>2, <1>3, <1>4, <1>5, <1>6, <1>7, <1>8, Zenon DEF RelayStep

LEMMA TriageDesk ==
    ASSUME NEW h, TriageStep(h), Concerns(h, QueueKinds)
    PROVE  DeskStep(h, QueueKinds)
  <1>1. CASE Move(h)  BY <1>1, Begun, Went, WentOn, Zenon DEF Move, QueueKinds, At
  <1>2. CASE BulkReceive(h)  BY <1>2, Begun, Went, WentOn, Zenon DEF BulkReceive, QueueKinds, At
  <1>3. CASE ReceiveNext(h)  BY <1>3, Begun, Went, WentOn, Zenon DEF ReceiveNext, QueueKinds, At
  <1>4. CASE Arrive(h)  BY <1>4, Begun, Went, WentOn, Zenon DEF Arrive, QueueKinds, At
  <1>5. CASE Walk(h)  BY <1>5, Begun, Went, WentOn, Zenon DEF Walk, QueueKinds, At
  <1>6. CASE Read(h)  BY <1>6, Begun, Went, WentOn, Zenon DEF Read, QueueKinds, At
  <1>7. CASE ReadRows(h)  BY <1>7, Begun, Went, WentOn, Zenon DEF ReadRows, QueueKinds, At
  <1> QED  BY <1>1, <1>2, <1>3, <1>4, <1>5, <1>6, <1>7, Zenon DEF TriageStep

LEMMA ParcelsDesk ==
    ASSUME NEW h, ParcelsStep(h), Concerns(h, ParcelKinds)
    PROVE  DeskStep(h, ParcelKinds)
  <1>1. CASE AskPackage(h)  BY <1>1, Begun, Went, WentOn, Zenon DEF AskPackage, ParcelKinds, At
  <1>2. CASE CreatePackage(h)
        BY <1>2, Begun, Went, WentOn, Zenon DEF CreatePackage, ParcelKinds, At
  <1>3. CASE SetPackage(h)  BY <1>3, Begun, Went, WentOn, Zenon DEF SetPackage, ParcelKinds, At
  <1>4. CASE WritePackage(h)  BY <1>4, Begun, Went, WentOn, Zenon DEF WritePackage, ParcelKinds, At
  <1>5. CASE ReportShipment(h)
        BY <1>5, Begun, Went, WentOn, Zenon DEF ReportShipment, ParcelKinds, At
  <1>6. CASE WriteShipment(h)
        BY <1>6, Begun, Went, WentOn, Zenon DEF WriteShipment, ParcelKinds, At
  <1>7. CASE KeepWaiting(h)  BY <1>7, Begun, Went, WentOn, Zenon DEF KeepWaiting, ParcelKinds, At
  <1>8. CASE WriteWait(h)  BY <1>8, Begun, Went, WentOn, Zenon DEF WriteWait, ParcelKinds, At
  <1>9. CASE Dawn(h)  BY <1>9, Begun, Went, WentOn, Zenon DEF Dawn, ParcelKinds, At
  <1> QED  BY <1>1, <1>2, <1>3, <1>4, <1>5, <1>6, <1>7, <1>8, <1>9, Zenon DEF ParcelsStep

LEMMA SettlementDesk ==
    ASSUME NEW h, SettlementStep(h), Concerns(h, SettlementKinds)
    PROVE  DeskStep(h, SettlementKinds)
  <1>1. CASE Inspect(h)  BY <1>1, Begun, Went, WentOn, Zenon DEF Inspect, SettlementKinds, At
  <1>2. CASE ReceiveOne(h)  BY <1>2, Begun, Went, WentOn, Zenon DEF ReceiveOne, SettlementKinds, At
  <1>3. CASE Decide(h)  BY <1>3, Begun, Went, WentOn, Zenon DEF Decide, SettlementKinds, At
  <1>4. CASE Settle(h)  BY <1>4, Begun, Went, WentOn, Zenon DEF Settle, SettlementKinds, At
  <1>5. CASE TakeLine(h)  BY <1>5, Begun, Went, WentOn, Zenon DEF TakeLine, SettlementKinds, At
  <1>6. CASE RefuseLine(h)
        BY <1>6, Begun, Went, WentOn, Zenon DEF RefuseLine, Failed, ReportLine, SettlementKinds, At
  <1>7. CASE ApproveLine(h)
        BY <1>7, Begun, Went, WentOn, Zenon DEF ApproveLine, Failed, ReportLine, SettlementKinds, At
  <1>8. CASE WriteApproval(h)
        BY <1>8, Begun, Went, WentOn, Zenon DEF WriteApproval, SettlementKinds, At
  <1>9. CASE RereadApproved(h)
        BY <1>9, Begun, Went, WentOn, Zenon DEF RereadApproved, Failed, ReportLine, Work, SettlementKinds, At
  <1>10. CASE PayLine(h)
        BY <1>10, Begun, Went, WentOn, Zenon DEF PayLine, Failed, ReportLine, Work, SettlementKinds, At
  <1>11. CASE RecordRefund(h)
        BY <1>11, Begun, Went, WentOn, Zenon DEF RecordRefund, Failed, ReportLine, Work, SettlementKinds, At
  <1>12. CASE LookAgain(h)
        BY <1>12, Begun, Went, WentOn, Zenon DEF LookAgain, Work, SettlementKinds, At
  <1>13. CASE ShelveLine(h)
        BY <1>13, Begun, Went, WentOn, Zenon DEF ShelveLine, Done, Failed, ReportLine, SettlementKinds, At
  <1> QED  BY <1>1, <1>2, <1>3, <1>4, <1>5, <1>6, <1>7, <1>8, <1>9, <1>10, <1>11, <1>12, <1>13, Zenon DEF SettlementStep

LEMMA TransfersDesk ==
    ASSUME NEW h, TransfersStep(h), Concerns(h, TransferKinds)
    PROVE  DeskStep(h, TransferKinds)
  <1>1. CASE AddRates(h)  BY <1>1, Begun, Went, WentOn, Zenon DEF AddRates, TransferKinds, At
  <1>2. CASE AskPayment(h)  BY <1>2, Begun, Went, WentOn, Zenon DEF AskPayment, TransferKinds, At
  <1>3. CASE MakePayment(h)  BY <1>3, Begun, Went, WentOn, Zenon DEF MakePayment, TransferKinds, At
  <1>4. CASE OpenPage(h)  BY <1>4, Begun, Went, WentOn, Zenon DEF OpenPage, TransferKinds, At
  <1>5. CASE MakeSession(h)  BY <1>5, Begun, Went, WentOn, Zenon DEF MakeSession, TransferKinds, At
  <1>6. CASE PointAt(h)  BY <1>6, Begun, Went, WentOn, Zenon DEF PointAt, TransferKinds, At
  <1>7. CASE Pays(h)  BY <1>7, Begun, Went, WentOn, Zenon DEF Pays, TransferKinds, At
  <1>8. CASE Succeeded(h)  BY <1>8, Begun, Went, WentOn, Zenon DEF Succeeded, TransferKinds, At
  <1>9. CASE TransferLeg(h)  BY <1>9, Begun, Went, WentOn, Zenon DEF TransferLeg, TransferKinds, At
  <1>10. CASE Refunds(h)  BY <1>10, Begun, Went, WentOn, Zenon DEF Refunds, TransferKinds, At
  <1>11. CASE Refunded(h)  BY <1>11, Begun, Went, WentOn, Zenon DEF Refunded, TransferKinds, At
  <1>12. CASE ListTransfers(h)
        BY <1>12, Begun, Went, WentOn, Zenon DEF ListTransfers, TransferKinds, At
  <1>13. CASE Undo(h)  BY <1>13, Begun, Went, WentOn, Zenon DEF Undo, TransferKinds, At
  <1> QED  BY <1>1, <1>2, <1>3, <1>4, <1>5, <1>6, <1>7, <1>8, <1>9, <1>10, <1>11, <1>12, <1>13, Zenon DEF TransfersStep

LEMMA WalletDesk ==
    ASSUME NEW h, WalletStep(h), Concerns(h, WalletKinds)
    PROVE  DeskStep(h, WalletKinds)
  <1>1. CASE ViewWallet(h)  BY <1>1, Begun, Went, WentOn, Zenon DEF ViewWallet, WalletKinds, At
  <1>2. CASE MakeWallet(h)  BY <1>2, Begun, Went, WentOn, Zenon DEF MakeWallet, WalletKinds, At
  <1>3. CASE Award(h)  BY <1>3, Begun, Went, WentOn, Zenon DEF Award, WalletKinds, At
  <1>4. CASE CreditEarned(h)  BY <1>4, Begun, Went, WentOn, Zenon DEF CreditEarned, WalletKinds, At
  <1>5. CASE CreditRestored(h)
        BY <1>5, Begun, Went, WentOn, Zenon DEF CreditRestored, WalletKinds, At
  <1>6. CASE Hold(h)  BY <1>6, Begun, Went, WentOn, Zenon DEF Hold, WalletKinds, At
  <1>7. CASE EndHold(h)  BY <1>7, Begun, Went, WentOn, Zenon DEF EndHold, WalletKinds, At
  <1>8. CASE CaptureHold(h)  BY <1>8, Begun, Went, WentOn, Zenon DEF CaptureHold, WalletKinds, At
  <1>9. CASE ReleaseHold(h)  BY <1>9, Begun, Went, WentOn, Zenon DEF ReleaseHold, WalletKinds, At
  <1> QED  BY <1>1, <1>2, <1>3, <1>4, <1>5, <1>6, <1>7, <1>8, <1>9, Zenon DEF WalletStep

LEMMA QuotesDesk ==
    ASSUME NEW h, QuotesStep(h), Concerns(h, QuoteKinds)
    PROVE  DeskStep(h, QuoteKinds)
  <1>1. CASE Quote(h)  BY <1>1, Begun, Went, WentOn, Zenon DEF Quote, QuoteKinds, At
  <1>2. CASE AskToPay(h)  BY <1>2, Begun, Went, WentOn, Zenon DEF AskToPay, QuoteKinds, At
  <1>3. CASE UseAgain(h)  BY <1>3, Begun, Went, WentOn, Zenon DEF UseAgain, QuoteKinds, At
  <1>4. CASE MakeAnew(h)  BY <1>4, Begun, Went, WentOn, Zenon DEF MakeAnew, QuoteKinds, At
  <1>5. CASE Book(h)  BY <1>5, Begun, Went, WentOn, Zenon DEF Book, QuoteKinds, At
  <1>6. CASE AskRates(h)  BY <1>6, Begun, Went, WentOn, Zenon DEF AskRates, QuoteKinds, At
  <1>7. CASE ApplyCredit(h)  BY <1>7, Begun, Went, WentOn, Zenon DEF ApplyCredit, QuoteKinds, At
  <1>8. CASE WriteAmounts(h)  BY <1>8, Begun, Went, WentOn, Zenon DEF WriteAmounts, QuoteKinds, At
  <1>9. CASE Oust(h)
    <2>1. Busy(h) /\ (Proceed(h) \/ UNCHANGED desk)  BY <1>9 DEF Oust, At, desk
    <2> QED  BY <2>1, Went, Zenon DEF DeskStep
  <1>10. CASE Charge(h)  BY <1>10, Begun, Went, WentOn, Zenon DEF Charge, QuoteKinds, At
  <1>11. CASE BasketPaid(h)  BY <1>11, Begun, Went, WentOn, Zenon DEF BasketPaid, QuoteKinds, At
  <1>12. CASE BasketLapses(h)  BY <1>12, Begun, Went, WentOn, Zenon DEF BasketLapses, QuoteKinds, At
  <1>13. CASE ShopChanges(h)  BY <1>13, Begun, Went, WentOn, Zenon DEF ShopChanges, QuoteKinds, At
  <1> QED  BY <1>1, <1>2, <1>3, <1>4, <1>5, <1>6, <1>7, <1>8, <1>9, <1>10, <1>11, <1>12, <1>13, Zenon DEF QuotesStep

-----------------------------------------------------------------------------
(* A request at work has a kind and what it read; of two, crossed holds the  *)
(* kinds.                                                                    *)
DeskInv ==
    /\ req = [h \in Handlers |-> req[h]]
    /\ \A h \in Handlers : Busy(h) =>
          req[h] = [todo |-> req[h].todo, kind |-> req[h].kind, read |-> req[h].read]
    /\ \A g, h \in Handlers : Busy(g) /\ Busy(h) /\ g # h => {req[g].kind, req[h].kind} \in crossed

(* The others are left as they are.                                         *)
OthersStay(h) ==
    /\ req' = [g \in Handlers |-> req'[g]]
    /\ \A g \in Handlers \ {h} : req'[g] = req[g] /\ Busy(g)' = Busy(g)

(* The requests of these kinds are left as they are.                        *)
StoodBy(kinds) ==
    /\ \A g \in Handlers :
          /\ Busy(g) /\ req[g].kind \in kinds => req'[g] = req[g]
          /\ Busy(g)' /\ req'[g].kind \in kinds => req'[g] = req[g]
    /\ crossed \subseteq crossed' /\ crashed' = crashed

(* What has become of a request that began or went on, or whose process stopped. *)
LEMMA AfterBegin ==
    ASSUME DeskInv, NEW h \in Handlers, NEW kind, NEW plan, NEW read, Begin(h, kind, plan, read)
    PROVE  /\ OthersStay(h) /\ ~ Busy(h)
           /\ Busy(h)' <=> plan # <<>>
           /\ Busy(h)' => /\ req'[h] = [todo |-> plan, kind |-> kind, read |-> read]
                          /\ req'[h].todo = plan /\ req'[h].kind = kind /\ req'[h].read = read
           /\ crossed \subseteq crossed' /\ crashed' = crashed
           /\ \A g \in Handlers : Busy(g) => {kind, req[g].kind} \in crossed'
  <1>1. req' = [req EXCEPT ![h] = IF plan = <<>> THEN Idle
                                  ELSE [todo |-> plan, kind |-> kind, read |-> read]]
        BY Zenon DEF Begin
  <1>2. crossed' = crossed \cup {{kind, req[g].kind} : g \in {g \in Handlers : Busy(g)}}
        BY Zenon DEF Begin
  <1>3. ~ Busy(h) /\ crashed' = crashed  BY Zenon DEF Begin
  <1>4. OthersStay(h) /\ (Busy(h)' <=> plan # <<>>)  BY <1>1 DEF DeskInv, Busy, Idle, OthersStay
  <1>5. plan # <<>> => req'[h] = [todo |-> plan, kind |-> kind, read |-> read]  BY <1>1 DEF DeskInv
  <1>6. Busy(h)' => req'[h].todo = plan /\ req'[h].kind = kind /\ req'[h].read = read  BY <1>4, <1>5
  <1>7. \A g \in Handlers : Busy(g) => {kind, req[g].kind} \in crossed'  BY <1>2
  <1> QED  BY <1>2, <1>3, <1>4, <1>5, <1>6, <1>7

LEMMA AfterGoOn ==
    ASSUME DeskInv, NEW h \in Handlers, NEW plan, NEW read, GoOn(h, plan, read), Busy(h)
    PROVE  /\ OthersStay(h)
           /\ Busy(h)' <=> plan # <<>>
           /\ Busy(h)' => /\ req'[h] = [todo |-> plan, kind |-> req[h].kind, read |-> read]
                          /\ req'[h].todo = plan /\ req'[h].kind = req[h].kind
                          /\ req'[h].read = read
           /\ crossed' = crossed /\ crashed' = crashed
  <1>1. req' = [req EXCEPT ![h] = IF plan = <<>> THEN Idle
                                  ELSE [@ EXCEPT !.todo = plan, !.read = read]]
        BY Zenon DEF GoOn
  <1>2. crossed' = crossed /\ crashed' = crashed  BY Zenon DEF GoOn
  <1>3. req[h] = [todo |-> req[h].todo, kind |-> req[h].kind, read |-> req[h].read]  BY DEF DeskInv
  <1>4. plan # <<>> => req'[h] = [req[h] EXCEPT !.todo = plan, !.read = read]  BY <1>1 DEF DeskInv
  <1>5. plan # <<>> => req'[h] = [todo |-> plan, kind |-> req[h].kind, read |-> read]  BY <1>3, <1>4
  <1>6. OthersStay(h)  BY <1>1 DEF DeskInv, Busy, OthersStay
  <1>7. CASE plan = <<>>
    <2>1. req'[h] = Idle  BY <1>1, <1>7 DEF DeskInv
    <2> QED  BY <1>2, <1>6, <1>7, <2>1 DEF Busy, Idle
  <1>8. CASE plan # <<>>
    <2>1. req'[h].todo = plan /\ req'[h].kind = req[h].kind /\ req'[h].read = read  BY <1>5, <1>8
    <2> QED  BY <1>2, <1>5, <1>6, <1>8, <2>1 DEF Busy
  <1> QED  BY <1>7, <1>8

LEMMA AfterCrash ==
    ASSUME DeskInv, NEW h \in Handlers, Crash(h)
    PROVE  /\ OthersStay(h) /\ Busy(h) /\ ~ Busy(h)'
           /\ crossed' = crossed /\ crashed' = crashed \cup {req[h].kind}
  BY DEF Crash, DeskInv, Busy, Idle, OthersStay

(* The desk's invariant is kept whatever comes.                             *)
LEMMA DeskKept ==
    ASSUME DeskInv, NEW h \in Handlers, NEW kinds, DeskStep(h, kinds) \/ Crash(h)
    PROVE  DeskInv'
  <1>1. ASSUME NEW kind \in kinds, NEW plan, NEW read, Begin(h, kind, plan, read) PROVE DeskInv'
    <2>1. /\ OthersStay(h) /\ ~ Busy(h)
          /\ crossed \subseteq crossed' /\ crashed' = crashed
          BY <1>1, AfterBegin
    <2>2. Busy(h)' => /\ req'[h].kind = kind
                      /\ req'[h] = [todo |-> req'[h].todo, kind |-> req'[h].kind,
                                    read |-> req'[h].read]
          BY <1>1, AfterBegin
    <2>3. \A g \in Handlers : Busy(g) => {kind, req[g].kind} \in crossed'  BY <1>1, AfterBegin
    <2>4. ASSUME NEW g \in Handlers, NEW k \in Handlers, Busy(g)', Busy(k)', g # k
          PROVE  {req'[g].kind, req'[k].kind} \in crossed'
      <3>1. CASE g = h  BY <2>1, <2>2, <2>3, <2>4, <3>1 DEF OthersStay
      <3>2. CASE k = h
        <4>1. {kind, req[g].kind} = {req'[g].kind, req'[k].kind}
              BY <2>1, <2>2, <2>4, <3>2 DEF OthersStay
        <4> QED  BY <2>1, <2>3, <2>4, <3>2, <4>1 DEF OthersStay
      <3>3. CASE g # h /\ k # h  BY <2>1, <2>4, <3>3 DEF DeskInv, OthersStay
      <3> QED  BY <3>1, <3>2, <3>3
    <2> QED  BY <2>1, <2>2, <2>4 DEF DeskInv, OthersStay
  <1>2. ASSUME NEW plan, NEW read, GoOn(h, plan, read), Busy(h) PROVE DeskInv'
    <2>1. OthersStay(h) /\ crossed' = crossed  BY <1>2, AfterGoOn
    <2>2. Busy(h)' => /\ req'[h].kind = req[h].kind
                      /\ req'[h] = [todo |-> req'[h].todo, kind |-> req'[h].kind,
                                    read |-> req'[h].read]
          BY <1>2, AfterGoOn
    <2> QED  BY <1>2, <2>1, <2>2 DEF DeskInv, OthersStay
  <1>3. CASE UNCHANGED desk  BY <1>3 DEF DeskInv, desk, Busy
  <1>4. CASE Crash(h)  BY <1>4, AfterCrash DEF DeskInv, OthersStay
  <1> QED  BY <1>1, <1>2, <1>3, <1>4, Zenon DEF DeskStep

(* A step of other kinds leaves the requests of these as they are.          *)
LEMMA Beside ==
    ASSUME DeskInv, NEW h \in Handlers, NEW kinds, NEW others, kinds \cap others = {},
           DeskStep(h, others)
    PROVE  StoodBy(kinds)
  <1>1. ASSUME NEW kind \in others, NEW plan, NEW read, Begin(h, kind, plan, read)
        PROVE  StoodBy(kinds)
    <2>1. ~ Busy(h) /\ (Busy(h)' => req'[h].kind = kind)  BY <1>1, AfterBegin
    <2>2. OthersStay(h) /\ crossed \subseteq crossed' /\ crashed' = crashed  BY <1>1, AfterBegin
    <2> QED  BY <1>1, <2>1, <2>2 DEF StoodBy, OthersStay
  <1>2. ASSUME NEW plan, NEW read, GoOn(h, plan, read), Busy(h), req[h].kind \in others
        PROVE  StoodBy(kinds)
    <2>1. Busy(h)' => req'[h].kind = req[h].kind  BY <1>2, AfterGoOn
    <2>2. OthersStay(h) /\ crossed' = crossed /\ crashed' = crashed  BY <1>2, AfterGoOn
    <2> QED  BY <1>2, <2>1, <2>2 DEF StoodBy, OthersStay
  <1>3. CASE UNCHANGED desk  BY <1>3 DEF StoodBy, desk
  <1> QED  BY <1>1, <1>2, <1>3, Zenon DEF DeskStep

-----------------------------------------------------------------------------
(* The steps of one part are beside the requests of another.                *)
StockKinds == ProductKinds \cup ScannerKinds \cup ShopperKinds
ContentKinds == ReviewKinds \cup ArticleKinds \cup CategoryKinds \cup HomePageKinds \cup PhoneKinds
ReturnsKinds == QueueKinds \cup ParcelKinds \cup SettlementKinds
MoneyKinds == TransferKinds \cup WalletKinds \cup QuoteKinds
AllKinds == StockKinds \cup RefurbishKinds \cup ContentKinds \cup ReturnsKinds \cup MoneyKinds

LEMMA OfMore ==
    ASSUME NEW h, NEW kinds, NEW more, kinds \subseteq more, DeskStep(h, kinds)
    PROVE  DeskStep(h, more)
  BY DEF DeskStep

LEMMA StockDesk ==
    ASSUME NEW h, StockStep(h) PROVE DeskStep(h, StockKinds)
  <1>1. CASE Concerns(h, ProductKinds \cup ScannerKinds) /\ CatalogueStep(h)
        BY <1>1, CatalogueDesk, OfMore DEF StockKinds
  <1>2. CASE Concerns(h, ScannerKinds) /\ WarehouseStep(h)
        BY <1>2, WarehouseDesk, OfMore DEF StockKinds
  <1>3. CASE Concerns(h, ShopperKinds) /\ AlertsStep(h)  BY <1>3, AlertsDesk, OfMore DEF StockKinds
  <1> QED  BY <1>1, <1>2, <1>3, Zenon DEF StockStep

LEMMA ContentDesk ==
    ASSUME NEW h, ContentStep(h) PROVE DeskStep(h, ContentKinds)
  <1>1. CASE Concerns(h, ReviewKinds) /\ ReviewsStep(h)
        BY <1>1, ReviewsDesk, OfMore DEF ContentKinds
  <1>2. CASE Concerns(h, ArticleKinds) /\ BlogStep(h)  BY <1>2, BlogDesk, OfMore DEF ContentKinds
  <1>3. CASE Concerns(h, CategoryKinds) /\ CategoriesStep(h)
        BY <1>3, CategoriesDesk, OfMore DEF ContentKinds
  <1>4. CASE Concerns(h, HomePageKinds) /\ HomePageStep(h)
        BY <1>4, HomePageDesk, OfMore DEF ContentKinds
  <1>5. CASE Concerns(h, PhoneKinds) /\ RelayStep(h)  BY <1>5, RelayDesk, OfMore DEF ContentKinds
  <1> QED  BY <1>1, <1>2, <1>3, <1>4, <1>5, Zenon DEF ContentStep

LEMMA ReturnsDesk ==
    ASSUME NEW h, ReturnsStep(h) PROVE DeskStep(h, ReturnsKinds)
  <1>1. CASE Concerns(h, QueueKinds) /\ TriageStep(h)  BY <1>1, TriageDesk, OfMore DEF ReturnsKinds
  <1>2. CASE Concerns(h, ParcelKinds) /\ ParcelsStep(h)
        BY <1>2, ParcelsDesk, OfMore DEF ReturnsKinds
  <1>3. CASE Concerns(h, SettlementKinds) /\ SettlementStep(h)
        BY <1>3, SettlementDesk, OfMore DEF ReturnsKinds
  <1> QED  BY <1>1, <1>2, <1>3, Zenon DEF ReturnsStep

LEMMA MoneyDesk ==
    ASSUME NEW h, MoneyStep(h) PROVE DeskStep(h, MoneyKinds)
  <1>1. CASE Concerns(h, TransferKinds) /\ TransfersStep(h)
        BY <1>1, TransfersDesk, OfMore DEF MoneyKinds
  <1>2. CASE Concerns(h, WalletKinds) /\ WalletStep(h)  BY <1>2, WalletDesk, OfMore DEF MoneyKinds
  <1>3. CASE Concerns(h, QuoteKinds) /\ QuotesStep(h)  BY <1>3, QuotesDesk, OfMore DEF MoneyKinds
  <1> QED  BY <1>1, <1>2, <1>3, Zenon DEF MoneyStep

LEMMA AllDesk ==
    ASSUME NEW h, Step(h) PROVE DeskStep(h, AllKinds) \/ Crash(h)
  <1>1. CASE StockStep(h)  BY <1>1, StockDesk, OfMore DEF AllKinds
  <1>2. CASE Concerns(h, RefurbishKinds) /\ RefurbishStep(h)
        BY <1>2, RefurbishDesk, OfMore DEF AllKinds
  <1>3. CASE ContentStep(h)  BY <1>3, ContentDesk, OfMore DEF AllKinds
  <1>4. CASE ReturnsStep(h)  BY <1>4, ReturnsDesk, OfMore DEF AllKinds
  <1>5. CASE MoneyStep(h)  BY <1>5, MoneyDesk, OfMore DEF AllKinds
  <1> QED  BY <1>1, <1>2, <1>3, <1>4, <1>5, Zenon DEF Step

(* What the refurbished listing sees of a step                               *)
LEMMA RefurbOrNot ==
    ASSUME DeskInv, NEW h \in Handlers, Step(h)
    PROVE  \/ Concerns(h, RefurbishKinds) /\ RefurbishStep(h)
           \/ StoodBy(RefurbishKinds) /\ UNCHANGED refurbish
           \/ Crash(h) /\ UNCHANGED refurbish
  <1> DEFINE others == StockKinds \cup ContentKinds \cup ReturnsKinds \cup MoneyKinds
  <1>1. RefurbishKinds \cap others = {}
        BY DEF RefurbishKinds, StockKinds, ContentKinds, ReturnsKinds, MoneyKinds, ProductKinds,
               ScannerKinds, ShopperKinds, ReviewKinds, ArticleKinds, CategoryKinds, HomePageKinds,
               PhoneKinds, QueueKinds, ParcelKinds, SettlementKinds, TransferKinds, WalletKinds,
               QuoteKinds
  <1>2. CASE StockStep(h) /\ UNCHANGED refurbish
    <2>1. DeskStep(h, others)  BY <1>2, StockDesk, OfMore
    <2> QED  BY <1>1, <1>2, <2>1, Beside
  <1>3. CASE ContentStep(h) /\ UNCHANGED refurbish
    <2>1. DeskStep(h, others)  BY <1>3, ContentDesk, OfMore
    <2> QED  BY <1>1, <1>3, <2>1, Beside
  <1>4. CASE ReturnsStep(h) /\ UNCHANGED refurbish
    <2>1. DeskStep(h, others)  BY <1>4, ReturnsDesk, OfMore
    <2> QED  BY <1>1, <1>4, <2>1, Beside
  <1>5. CASE MoneyStep(h) /\ UNCHANGED refurbish
    <2>1. DeskStep(h, others)  BY <1>5, MoneyDesk, OfMore
    <2> QED  BY <1>1, <1>5, <2>1, Beside
  <1> QED  BY <1>2, <1>3, <1>4, <1>5, Zenon DEF Step, everything

-----------------------------------------------------------------------------
(* The desk at the start, and when nothing happens                          *)
LEMMA DeskBegins ==
    ASSUME Init
    PROVE  DeskInv
  <1>1. req = [h \in Handlers |-> Idle]  BY DEF Init, DeskInit
  <1>2. \A h \in Handlers : ~ Busy(h)  BY <1>1 DEF Idle, Busy
  <1> QED  BY <1>1, <1>2 DEF DeskInv

LEMMA DeskStutters ==
    ASSUME UNCHANGED desk, NEW kinds
    PROVE  StoodBy(kinds) /\ (DeskInv => DeskInv')
  BY DEF StoodBy, DeskInv, desk, Busy

LEMMA DeskIsKept == DeskInv /\ [Next]_<<desk, everything>> => DeskInv'
  <1>1. ASSUME DeskInv, NEW h \in Handlers, Step(h) PROVE DeskInv'  BY <1>1, AllDesk, DeskKept
  <1>2. ASSUME DeskInv, UNCHANGED <<desk, everything>> PROVE DeskInv'  BY <1>2, DeskStutters
  <1> QED  BY <1>1, <1>2, Zenon DEF Next

-----------------------------------------------------------------------------
(* The refurbished listing: what its rows are,                               *)
RefurbType ==
    /\ listing \in [state : {"none", "draft", "active"}, stock : Int]
    /\ listing.state = "none" => listing.stock = 0
    /\ opened \in Int /\ moved \in Int /\ lost \in BOOLEAN
    /\ placed \in [Jobs -> Int]
    /\ job = [j \in Jobs |-> job[j]] /\ unit = [j \in Jobs |-> unit[j]]

(* what it holds,                                                            *)
RefurbAdds == ~ lost => listing.stock = opened + moved + SumFunctionOnSet(placed, Jobs)

(* what the requests at work on it have read and have still to do,            *)
JobPlans == {<<"find", "list", "status", "units">>, <<"list", "status", "units">>,
             <<"status", "units">>, <<"units">>}
FoundRow(read) == read.found \in [state : {"none", "draft", "active"}, stock : Int]
RefurbRead ==
    \A h \in Handlers : Busy(h) =>
        /\ req[h].kind = "job" =>
              /\ req[h].todo \in JobPlans /\ req[h].read.job \in Jobs
              /\ Len(req[h].todo) > 2 => req[h].read.next = "LISTED"
              /\ req[h].todo = <<"list", "status", "units">> => FoundRow(req[h].read)
        /\ req[h].kind = "open" =>
              /\ req[h].todo = <<"create">> /\ FoundRow(req[h].read)
              /\ req[h].read.qty \in Int
        /\ req[h].kind # "move"

(* and where each job stands that is not torn, and that no crash cut short.   *)
Apiece(j) == \A g, h \in Doing({"job"}) : req[g].read.job = j /\ req[h].read.job = j => g = h
Unlisted(j) == job[j] # "LISTED" /\ placed[j] = 0 /\ unit[j] # "AVAILABLE_REFURB"
InPlace(j) == placed[j] = 1 \/ j \in shelved
AtRest(j) == IF job[j] = "LISTED" THEN InPlace(j) ELSE Unlisted(j)
Reached(h) ==
    LET j == req[h].read.job
        next == req[h].read.next
    IN  /\ req[h].todo # <<"units">> => job[j] # "LISTED"
        /\ req[h].todo = <<"units">> => job[j] = next
        /\ IF Len(req[h].todo) > 2 \/ next # "LISTED" THEN Unlisted(j) ELSE InPlace(j)
RefurbStands ==
    \A j \in Jobs \ torn :
        /\ Apiece(j)
        /\ "job" \notin crashed =>
              /\ ~ Working(j) => AtRest(j)
              /\ \A h \in Doing({"job"}) : req[h].read.job = j => Reached(h)

RefurbInv == RefurbType /\ RefurbAdds /\ RefurbRead /\ RefurbStands

LEMMA JobPlanSteps ==
    ASSUME NEW t \in JobPlans
    PROVE  /\ Head(t) = "find" => t = <<"find", "list", "status", "units">>
                                  /\ Tail(t) = <<"list", "status", "units">>
           /\ Head(t) = "list" => t = <<"list", "status", "units">> /\ Tail(t) = <<"status", "units">>
           /\ Head(t) = "status" => t = <<"status", "units">> /\ Tail(t) = <<"units">>
           /\ Head(t) = "units" => t = <<"units">> /\ Tail(t) = <<>>
           /\ Head(t) # "create" /\ t # <<>>
  <1>1. CASE t = <<"find", "list", "status", "units">>  BY <1>1
  <1>2. CASE t = <<"list", "status", "units">>  BY <1>2
  <1>3. CASE t = <<"status", "units">>  BY <1>3
  <1>4. CASE t = <<"units">>  BY <1>4
  <1> QED  BY <1>1, <1>2, <1>3, <1>4 DEF JobPlans

LEMMA JobPlanLengths ==
    /\ Len(<<"find", "list", "status", "units">>) > 2 /\ Len(<<"list", "status", "units">>) > 2
    /\ ~ (Len(<<"status", "units">>) > 2) /\ ~ (Len(<<"units">>) > 2)
    /\ <<"find", "list", "status", "units">> # <<"units">> /\ <<"list", "status", "units">> # <<"units">>
    /\ <<"status", "units">> # <<"units">>
    /\ <<"find", "list", "status", "units">> # <<"list", "status", "units">>
    /\ <<"status", "units">> # <<"list", "status", "units">>
    /\ <<"units">> # <<"list", "status", "units">>
    /\ <<"find", "list", "status", "units">> # <<>> /\ <<"list", "status", "units">> # <<>>
    /\ <<"status", "units">> # <<>> /\ <<"units">> # <<>>
  OBVIOUS

LEMMA UnitStatuses ==
    ASSUME NEW next, NEW old, next # "LISTED", old # "AVAILABLE_REFURB"
    PROVE  UnitStatus(next, old) # "AVAILABLE_REFURB"
  BY Zenon DEF UnitStatus

LEMMA ListedRows ==
    ASSUME NEW found \in [state : {"none", "draft", "active"}, stock : Int], NEW n \in Int,
           NEW draft, found.state # "draft"
    PROVE  /\ Listed(found, n, draft) \in [state : {"none", "draft", "active"}, stock : Int]
           /\ Listed(found, n, draft).state # "none"
           /\ found.state = "none" => Listed(found, n, draft).stock = n
           /\ found.state = "active" => Listed(found, n, draft).stock = found.stock + n
  BY DEF Listed

(* A step that leaves jobs and their requests alone.                        *)
LEMMA JobsLeftAlone ==
    ASSUME RefurbInv, StoodBy({"job"}), UNCHANGED <<job, unit, placed, shelved, torn>>
    PROVE  RefurbStands'
  <1>1. \A g : g \in Doing({"job"})' <=> g \in Doing({"job"})  BY DEF StoodBy, Doing, Busy
  <1>2. \A g \in Doing({"job"}) : req'[g] = req[g]  BY DEF StoodBy, Doing
  <1>3. \A j : Working(j)' <=> Working(j)  BY <1>1, <1>2 DEF Working
  <1>4. \A j : Apiece(j) => Apiece(j)'  BY <1>1, <1>2 DEF Apiece
  <1>5. \A j : AtRest(j)' <=> AtRest(j)  BY DEF AtRest, InPlace, Unlisted
  <1>6. \A g \in Doing({"job"}) : Reached(g)' <=> Reached(g)  BY <1>2 DEF Reached, InPlace, Unlisted
  <1>7. crashed' = crashed  BY DEF StoodBy
  <1> QED  BY <1>1, <1>2, <1>3, <1>4, <1>5, <1>6, <1>7 DEF RefurbInv, RefurbStands

(* A step of a job's request.                                               *)
LEMMA JobWent ==
    ASSUME DeskInv, RefurbInv, NEW h \in Handlers, Busy(h), req[h].kind = "job", OthersStay(h),
           torn' = torn, crashed' = crashed, NEW i \in Jobs, i = req[h].read.job,
           \A j \in Jobs \ {i} : /\ job'[j] = job[j] /\ unit'[j] = unit[j] /\ placed'[j] = placed[j]
                                 /\ j \in shelved' <=> j \in shelved,
           Busy(h)' => req'[h].kind = "job" /\ req'[h].read.job = i,
           i \notin torn /\ "job" \notin crashed /\ Reached(h) =>
                IF Busy(h)' THEN Reached(h)' ELSE AtRest(i)'
    PROVE  RefurbStands'
  <1>1. h \in Doing({"job"}) /\ (h \in Doing({"job"})' <=> Busy(h)')  BY DEF Doing
  <1>2. \A g \in Handlers \ {h} : g \in Doing({"job"})' <=> g \in Doing({"job"})
        BY DEF OthersStay, Doing
  <1>3. \A g \in Handlers \ {h} : req'[g] = req[g]  BY DEF OthersStay
  <1>4. Doing({"job"}) \subseteq Handlers /\ Doing({"job"})' \subseteq Handlers  BY DEF Doing
  <1>5. \A j \in Jobs : Apiece(j) => Apiece(j)'  BY <1>1, <1>2, <1>3, <1>4 DEF Apiece
  <1>6. ASSUME NEW j \in Jobs \ torn, "job" \notin crashed, j # i
        PROVE  /\ ~ Working(j)' => AtRest(j)'
               /\ \A g \in Doing({"job"})' : req'[g].read.job = j => Reached(g)'
    <2>1. ~ Working(j)' => ~ Working(j)  BY <1>1, <1>2, <1>3, <1>4, <1>6 DEF Working
    <2>2. AtRest(j)' <=> AtRest(j)  BY <1>6 DEF AtRest, InPlace, Unlisted
    <2>3. ASSUME NEW g \in Doing({"job"})', req'[g].read.job = j PROVE Reached(g)'
      <3>1. g \in Handlers \ {h} /\ g \in Doing({"job"}) /\ req'[g] = req[g]
            BY <1>1, <1>2, <1>3, <1>4, <1>6, <2>3
      <3>2. Reached(g)  BY <1>6, <2>3, <3>1 DEF RefurbInv, RefurbStands
      <3> QED  BY <1>6, <2>3, <3>1, <3>2 DEF Reached, InPlace, Unlisted
    <2> QED  BY <1>6, <2>1, <2>2, <2>3 DEF RefurbInv, RefurbStands
  <1>7. ASSUME i \notin torn, "job" \notin crashed
        PROVE  /\ ~ Working(i)' => AtRest(i)'
               /\ \A g \in Doing({"job"})' : req'[g].read.job = i => Reached(g)'
    <2>1. Reached(h) /\ \A g \in Doing({"job"}) : req[g].read.job = i => g = h
          BY <1>1, <1>7 DEF RefurbInv, RefurbStands, Apiece
    <2>2. IF Busy(h)' THEN Reached(h)' ELSE AtRest(i)'  BY <1>7, <2>1
    <2>3. Working(i)' <=> Busy(h)'  BY <1>1, <1>2, <1>3, <1>4, <2>1 DEF Working
    <2>4. \A g \in Doing({"job"})' : req'[g].read.job = i => g = h  BY <1>2, <1>3, <1>4, <2>1
    <2> QED  BY <1>1, <2>2, <2>3, <2>4
  <1> QED  BY <1>5, <1>6, <1>7 DEF RefurbInv, RefurbStands

LEMMA RefurbReadOn ==
    ASSUME DeskInv, RefurbInv, NEW h \in Handlers, OthersStay(h),
           Busy(h)' =>
              /\ req'[h].kind = "job" =>
                    /\ req'[h].todo \in JobPlans /\ req'[h].read.job \in Jobs
                    /\ Len(req'[h].todo) > 2 => req'[h].read.next = "LISTED"
                    /\ req'[h].todo = <<"list", "status", "units">> => FoundRow(req'[h].read)
              /\ req'[h].kind = "open" =>
                    req'[h].todo = <<"create">> /\ FoundRow(req'[h].read) /\ req'[h].read.qty \in Int
              /\ req'[h].kind # "move"
    PROVE  RefurbRead'
  BY DEF RefurbInv, RefurbRead, OthersStay, FoundRow

LEMMA RefurbBeside ==
    ASSUME RefurbInv, StoodBy(RefurbishKinds), UNCHANGED refurbish
    PROVE  RefurbInv'
  <1>1. StoodBy({"job"})  BY DEF StoodBy, RefurbishKinds
  <1>2. RefurbStands'  BY <1>1, JobsLeftAlone DEF refurbish
  <1>3. RefurbRead'  BY DEF RefurbInv, RefurbRead, StoodBy, RefurbishKinds, Busy, FoundRow
  <1> QED  BY <1>2, <1>3 DEF RefurbInv, RefurbType, RefurbAdds, refurbish

LEMMA RefurbCrash ==
    ASSUME DeskInv, RefurbInv, NEW h \in Handlers, Crash(h), UNCHANGED refurbish
    PROVE  RefurbInv'
  <1>1. OthersStay(h) /\ Busy(h) /\ ~ Busy(h)' /\ crashed' = crashed \cup {req[h].kind}
        BY AfterCrash
  <1>2. RefurbRead'  BY <1>1, RefurbReadOn
  <1>3. CASE req[h].kind # "job"
    <2>1. \A g : g \in Doing({"job"})' <=> g \in Doing({"job"})  BY <1>1, <1>3 DEF OthersStay, Doing
    <2>2. \A g \in Doing({"job"}) : req'[g] = req[g]  BY <1>1, <1>3 DEF OthersStay, Doing
    <2>3. \A j : Working(j)' <=> Working(j)  BY <2>1, <2>2 DEF Working
    <2>4. \A j : Apiece(j) => Apiece(j)'  BY <2>1, <2>2 DEF Apiece
    <2>5. \A j : AtRest(j)' <=> AtRest(j)  BY DEF AtRest, InPlace, Unlisted, refurbish
    <2>6. \A g \in Doing({"job"}) : Reached(g)' <=> Reached(g)
          BY <2>2 DEF Reached, InPlace, Unlisted, refurbish
    <2>7. "job" \notin crashed' => "job" \notin crashed  BY <1>1
    <2>8. torn' = torn  BY DEF refurbish
    <2>9. RefurbStands'
          BY <2>1, <2>2, <2>3, <2>4, <2>5, <2>6, <2>7, <2>8 DEF RefurbInv, RefurbStands
    <2> QED  BY <1>2, <2>9 DEF RefurbInv, RefurbType, RefurbAdds, refurbish
  <1>4. CASE req[h].kind = "job"
    <2>1. "job" \in crashed'  BY <1>1, <1>4
    <2>2. \A g \in Doing({"job"})' : g \in Doing({"job"}) /\ req'[g] = req[g]
          BY <1>1 DEF OthersStay, Doing
    <2>3. \A j : Apiece(j) => Apiece(j)'  BY <2>2 DEF Apiece
    <2>4. RefurbStands'  BY <2>1, <2>3 DEF RefurbInv, RefurbStands, refurbish
    <2> QED  BY <1>2, <2>4 DEF RefurbInv, RefurbType, RefurbAdds, refurbish
  <1> QED  BY <1>3, <1>4

(* The listing that a request writes, having found it as it is.             *)
LEMMA PutOne ==
    ASSUME RefurbType, NEW i \in Jobs
    PROVE  /\ [placed EXCEPT ![i] = @ + 1] \in [Jobs -> Int]
           /\ SumFunctionOnSet([placed EXCEPT ![i] = @ + 1], Jobs) = SumFunctionOnSet(placed, Jobs) + 1
           /\ SumFunctionOnSet(placed, Jobs) \in Int
  <1> DEFINE now == [placed EXCEPT ![i] = @ + 1]
  <1>1. placed \in [Jobs -> Int] /\ now \in [Jobs -> Int]  BY DEF RefurbType
  <1>2. now[i] = placed[i] + 1 /\ \A j \in Jobs \ {i} : now[j] = placed[j]  BY <1>1
  <1> HIDE DEF now
  <1>3. SumFunctionOnSet(now, Jobs) = SumFunctionOnSet(placed, Jobs) - placed[i] + now[i]
        BY <1>1, <1>2, RefurbishAssumption, SumChange
  <1>4. SumFunctionOnSet(placed, Jobs) \in Int  BY <1>1, RefurbishAssumption, SumInt
  <1>5. SumFunctionOnSet(now, Jobs) = SumFunctionOnSet(placed, Jobs) + 1  BY <1>1, <1>2, <1>3, <1>4
  <1> QED  BY <1>1, <1>4, <1>5 DEF now

(* What the request at hand is about                                        *)
LEMMA JobAtHand ==
    ASSUME DeskInv, RefurbInv, NEW h \in Handlers, NEW step, At(h, step),
           Concerns(h, RefurbishKinds)
    PROVE  /\ Busy(h) /\ Head(req[h].todo) = step
           /\ step \in {"find", "list", "status", "units"} =>
                 /\ req[h].kind = "job" /\ req[h].todo \in JobPlans /\ req[h].read.job \in Jobs
                 /\ step = "find" => req[h].todo = <<"find", "list", "status", "units">>
                                     /\ Tail(req[h].todo) = <<"list", "status", "units">>
                 /\ step = "list" => req[h].todo = <<"list", "status", "units">>
                                     /\ Tail(req[h].todo) = <<"status", "units">>
                                     /\ FoundRow(req[h].read)
                 /\ step \in {"find", "list"} => req[h].read.next = "LISTED"
                 /\ step = "status" => req[h].todo = <<"status", "units">>
                                       /\ Tail(req[h].todo) = <<"units">>
                 /\ step = "units" => req[h].todo = <<"units">> /\ Tail(req[h].todo) = <<>>
           /\ step = "create" =>
                 /\ req[h].kind = "open" /\ Tail(req[h].todo) = <<>>
                 /\ FoundRow(req[h].read) /\ req[h].read.qty \in Int
  <1>1. Busy(h) /\ Head(req[h].todo) = step /\ req[h].kind \in RefurbishKinds  BY DEF At, Concerns
  <1>2. CASE req[h].kind = "job"
    <2>1. /\ req[h].todo \in JobPlans /\ req[h].read.job \in Jobs
          /\ Len(req[h].todo) > 2 => req[h].read.next = "LISTED"
          /\ req[h].todo = <<"list", "status", "units">> => FoundRow(req[h].read)
          BY <1>1, <1>2 DEF RefurbInv, RefurbRead
    <2>2. step # "create"  BY <1>1, <2>1, JobPlanSteps
    <2>3. /\ step = "find" => req[h].todo = <<"find", "list", "status", "units">>
                              /\ Tail(req[h].todo) = <<"list", "status", "units">>
          /\ step = "list" => req[h].todo = <<"list", "status", "units">>
                              /\ Tail(req[h].todo) = <<"status", "units">>
          /\ step = "status" => req[h].todo = <<"status", "units">> /\ Tail(req[h].todo) = <<"units">>
          /\ step = "units" => req[h].todo = <<"units">> /\ Tail(req[h].todo) = <<>>
          BY <1>1, <2>1, JobPlanSteps
    <2>4. step \in {"find", "list"} => Len(req[h].todo) > 2  BY <2>3
    <2> QED  BY <1>1, <1>2, <2>1, <2>2, <2>3, <2>4
  <1>3. CASE req[h].kind = "open"
    <2>1. req[h].todo = <<"create">> /\ FoundRow(req[h].read) /\ req[h].read.qty \in Int
          BY <1>1, <1>3 DEF RefurbInv, RefurbRead
    <2>2. Head(<<"create">>) = "create" /\ Tail(<<"create">>) = <<>>  OBVIOUS
    <2>3. step = "create" /\ Tail(req[h].todo) = <<>>  BY <1>1, <2>1, <2>2
    <2> QED  BY <1>1, <1>3, <2>1, <2>3
  <1>4. req[h].kind # "move"  BY <1>1 DEF RefurbInv, RefurbRead
  <1> QED  BY <1>1, <1>2, <1>3, <1>4 DEF RefurbishKinds

LEMMA ChangeJobKeeps ==
    ASSUME DeskInv, RefurbInv, NEW h \in Handlers, ChangeJob(h)
    PROVE  RefurbInv'
  <1>1. PICK i \in Jobs, next \in DOMAIN Transitions :
            /\ next \in Transitions[job[i]]
            /\ Begin(h, "job", IF next = "LISTED" THEN <<"find", "list", "status", "units">>
                               ELSE <<"status", "units">>,
                     [job |-> i, next |-> next])
            /\ torn' = IF Working(i) THEN torn \cup {i} ELSE torn
            /\ UNCHANGED <<aged, listing, job, unit, opened, moved, placed, shelved, lost>>
        BY Zenon DEF ChangeJob
  <1> DEFINE plan == IF next = "LISTED" THEN <<"find", "list", "status", "units">>
                     ELSE <<"status", "units">>
  <1>2. plan \in JobPlans /\ plan # <<>> /\ plan # <<"list", "status", "units">>
        /\ (Len(plan) > 2 => next = "LISTED") /\ plan # <<"units">>
        /\ (Len(plan) > 2 \/ next # "LISTED")
        BY JobPlanLengths DEF JobPlans
  <1> DEFINE read == [job |-> i, next |-> next]
  <1>3. read.job = i /\ read.next = next  OBVIOUS
  <1>4. Begin(h, "job", plan, read)  BY <1>1
  <1> HIDE DEF plan, read
  <1>5. /\ OthersStay(h) /\ ~ Busy(h) /\ Busy(h)'
        /\ req'[h].todo = plan /\ req'[h].kind = "job"
        /\ req'[h].read.job = i /\ req'[h].read.next = next
        /\ crashed' = crashed
    <2>1. /\ OthersStay(h) /\ ~ Busy(h) /\ Busy(h)' /\ crashed' = crashed  BY <1>2, <1>4, AfterBegin
    <2>2. req'[h].todo = plan /\ req'[h].kind = "job" /\ req'[h].read = read
          BY <1>4, <2>1, AfterBegin
    <2> QED  BY <1>3, <2>1, <2>2
  <1>6. RefurbRead'  BY <1>2, <1>5, RefurbReadOn
  <1>7. job[i] # "LISTED" /\ job'[i] # "LISTED"  BY <1>1 DEF Transitions
  <1>8. \A g \in Handlers : g \in Doing({"job"})' <=> g = h \/ g \in Doing({"job"})
        BY <1>5 DEF OthersStay, Doing
  <1>9. h \notin Doing({"job"}) /\ \A g \in Handlers \ {h} : req'[g] = req[g]
        BY <1>5 DEF OthersStay, Doing
  <1>10. Doing({"job"}) \subseteq Handlers /\ Doing({"job"})' \subseteq Handlers  BY DEF Doing
  <1>11. ASSUME NEW j \in Jobs, j \notin torn'
         PROVE  /\ Apiece(j)'
                /\ "job" \notin crashed' =>
                      /\ ~ Working(j)' => AtRest(j)'
                      /\ \A g \in Doing({"job"})' : req'[g].read.job = j => Reached(g)'
    <2>1. j \notin torn /\ (j = i => ~ Working(i))  BY <1>1, <1>11
    <2>2. Apiece(j)'
      <3>1. CASE j = i  BY <1>5, <1>8, <1>9, <1>10, <2>1, <3>1 DEF Working, Apiece
      <3>2. CASE j # i  BY <1>5, <1>8, <1>9, <1>10, <2>1, <3>2 DEF RefurbInv, RefurbStands, Apiece
      <3> QED  BY <3>1, <3>2
    <2>3. AtRest(j)' <=> AtRest(j)  BY <1>1 DEF AtRest, InPlace, Unlisted
    <2>4. ~ Working(j)' => ~ Working(j)  BY <1>8, <1>9, <1>10 DEF Working
    <2>5. ASSUME NEW g \in Doing({"job"})', req'[g].read.job = j, "job" \notin crashed'
          PROVE  Reached(g)'
      <3>1. CASE g = h
        <4>1. j = i /\ AtRest(i)  BY <1>5, <2>1, <2>5, <3>1 DEF RefurbInv, RefurbStands
        <4>2. Unlisted(i)'  BY <1>1, <1>7, <4>1 DEF AtRest, Unlisted
        <4>3. Reached(h)'  BY <1>2, <1>5, <1>7, <4>2 DEF Reached
        <4> QED  BY <3>1, <4>3
      <3>2. CASE g # h
        <4>1. g \in Doing({"job"}) /\ req'[g] = req[g]  BY <1>8, <1>9, <1>10, <2>5, <3>2
        <4>2. Reached(g)  BY <1>5, <2>1, <2>5, <4>1 DEF RefurbInv, RefurbStands
        <4> QED  BY <1>1, <4>1, <4>2 DEF Reached, InPlace, Unlisted
      <3> QED  BY <3>1, <3>2
    <2> QED  BY <1>5, <2>1, <2>2, <2>3, <2>4, <2>5 DEF RefurbInv, RefurbStands
  <1>12. RefurbStands'  BY <1>11 DEF RefurbStands
  <1>13. RefurbType' /\ RefurbAdds'  BY <1>1 DEF RefurbInv, RefurbType, RefurbAdds
  <1> QED  BY <1>6, <1>12, <1>13 DEF RefurbInv

LEMMA FindListingKeeps ==
    ASSUME DeskInv, RefurbInv, NEW h \in Handlers, Concerns(h, RefurbishKinds), FindListing(h)
    PROVE  RefurbInv'
  <1>1. /\ At(h, "find")
        /\ GoOn(h, Tail(req[h].todo), [job |-> req[h].read.job, next |-> "LISTED",
                                       found |-> listing])
        /\ UNCHANGED refurbish
        BY Zenon DEF FindListing
  <1>2. /\ Busy(h) /\ req[h].kind = "job" /\ req[h].read.job \in Jobs
        /\ req[h].todo = <<"find", "list", "status", "units">>
        /\ Tail(req[h].todo) = <<"list", "status", "units">> /\ req[h].read.next = "LISTED"
        BY <1>1, JobAtHand
  <1>3. GoOn(h, <<"list", "status", "units">>,
             [job |-> req[h].read.job, next |-> "LISTED", found |-> listing])
        BY <1>1, <1>2
  <1>4. /\ OthersStay(h) /\ crashed' = crashed /\ Busy(h)'
        /\ req'[h].todo = <<"list", "status", "units">> /\ req'[h].kind = "job"
        /\ req'[h].read = [job |-> req[h].read.job, next |-> "LISTED", found |-> listing]
        BY <1>2, <1>3, AfterGoOn, JobPlanLengths
  <1>5. FoundRow(req'[h].read)  BY <1>4 DEF FoundRow, RefurbInv, RefurbType
  <1>6. RefurbRead'  BY <1>2, <1>4, <1>5, RefurbReadOn DEF JobPlans
  <1>7. PICK i \in Jobs : i = req[h].read.job  BY <1>2
  <1>8. Reached(h) => Reached(h)'
        BY <1>1, <1>2, <1>4, JobPlanLengths DEF Reached, InPlace, Unlisted, refurbish
  <1>9. RefurbStands'  BY <1>1, <1>2, <1>4, <1>7, <1>8, JobWent DEF refurbish
  <1>10. RefurbType' /\ RefurbAdds'  BY <1>1 DEF RefurbInv, RefurbType, RefurbAdds, refurbish
  <1> QED  BY <1>6, <1>9, <1>10 DEF RefurbInv

LEMMA ListUnitKeeps ==
    ASSUME DeskInv, RefurbInv, NEW h \in Handlers, Concerns(h, RefurbishKinds), ListUnit(h)
    PROVE  RefurbInv'
  <1>1. At(h, "list")  BY Zenon DEF ListUnit
  <1>2. /\ Busy(h) /\ req[h].kind = "job" /\ req[h].read.job \in Jobs
        /\ req[h].todo = <<"list", "status", "units">>
        /\ Tail(req[h].todo) = <<"status", "units">> /\ req[h].read.next = "LISTED"
        /\ FoundRow(req[h].read)
        BY <1>1, JobAtHand
  <1>3. PICK i \in Jobs : i = req[h].read.job  BY <1>2
  <1>4. PICK found \in [state : {"none", "draft", "active"}, stock : Int] : found = req[h].read.found
        BY <1>2 DEF FoundRow
  <1>5. PICK draft \in BOOLEAN : draft = ~ aged  OBVIOUS
  <1>6. CASE Barred(found)
    <2>1. Stop(h) /\ UNCHANGED refurbish  BY <1>4, <1>6, Zenon DEF ListUnit
    <2>2. OthersStay(h) /\ crashed' = crashed /\ ~ Busy(h)'  BY <1>2, <2>1, AfterGoOn DEF Stop
    <2>3. RefurbRead'  BY <2>2, RefurbReadOn
    <2>4. Reached(h) => AtRest(i)'
          BY <1>2, <1>3, <2>1, JobPlanLengths DEF Reached, AtRest, InPlace, Unlisted, refurbish
    <2>5. RefurbStands'  BY <1>2, <1>3, <2>1, <2>2, <2>4, JobWent DEF refurbish
    <2> QED  BY <2>1, <2>3, <2>5 DEF RefurbInv, RefurbType, RefurbAdds, refurbish
  <1>7. CASE ~ Barred(found)
    <2>1. /\ Proceed(h)
          /\ listing' = IF found.state = "draft" THEN listing ELSE Listed(found, 1, draft)
          /\ placed' = [placed EXCEPT ![i] = @ + IF found.state = "draft" THEN 0 ELSE 1]
          /\ unit' = [unit EXCEPT ![i] = IF found.state = "draft" THEN @ ELSE "AVAILABLE_REFURB"]
          /\ shelved' = IF found.state = "draft" THEN shelved \cup {i} ELSE shelved
          /\ lost' = (lost \/ listing # found)
          /\ UNCHANGED <<aged, job, opened, moved, torn>>
          BY <1>3, <1>4, <1>5, <1>7 DEF ListUnit
    <2>2. GoOn(h, <<"status", "units">>, req[h].read)  BY <1>2, <2>1 DEF Proceed
    <2>3. /\ OthersStay(h) /\ crashed' = crashed /\ Busy(h)'
          /\ req'[h].todo = <<"status", "units">> /\ req'[h].kind = "job" /\ req'[h].read = req[h].read
          BY <1>2, <2>2, AfterGoOn, JobPlanLengths
    <2>4. RefurbRead'  BY <1>2, <2>3, RefurbReadOn, JobPlanLengths DEF JobPlans
    <2>5. placed \in [Jobs -> Int] /\ unit = [j \in Jobs |-> unit[j]]  BY DEF RefurbInv, RefurbType
    <2>6. Reached(h) => Reached(h)'
          BY <1>2, <1>3, <2>1, <2>3, <2>5, JobPlanLengths DEF Reached, InPlace, Unlisted
    <2>7. \A j \in Jobs \ {i} : /\ job'[j] = job[j] /\ unit'[j] = unit[j] /\ placed'[j] = placed[j]
                                /\ j \in shelved' <=> j \in shelved
          BY <2>1, <2>5
    <2>8. RefurbStands'  BY <1>2, <1>3, <2>1, <2>3, <2>6, <2>7, JobWent
    <2>9. CASE found.state = "draft"
      <3>1. placed' = placed  BY <2>1, <2>5, <2>9
      <3>2. RefurbType' /\ RefurbAdds'
            BY <2>1, <2>5, <2>9, <3>1 DEF RefurbInv, RefurbType, RefurbAdds
      <3> QED  BY <2>4, <2>8, <3>2 DEF RefurbInv
    <2>10. CASE found.state # "draft"
      <3>1. placed' = [placed EXCEPT ![i] = @ + 1]  BY <2>1, <2>10
      <3>2. /\ placed' \in [Jobs -> Int] /\ SumFunctionOnSet(placed, Jobs) \in Int
            /\ SumFunctionOnSet(placed', Jobs) = SumFunctionOnSet(placed, Jobs) + 1
            BY <3>1, PutOne DEF RefurbInv
      <3>3. /\ listing' = Listed(found, 1, draft)
            /\ listing' \in [state : {"none", "draft", "active"}, stock : Int]
            /\ listing'.state # "none"
            /\ found.state = "none" => listing'.stock = 1
            /\ found.state = "active" => listing'.stock = found.stock + 1
        <4>1. listing' = Listed(found, 1, draft)  BY <2>1, <2>10
        <4>2. /\ Listed(found, 1, draft) \in [state : {"none", "draft", "active"}, stock : Int]
              /\ Listed(found, 1, draft).state # "none"
              /\ found.state = "none" => Listed(found, 1, draft).stock = 1
              /\ found.state = "active" => Listed(found, 1, draft).stock = found.stock + 1
              BY <2>10, ListedRows
        <4> QED  BY <4>1, <4>2
      <3>4. RefurbType'  BY <2>1, <2>5, <3>2, <3>3 DEF RefurbInv, RefurbType
      <3>5. ASSUME ~ lost' PROVE listing'.stock = opened + moved + SumFunctionOnSet(placed, Jobs) + 1
        <4>1. ~ lost /\ listing = found  BY <2>1, <3>5 DEF RefurbInv, RefurbType
        <4>2. listing'.stock = listing.stock + 1  BY <2>10, <3>3, <4>1 DEF RefurbInv, RefurbType
        <4> QED  BY <4>1, <4>2 DEF RefurbInv, RefurbAdds
      <3>6. RefurbAdds'  BY <2>1, <3>2, <3>5 DEF RefurbInv, RefurbAdds, RefurbType
      <3> QED  BY <2>4, <2>8, <3>4, <3>6 DEF RefurbInv
    <2> QED  BY <2>9, <2>10
  <1> QED  BY <1>6, <1>7

LEMMA SetStatusKeeps ==
    ASSUME DeskInv, RefurbInv, NEW h \in Handlers, Concerns(h, RefurbishKinds), SetStatus(h)
    PROVE  RefurbInv'
  <1>1. At(h, "status") /\ Proceed(h)  BY Zenon DEF SetStatus
  <1>2. /\ Busy(h) /\ req[h].kind = "job" /\ req[h].read.job \in Jobs
        /\ req[h].todo = <<"status", "units">> /\ Tail(req[h].todo) = <<"units">>
        BY <1>1, JobAtHand
  <1>3. PICK i \in Jobs : i = req[h].read.job  BY <1>2
  <1>4. /\ job' = [job EXCEPT ![i] = req[h].read.next]
        /\ UNCHANGED <<aged, listing, unit, opened, moved, placed, shelved, lost, torn>>
        BY <1>3 DEF SetStatus
  <1>5. GoOn(h, <<"units">>, req[h].read)  BY <1>1, <1>2 DEF Proceed
  <1>6. /\ OthersStay(h) /\ crashed' = crashed /\ Busy(h)'
        /\ req'[h].todo = <<"units">> /\ req'[h].kind = "job" /\ req'[h].read = req[h].read
        BY <1>2, <1>5, AfterGoOn, JobPlanLengths
  <1>7. RefurbRead'  BY <1>2, <1>6, RefurbReadOn, JobPlanLengths DEF JobPlans
  <1>8. job = [j \in Jobs |-> job[j]]  BY DEF RefurbInv, RefurbType
  <1>9. job'[i] = req[h].read.next /\ \A j \in Jobs \ {i} : job'[j] = job[j]  BY <1>4, <1>8
  <1>10. Reached(h) => Reached(h)'
         BY <1>2, <1>3, <1>4, <1>6, <1>9, JobPlanLengths DEF Reached, InPlace, Unlisted
  <1>11. RefurbStands'  BY <1>2, <1>3, <1>4, <1>6, <1>9, <1>10, JobWent
  <1>12. RefurbType' /\ RefurbAdds'  BY <1>4, <1>8 DEF RefurbInv, RefurbType, RefurbAdds
  <1> QED  BY <1>7, <1>11, <1>12 DEF RefurbInv

LEMMA TransitionUnitsKeeps ==
    ASSUME DeskInv, RefurbInv, NEW h \in Handlers, Concerns(h, RefurbishKinds), TransitionUnits(h)
    PROVE  RefurbInv'
  <1>1. At(h, "units") /\ Proceed(h)  BY Zenon DEF TransitionUnits
  <1>2. /\ Busy(h) /\ req[h].kind = "job" /\ req[h].read.job \in Jobs
        /\ req[h].todo = <<"units">> /\ Tail(req[h].todo) = <<>>
        BY <1>1, JobAtHand
  <1>3. PICK i \in Jobs : i = req[h].read.job  BY <1>2
  <1>4. /\ unit' = [unit EXCEPT ![i] = UnitStatus(req[h].read.next, @)]
        /\ UNCHANGED <<aged, listing, job, opened, moved, placed, shelved, lost, torn>>
        BY <1>3 DEF TransitionUnits
  <1>5. GoOn(h, <<>>, req[h].read)  BY <1>1, <1>2 DEF Proceed
  <1>6. OthersStay(h) /\ crashed' = crashed /\ ~ Busy(h)'  BY <1>2, <1>5, AfterGoOn
  <1>7. RefurbRead'  BY <1>6, RefurbReadOn
  <1>8. unit = [j \in Jobs |-> unit[j]]  BY DEF RefurbInv, RefurbType
  <1>9. unit'[i] = UnitStatus(req[h].read.next, unit[i]) /\ \A j \in Jobs \ {i} : unit'[j] = unit[j]
        BY <1>4, <1>8
  <1>10. Reached(h) => AtRest(i)'
    <2>1. ASSUME req[h].read.next # "LISTED", unit[i] # "AVAILABLE_REFURB"
          PROVE  unit'[i] # "AVAILABLE_REFURB"
          BY <1>9, <2>1, UnitStatuses
    <2> QED  BY <1>2, <1>3, <1>4, <2>1, JobPlanLengths DEF Reached, AtRest, InPlace, Unlisted
  <1>11. RefurbStands'  BY <1>2, <1>3, <1>4, <1>6, <1>9, <1>10, JobWent
  <1>12. RefurbType' /\ RefurbAdds'  BY <1>4, <1>8 DEF RefurbInv, RefurbType, RefurbAdds
  <1> QED  BY <1>7, <1>11, <1>12 DEF RefurbInv

(* Requests of staff and scans that touch no job                            *)
LEMMA StaffStep ==
    ASSUME RefurbInv, NEW h \in Handlers, OthersStay(h), ~ Busy(h) \/ req[h].kind # "job",
           Busy(h)' => req'[h].kind # "job", crossed \subseteq crossed', crashed' = crashed,
           UNCHANGED <<job, unit, placed, shelved, torn>>
    PROVE  RefurbStands'
  <1>1. StoodBy({"job"})  BY DEF StoodBy, OthersStay
  <1> QED  BY <1>1, JobsLeftAlone

LEMMA OpenListingKeeps ==
    ASSUME DeskInv, RefurbInv, NEW h \in Handlers, OpenListing(h)
    PROVE  RefurbInv'
  <1>1. PICK n \in 0 .. MaxListed, draft \in BOOLEAN :
            LET asDraft == draft \/ ~ aged
                qty == IF n = 0 /\ ~ asDraft THEN 1 ELSE n
            IN  /\ Begin(h, "open", <<"create">>, [qty |-> qty, draft |-> asDraft, found |-> listing])
                /\ UNCHANGED refurbish
        BY Zenon DEF OpenListing
  <1>2. PICK read :
            /\ Begin(h, "open", <<"create">>, read) /\ UNCHANGED refurbish
            /\ read.qty \in Int /\ read.found = listing
    <2> DEFINE read == [qty |-> IF n = 0 /\ ~ (draft \/ ~ aged) THEN 1 ELSE n,
                        draft |-> draft \/ ~ aged, found |-> listing]
    <2>1. Begin(h, "open", <<"create">>, read) /\ UNCHANGED refurbish  BY <1>1
    <2>2. read.qty \in Int /\ read.found = listing  BY <1>1, RefurbishAssumption
    <2> QED  BY <2>1, <2>2
  <1>3. /\ OthersStay(h) /\ ~ Busy(h) /\ crossed \subseteq crossed' /\ crashed' = crashed
        /\ Busy(h)' => /\ req'[h].todo = <<"create">> /\ req'[h].kind = "open"
                       /\ req'[h].read = read
        BY <1>2, AfterBegin
  <1>4. RefurbRead'  BY <1>2, <1>3, RefurbReadOn DEF RefurbInv, RefurbType, FoundRow
  <1>5. RefurbStands'  BY <1>2, <1>3, StaffStep DEF refurbish
  <1> QED  BY <1>2, <1>4, <1>5 DEF RefurbInv, RefurbType, RefurbAdds, refurbish

LEMMA CreateListingKeeps ==
    ASSUME DeskInv, RefurbInv, NEW h \in Handlers, Concerns(h, RefurbishKinds), CreateListing(h)
    PROVE  RefurbInv'
  <1>1. At(h, "create") /\ Proceed(h)  BY Zenon DEF CreateListing
  <1>2. /\ Busy(h) /\ req[h].kind = "open" /\ Tail(req[h].todo) = <<>>
        /\ FoundRow(req[h].read) /\ req[h].read.qty \in Int
        BY <1>1, JobAtHand
  <1>3. GoOn(h, <<>>, req[h].read)  BY <1>1, <1>2 DEF Proceed
  <1>4. OthersStay(h) /\ crossed' = crossed /\ crashed' = crashed /\ ~ Busy(h)'
        BY <1>2, <1>3, AfterGoOn
  <1>5. RefurbRead'  BY <1>4, RefurbReadOn
  <1>6. PICK found \in [state : {"none", "draft", "active"}, stock : Int] : found = req[h].read.found
        BY <1>2 DEF FoundRow
  <1>7. PICK qty \in Int : qty = req[h].read.qty  BY <1>2
  <1>8. CASE UNCHANGED refurbish
    <2>1. RefurbStands'  BY <1>2, <1>4, <1>8, StaffStep DEF refurbish
    <2> QED  BY <1>5, <1>8, <2>1 DEF RefurbInv, RefurbType, RefurbAdds, refurbish
  <1>9. CASE /\ found.state # "draft"
             /\ listing' = Listed(found, qty, req[h].read.draft)
             /\ opened' = opened + qty /\ lost' = (lost \/ listing # found)
             /\ UNCHANGED <<aged, job, unit, moved, placed, shelved, torn>>
    <2>1. RefurbStands'  BY <1>2, <1>4, <1>9, StaffStep
    <2>2. /\ listing' \in [state : {"none", "draft", "active"}, stock : Int]
          /\ listing'.state # "none"
          /\ found.state = "none" => listing'.stock = qty
          /\ found.state = "active" => listing'.stock = found.stock + qty
      <3>1. /\ Listed(found, qty, req[h].read.draft) \in [state : {"none", "draft", "active"}, stock : Int]
            /\ Listed(found, qty, req[h].read.draft).state # "none"
            /\ found.state = "none" => Listed(found, qty, req[h].read.draft).stock = qty
            /\ found.state = "active" =>
                  Listed(found, qty, req[h].read.draft).stock = found.stock + qty
            BY <1>9, ListedRows
      <3> QED  BY <1>9, <3>1
    <2>3. RefurbType'  BY <1>9, <2>2 DEF RefurbInv, RefurbType
    <2>4. SumFunctionOnSet(placed, Jobs) \in Int
          BY RefurbishAssumption, SumInt DEF RefurbInv, RefurbType
    <2>5. ASSUME ~ lost'
          PROVE  listing'.stock = opened + qty + moved + SumFunctionOnSet(placed, Jobs)
      <3>1. ~ lost /\ listing = found  BY <1>9, <2>5 DEF RefurbInv, RefurbType
      <3>2. listing'.stock = listing.stock + qty  BY <1>9, <2>2, <3>1 DEF RefurbInv, RefurbType
      <3>3. listing.stock = opened + moved + SumFunctionOnSet(placed, Jobs)
            BY <3>1 DEF RefurbInv, RefurbAdds
      <3> QED  BY <2>4, <3>2, <3>3 DEF RefurbInv, RefurbType
    <2>6. RefurbAdds'  BY <1>9, <2>5 DEF RefurbAdds
    <2> QED  BY <1>5, <2>1, <2>3, <2>6 DEF RefurbInv
  <1>10. UNCHANGED refurbish \/ (/\ found.state # "draft"
             /\ listing' = Listed(found, qty, req[h].read.draft)
             /\ opened' = opened + qty /\ lost' = (lost \/ listing # found)
             /\ UNCHANGED <<aged, job, unit, moved, placed, shelved, torn>>)
         BY <1>6, <1>7 DEF CreateListing
  <1> QED  BY <1>8, <1>9, <1>10

LEMMA PublishListingKeeps ==
    ASSUME DeskInv, RefurbInv, NEW h \in Handlers, PublishListing(h)
    PROVE  RefurbInv'
  <1>1. PICK n \in 1 .. MaxListed :
            /\ listing.state = "draft"
            /\ Begin(h, "open", <<>>, {})
            /\ listing' = [state |-> "active", stock |-> n]
            /\ opened' = opened + n - listing.stock
            /\ UNCHANGED <<aged, job, unit, moved, placed, shelved, lost, torn>>
        BY Zenon DEF PublishListing
  <1>2. /\ OthersStay(h) /\ ~ Busy(h) /\ crossed \subseteq crossed' /\ crashed' = crashed
        /\ ~ Busy(h)'
        BY <1>1, AfterBegin
  <1>3. RefurbRead'  BY <1>2, RefurbReadOn
  <1>4. RefurbStands'  BY <1>1, <1>2, StaffStep
  <1>5. n \in Int /\ SumFunctionOnSet(placed, Jobs) \in Int
        BY RefurbishAssumption, SumInt DEF RefurbInv, RefurbType
  <1>6. RefurbType'  BY <1>1, <1>5 DEF RefurbInv, RefurbType
  <1>7. RefurbAdds'  BY <1>1, <1>5 DEF RefurbInv, RefurbType, RefurbAdds
  <1> QED  BY <1>3, <1>4, <1>6, <1>7 DEF RefurbInv

LEMMA MoveByScanKeeps ==
    ASSUME DeskInv, RefurbInv, NEW h \in Handlers, MoveByScan(h)
    PROVE  RefurbInv'
  <1>1. /\ listing.state # "none"
        /\ Begin(h, "move", <<>>, {})
        /\ listing' = [listing EXCEPT !.stock = @ + 1]
        /\ moved' = moved + 1
        /\ UNCHANGED <<aged, job, unit, opened, placed, shelved, lost, torn>>
        BY Zenon DEF MoveByScan
  <1>2. /\ OthersStay(h) /\ ~ Busy(h) /\ crossed \subseteq crossed' /\ crashed' = crashed
        /\ ~ Busy(h)'
        BY <1>1, AfterBegin
  <1>3. RefurbRead'  BY <1>2, RefurbReadOn
  <1>4. RefurbStands'  BY <1>1, <1>2, StaffStep
  <1>5. SumFunctionOnSet(placed, Jobs) \in Int
        BY RefurbishAssumption, SumInt DEF RefurbInv, RefurbType
  <1>6. RefurbType'  BY <1>1 DEF RefurbInv, RefurbType
  <1>7. RefurbAdds'  BY <1>1, <1>5 DEF RefurbInv, RefurbType, RefurbAdds
  <1> QED  BY <1>3, <1>4, <1>6, <1>7 DEF RefurbInv

LEMMA RefurbKept ==
    ASSUME DeskInv, RefurbInv, NEW h \in Handlers, Step(h)
    PROVE  RefurbInv'
  <1>1. CASE Concerns(h, RefurbishKinds) /\ RefurbishStep(h)
        BY <1>1, ChangeJobKeeps, FindListingKeeps, ListUnitKeeps, SetStatusKeeps, TransitionUnitsKeeps,
           OpenListingKeeps, CreateListingKeeps, PublishListingKeeps, MoveByScanKeeps, Zenon
           DEF RefurbishStep
  <1>2. CASE StoodBy(RefurbishKinds) /\ UNCHANGED refurbish  BY <1>2, RefurbBeside
  <1>3. CASE Crash(h) /\ UNCHANGED refurbish  BY <1>3, RefurbCrash
  <1> QED  BY <1>1, <1>2, <1>3, RefurbOrNot

LEMMA RefurbBegins ==
    ASSUME Init
    PROVE  RefurbInv
  <1>1. /\ listing = [state |-> "none", stock |-> 0] /\ aged \in BOOLEAN
        /\ job = [j \in Jobs |-> "IN_PROGRESS"] /\ unit = [j \in Jobs |-> "REFURBISHING"]
        /\ opened = 0 /\ moved = 0 /\ placed = [j \in Jobs |-> 0]
        /\ shelved = {} /\ lost = FALSE /\ torn = {}
        BY DEF Init, RefurbishInit
  <1>2. \A h \in Handlers : ~ Busy(h)  BY DEF Init, DeskInit, Idle, Busy
  <1>3. Doing({"job"}) = {}  BY <1>2 DEF Doing
  <1>4. SumFunctionOnSet(placed, Jobs) = 0
    <2>1. \A j \in Jobs : placed[j] = 0  BY <1>1
    <2> QED  BY <2>1, RefurbishAssumption, SumZero
  <1>5. RefurbType
    <2>1. listing \in [state : {"none", "draft", "active"}, stock : Int] /\ listing.stock = 0
          BY <1>1
    <2>2. placed \in [Jobs -> Int]  BY <1>1
    <2>3. job = [j \in Jobs |-> job[j]] /\ unit = [j \in Jobs |-> unit[j]]  BY <1>1
    <2> QED  BY <1>1, <2>1, <2>2, <2>3 DEF RefurbType
  <1>6. RefurbStands  BY <1>1, <1>3 DEF RefurbStands, Apiece, Working, AtRest, Unlisted
  <1> QED  BY <1>1, <1>2, <1>4, <1>5, <1>6 DEF RefurbInv, RefurbAdds, RefurbRead

LEMMA RefurbShows ==
    ASSUME RefurbInv
    PROVE  ListingAddsUp
  <1>1. ~ lost => listing.stock = opened + moved + SumFunctionOnSet(placed, Jobs)
        BY DEF RefurbInv, RefurbAdds
  <1>2. ASSUME NEW j \in Jobs \ torn, "job" \notin crashed
        PROVE  /\ job[j] = "LISTED" => placed[j] = 1 \/ j \in shelved
               /\ ~ Working(j) /\ job[j] # "LISTED" => placed[j] = 0 /\ unit[j] # "AVAILABLE_REFURB"
    <2>1. CASE Working(j)
      <3>1. PICK h \in Doing({"job"}) : req[h].read.job = j  BY <2>1 DEF Working
      <3>2. Reached(h) /\ req[h].todo \in JobPlans
            BY <1>2, <3>1 DEF RefurbInv, RefurbStands, RefurbRead, Doing
      <3> QED  BY <2>1, <3>1, <3>2, JobPlanLengths DEF Reached, InPlace, JobPlans
    <2>2. CASE ~ Working(j)  BY <1>2, <2>2 DEF RefurbInv, RefurbStands, AtRest, InPlace, Unlisted
    <2> QED  BY <2>1, <2>2
  <1> QED  BY <1>1, <1>2, Zenon DEF ListingAddsUp

(* However jobs, listings opened by hand, units moved by a scan and processes  *)
(* that stop interleave, the stock of the refurbished listing is what was put   *)
(* on it unless two requests wrote the row they had read before, and a job that  *)
(* is listed has put its unit there once (refurbishment-job.service.js           *)
(* transitionJob, refurb-listing.service.js).                               *)
THEOREM ListingStaysRight == Spec => []ListingAddsUp
  <1>1. Init => DeskInv /\ RefurbInv  BY DeskBegins, RefurbBegins
  <1>2. DeskInv /\ RefurbInv /\ [Next]_<<desk, everything>> => DeskInv' /\ RefurbInv'
    <2>1. ASSUME DeskInv, RefurbInv, NEW h \in Handlers, Step(h) PROVE RefurbInv'
          BY <2>1, RefurbKept
    <2>2. ASSUME DeskInv, RefurbInv, UNCHANGED <<desk, everything>> PROVE RefurbInv'
      <3>1. UNCHANGED desk /\ UNCHANGED refurbish  BY <2>2, Zenon DEF everything
      <3> QED  BY <2>2, <3>1, DeskStutters, RefurbBeside
    <2> QED  BY <2>1, <2>2, DeskIsKept, Zenon DEF Next
  <1>3. RefurbInv => ListingAddsUp  BY RefurbShows
  <1> QED  BY <1>1, <1>2, <1>3, PTL DEF Spec

-----------------------------------------------------------------------------
(* Reviews: what their rows are,                                             *)
ReviewsType ==
    /\ review = [c \in Customers |-> review[c]]
    /\ \A c \in Customers :
          /\ review[c] = [status |-> review[c].status, stars |-> review[c].stars,
                          deleted |-> review[c].deleted]
          /\ review[c].status = "APPROVED" => review[c].stars \in Stars
    /\ barred \subseteq Customers

(* what the requests at work on them have read and have still to do,          *)
Posting(h) == Busy(h) /\ req[h].kind \in ReviewKinds /\ req[h].todo = <<"post", "count", "rate">>
Rating(h) == Busy(h) /\ req[h].kind \in ReviewKinds /\ req[h].todo = <<"rate">>
SaidAs(kind, new) ==
    \/ kind = "review" /\ \E s \in Stars : new = [status |-> "APPROVED", stars |-> s, deleted |-> FALSE]
    \/ kind = "amend" /\ \E s \in Stars : new = [status |-> "APPROVED", stars |-> s]
    \/ kind \in {"retract", "remove"} /\ new = [deleted |-> TRUE]
    \/ kind = "remove" /\ new = [status |-> "REJECTED"]
ReviewsRead ==
    \A h \in Handlers : Busy(h) /\ req[h].kind \in ReviewKinds =>
        /\ req[h].todo \in {<<"post", "count", "rate">>, <<"count", "rate">>, <<"rate">>}
        /\ Posting(h) => req[h].read.who \in Customers /\ SaidAs(req[h].kind, req[h].read.new)

(* that the rating is that of the rows unless a request has written one and    *)
(* not yet the rating, and was counted from them by the one about to write it, *)
ToShow == [s \in Stars |-> Counted(s)]
ReviewsRated ==
    InTurn(ReviewKinds) =>
        /\ (\A h \in Handlers : Busy(h) /\ req[h].kind \in ReviewKinds => Posting(h)) =>
              rating = Rated(ToShow)
        /\ \A h \in Handlers : Rating(h) => req[h].read.breakdown = ToShow

(* and that what staff took down is down, and no edit of it is under way.      *)
ReviewsBarred ==
    Apart("remove", "amend") =>
        /\ \A c \in barred : ~ Shown(c)
        /\ \A h \in Handlers : Posting(h) /\ req[h].kind = "amend" => req[h].read.who \notin barred

ReviewsInv == ReviewsType /\ ReviewsRead /\ ReviewsRated /\ ReviewsBarred

LEMMA ReviewPlans ==
    /\ Head(<<"post", "count", "rate">>) = "post" /\ Head(<<"count", "rate">>) = "count"
    /\ Head(<<"rate">>) = "rate"
    /\ Tail(<<"post", "count", "rate">>) = <<"count", "rate">> /\ Tail(<<"rate">>) = <<>>
    /\ <<"post", "count", "rate">> # <<>> /\ <<"count", "rate">> # <<>> /\ <<"rate">> # <<>>
    /\ <<"post", "count", "rate">> # <<"rate">> /\ <<"count", "rate">> # <<"rate">>
    /\ <<"count", "rate">> # <<"post", "count", "rate">>
  OBVIOUS

(* Nobody else is at the reviews when no two requests of theirs were at work at once. *)
LEMMA AloneAtReviews ==
    ASSUME DeskInv, InTurn(ReviewKinds),
           NEW g \in Handlers, NEW h \in Handlers, Busy(g), req[g].kind \in ReviewKinds,
           Busy(h), req[h].kind \in ReviewKinds
    PROVE  g = h
  <1>1. g # h => {req[g].kind, req[h].kind} \in crossed  BY DEF DeskInv
  <1>2. {req[g].kind, req[h].kind} \notin crossed  BY DEF InTurn, Apart
  <1> QED  BY <1>1, <1>2

(* What was never so is not made so later.                                  *)
LEMMA TurnsOnlyEnd ==
    ASSUME crossed \subseteq crossed', crashed \subseteq crashed'
    PROVE  /\ InTurn(ReviewKinds)' => InTurn(ReviewKinds)
           /\ Apart("remove", "amend")' => Apart("remove", "amend")
  BY DEF InTurn, Apart

(* A step that leaves the reviews and the requests on them alone, or stops one of these. *)
LEMMA ReviewsLeft ==
    ASSUME ReviewsInv, UNCHANGED reviews, crossed \subseteq crossed', crashed \subseteq crashed',
           \A g \in Handlers : Busy(g)' /\ req'[g].kind \in ReviewKinds => req'[g] = req[g],
           InTurn(ReviewKinds)' =>
               \A g \in Handlers : Busy(g) /\ req[g].kind \in ReviewKinds => req'[g] = req[g]
    PROVE  ReviewsInv'
  <1>1. review' = review /\ rating' = rating /\ barred' = barred  BY DEF reviews
  <1>2. /\ InTurn(ReviewKinds)' => InTurn(ReviewKinds)
        /\ Apart("remove", "amend")' => Apart("remove", "amend")
        BY TurnsOnlyEnd
  <1>3. ReviewsType'  BY <1>1 DEF ReviewsInv, ReviewsType
  <1>4. \A g \in Handlers : Busy(g)' /\ req'[g].kind \in ReviewKinds =>
            Busy(g) /\ req'[g] = req[g]
        BY DEF Busy
  <1>5. ReviewsRead'  BY <1>4 DEF ReviewsInv, ReviewsRead, Posting
  <1>6. ToShow' = ToShow  BY <1>1 DEF ToShow, Counted, Shown
  <1>7. \A g \in Handlers : (Posting(g)' => Posting(g) /\ req'[g] = req[g])
                            /\ (Rating(g)' => Rating(g) /\ req'[g] = req[g])
        BY <1>4 DEF Posting, Rating
  <1>8. ReviewsRated'
    <2>1. SUFFICES ASSUME InTurn(ReviewKinds)' PROVE ReviewsRated'  BY DEF ReviewsRated
    <2>2. \A g \in Handlers : Busy(g) /\ req[g].kind \in ReviewKinds => Busy(g)' /\ req'[g] = req[g]
          BY <2>1 DEF Busy
    <2>3. \A g \in Handlers : Busy(g) /\ req[g].kind \in ReviewKinds /\ Posting(g)' => Posting(g)
          BY <1>7
    <2>4. ASSUME \A g \in Handlers : Busy(g)' /\ req'[g].kind \in ReviewKinds => Posting(g)'
          PROVE  rating' = Rated(ToShow)'
      <3>1. rating = Rated(ToShow)  BY <1>2, <2>1, <2>2, <2>3, <2>4 DEF ReviewsInv, ReviewsRated
      <3> QED  BY <1>1, <1>6, <3>1 DEF Rated
    <2>5. \A g \in Handlers : Rating(g)' => req'[g].read.breakdown = ToShow'
          BY <1>2, <1>6, <1>7, <2>1 DEF ReviewsInv, ReviewsRated
    <2> QED  BY <2>4, <2>5 DEF ReviewsRated
  <1>9. ReviewsBarred'  BY <1>1, <1>2, <1>7 DEF ReviewsInv, ReviewsBarred, Shown
  <1> QED  BY <1>3, <1>5, <1>8, <1>9 DEF ReviewsInv

LEMMA ReviewsBeside ==
    ASSUME ReviewsInv, StoodBy(ReviewKinds), UNCHANGED reviews
    PROVE  ReviewsInv'
  <1>1. /\ crossed \subseteq crossed' /\ crashed \subseteq crashed'
        /\ \A g \in Handlers :
              /\ Busy(g) /\ req[g].kind \in ReviewKinds => req'[g] = req[g]
              /\ Busy(g)' /\ req'[g].kind \in ReviewKinds => req'[g] = req[g]
        BY DEF StoodBy
  <1> QED  BY <1>1, ReviewsLeft

LEMMA ReviewsCrash ==
    ASSUME DeskInv, ReviewsInv, NEW h \in Handlers, Crash(h), UNCHANGED reviews
    PROVE  ReviewsInv'
  <1>1. /\ OthersStay(h) /\ Busy(h) /\ ~ Busy(h)'
        /\ crossed' = crossed /\ crashed' = crashed \cup {req[h].kind}
        BY AfterCrash
  <1>2. \A g \in Handlers : Busy(g)' /\ req'[g].kind \in ReviewKinds => req'[g] = req[g]
        BY <1>1 DEF OthersStay
  <1>3. InTurn(ReviewKinds)' => req[h].kind \notin ReviewKinds  BY <1>1 DEF InTurn
  <1>4. InTurn(ReviewKinds)' =>
            \A g \in Handlers : Busy(g) /\ req[g].kind \in ReviewKinds => req'[g] = req[g]
        BY <1>1, <1>3 DEF OthersStay
  <1> QED  BY <1>1, <1>2, <1>4, ReviewsLeft

(* A request that finds the customer's row.                                 *)
LEMMA TakeKeeps ==
    ASSUME DeskInv, ReviewsInv, NEW h \in Handlers, NEW kind \in ReviewKinds,
           NEW c \in Customers, NEW change, SaidAs(kind, change), kind = "amend" => Shown(c),
           Take(h, kind, c, change)
    PROVE  ReviewsInv'
  <1>1. PICK read : /\ read = [who |-> c, old |-> review[c], new |-> change]
                    /\ Begin(h, kind, <<"post", "count", "rate">>, read)
        BY Zenon DEF Take
  <1>2. review' = review /\ rating' = rating /\ barred' = barred  BY DEF Take, reviews
  <1>3. PICK plan : plan = <<"post", "count", "rate">>  OBVIOUS
  <1>4. Begin(h, kind, plan, read) /\ plan # <<>> /\ plan # <<"rate">>  BY <1>1, <1>3, ReviewPlans
  <1>5. /\ OthersStay(h) /\ ~ Busy(h) /\ Busy(h)'
        /\ req'[h].todo = plan /\ req'[h].kind = kind /\ req'[h].read = read
        BY <1>4, AfterBegin
  <1>6. crossed \subseteq crossed' /\ crashed' = crashed  BY <1>4, AfterBegin
  <1>7. /\ InTurn(ReviewKinds)' => InTurn(ReviewKinds)
        /\ Apart("remove", "amend")' => Apart("remove", "amend")
        BY <1>6, TurnsOnlyEnd
  <1>8. Posting(h)' /\ ~ Rating(h)' /\ read.who = c /\ read.new = change
        BY <1>1, <1>3, <1>4, <1>5 DEF Posting, Rating
  <1>9. \A g \in Handlers \ {h} :
            req'[g] = req[g] /\ Busy(g)' = Busy(g) /\ Posting(g)' = Posting(g) /\ Rating(g)' = Rating(g)
        BY <1>5 DEF OthersStay, Posting, Rating
  <1>10. ReviewsType'  BY <1>2 DEF ReviewsInv, ReviewsType
  <1>11. ReviewsRead'
    <2>1. req'[h].read.who \in Customers /\ SaidAs(kind, req'[h].read.new)  BY <1>5, <1>8
    <2>2. SaidAs(req'[h].kind, req'[h].read.new)  BY <1>5, <2>1
    <2> QED  BY <1>3, <1>5, <1>9, <2>1, <2>2 DEF ReviewsInv, ReviewsRead, SaidAs
  <1>12. ToShow' = ToShow  BY <1>2 DEF ToShow, Counted, Shown
  <1>13. ReviewsRated'
    <2>1. SUFFICES ASSUME InTurn(ReviewKinds)' PROVE ReviewsRated'  BY DEF ReviewsRated
    <2>2. ASSUME \A g \in Handlers : Busy(g)' /\ req'[g].kind \in ReviewKinds => Posting(g)'
          PROVE  rating' = Rated(ToShow)'
      <3>1. \A g \in Handlers : Busy(g) /\ req[g].kind \in ReviewKinds => Posting(g)
            BY <1>5, <1>9, <2>2
      <3>2. rating = Rated(ToShow)  BY <1>7, <2>1, <3>1 DEF ReviewsInv, ReviewsRated
      <3> QED  BY <1>2, <1>12, <3>2 DEF Rated
    <2>3. ASSUME NEW g \in Handlers, Rating(g)' PROVE req'[g].read.breakdown = ToShow'
      <3>1. g # h /\ Rating(g) /\ req'[g] = req[g]  BY <1>8, <1>9, <2>3
      <3> QED  BY <1>7, <1>12, <2>1, <3>1 DEF ReviewsInv, ReviewsRated
    <2> QED  BY <2>2, <2>3 DEF ReviewsRated
  <1>14. ReviewsBarred'
    <2>1. SUFFICES ASSUME Apart("remove", "amend")' PROVE ReviewsBarred'  BY DEF ReviewsBarred
    <2>2. \A b \in barred' : ~ Shown(b)'  BY <1>2, <1>7, <2>1 DEF ReviewsInv, ReviewsBarred, Shown
    <2>3. kind = "amend" => c \notin barred  BY <1>7, <2>1 DEF ReviewsInv, ReviewsBarred
    <2>4. ASSUME NEW g \in Handlers, Posting(g)', req'[g].kind = "amend"
          PROVE  req'[g].read.who \notin barred'
      <3>1. CASE g = h  BY <1>2, <1>5, <1>8, <2>3, <2>4, <3>1
      <3>2. CASE g # h  BY <1>2, <1>7, <1>9, <2>1, <2>4, <3>2 DEF ReviewsInv, ReviewsBarred
      <3> QED  BY <3>1, <3>2
    <2> QED  BY <2>2, <2>4 DEF ReviewsBarred
  <1> QED  BY <1>10, <1>11, <1>13, <1>14 DEF ReviewsInv

LEMMA CreateReviewKeeps ==
    ASSUME DeskInv, ReviewsInv, NEW h \in Handlers, CreateReview(h) PROVE ReviewsInv'
  <1>1. PICK c \in Customers, s \in Stars :
            Take(h, "review", c, [status |-> "APPROVED", stars |-> s, deleted |-> FALSE])
        BY Zenon DEF CreateReview
  <1>2. SaidAs("review", [status |-> "APPROVED", stars |-> s, deleted |-> FALSE])  BY DEF SaidAs
  <1>3. "review" \in ReviewKinds /\ "review" # "amend"  BY DEF ReviewKinds
  <1> QED  BY <1>1, <1>2, <1>3, TakeKeeps

LEMMA EditReviewKeeps ==
    ASSUME DeskInv, ReviewsInv, NEW h \in Handlers, EditReview(h) PROVE ReviewsInv'
  <1>1. PICK c \in Customers, s \in Stars :
            Shown(c) /\ Take(h, "amend", c, [status |-> "APPROVED", stars |-> s])
        BY Zenon DEF EditReview
  <1>2. SaidAs("amend", [status |-> "APPROVED", stars |-> s]) /\ "amend" \in ReviewKinds
        BY DEF SaidAs, ReviewKinds
  <1> QED  BY <1>1, <1>2, TakeKeeps

LEMMA DeleteReviewKeeps ==
    ASSUME DeskInv, ReviewsInv, NEW h \in Handlers, DeleteReview(h) PROVE ReviewsInv'
  <1>1. PICK c \in Customers, kind \in {"retract", "remove"} :
            Take(h, kind, c, [deleted |-> TRUE])
        BY Zenon DEF DeleteReview
  <1>2. SaidAs(kind, [deleted |-> TRUE])  BY DEF SaidAs
  <1>3. kind \in ReviewKinds /\ kind # "amend"  BY DEF ReviewKinds
  <1> QED  BY <1>1, <1>2, <1>3, TakeKeeps

LEMMA RejectReviewKeeps ==
    ASSUME DeskInv, ReviewsInv, NEW h \in Handlers, RejectReview(h) PROVE ReviewsInv'
  <1>1. PICK c \in Customers : Take(h, "remove", c, [status |-> "REJECTED"])
        BY Zenon DEF RejectReview
  <1>2. SaidAs("remove", [status |-> "REJECTED"])  BY DEF SaidAs
  <1>3. "remove" \in ReviewKinds /\ "remove" # "amend"  BY DEF ReviewKinds
  <1> QED  BY <1>1, <1>2, <1>3, TakeKeeps

(* A request that goes on, is at another step than its first and leaves what is *)
(* posted alone: what is left to show of the rating.                        *)
LEMMA ReviewWent ==
    ASSUME DeskInv, ReviewsInv, NEW h \in Handlers, Busy(h), req[h].kind \in ReviewKinds,
           NEW plan, NEW read, GoOn(h, plan, read),
           plan \in {<<>>, <<"count", "rate">>, <<"rate">>},
           InTurn(ReviewKinds) =>
               /\ plan = <<>> => rating' = Rated(ToShow)'
               /\ plan = <<"rate">> => read.breakdown = ToShow',
           ReviewsType', ReviewsBarred'
    PROVE  ReviewsInv'
  <1>1. /\ OthersStay(h) /\ (Busy(h)' <=> plan # <<>>)
        /\ Busy(h)' => req'[h].todo = plan /\ req'[h].kind = req[h].kind /\ req'[h].read = read
        BY AfterGoOn
  <1>2. crossed' = crossed /\ crashed' = crashed  BY AfterGoOn
  <1>3. ~ Posting(h)'  BY <1>1, ReviewPlans DEF Posting
  <1>4. InTurn(ReviewKinds)' => InTurn(ReviewKinds)  BY <1>2, TurnsOnlyEnd
  <1>5. \A g \in Handlers \ {h} :
            req'[g] = req[g] /\ Busy(g)' = Busy(g) /\ Posting(g)' = Posting(g) /\ Rating(g)' = Rating(g)
        BY <1>1 DEF OthersStay, Posting, Rating
  <1>6. ReviewsRead'  BY <1>1, <1>3, <1>5 DEF ReviewsInv, ReviewsRead, SaidAs
  <1>7. ReviewsRated'
    <2>1. SUFFICES ASSUME InTurn(ReviewKinds)' PROVE ReviewsRated'  BY DEF ReviewsRated
    <2>2. InTurn(ReviewKinds)  BY <1>4, <2>1
    <2>3. \A g \in Handlers \ {h} : ~ (Busy(g) /\ req[g].kind \in ReviewKinds)
          BY <2>2, AloneAtReviews
    <2>4. ASSUME \A g \in Handlers : Busy(g)' /\ req'[g].kind \in ReviewKinds => Posting(g)'
          PROVE  rating' = Rated(ToShow)'
      <3>1. plan = <<>>  BY <1>1, <1>3, <2>4
      <3> QED  BY <2>2, <3>1
    <2>5. ASSUME NEW g \in Handlers, Rating(g)' PROVE req'[g].read.breakdown = ToShow'
      <3>1. g = h  BY <1>5, <2>3, <2>5 DEF Rating
      <3>2. plan = <<"rate">> /\ req'[h].read = read  BY <1>1, <2>5, <3>1 DEF Rating
      <3> QED  BY <2>2, <3>1, <3>2
    <2> QED  BY <2>4, <2>5 DEF ReviewsRated
  <1> QED  BY <1>6, <1>7 DEF ReviewsInv

(* What the request at hand is about                                        *)
LEMMA ReviewAtHand ==
    ASSUME ReviewsInv, NEW h \in Handlers, NEW step \in {"post", "count", "rate"}, At(h, step),
           Concerns(h, ReviewKinds)
    PROVE  /\ Busy(h) /\ req[h].kind \in ReviewKinds
           /\ step = "post" => Posting(h) /\ Tail(req[h].todo) = <<"count", "rate">>
           /\ step = "count" => ~ Posting(h)
           /\ step = "rate" => ~ Posting(h) /\ Rating(h) /\ Tail(req[h].todo) = <<>>
  <1>1. Busy(h) /\ Head(req[h].todo) = step /\ req[h].kind \in ReviewKinds  BY DEF At, Concerns
  <1>2. req[h].todo \in {<<"post", "count", "rate">>, <<"count", "rate">>, <<"rate">>}
        BY <1>1 DEF ReviewsInv, ReviewsRead
  <1> QED  BY <1>1, <1>2, ReviewPlans DEF Posting, Rating

(* A step of a request that posts nothing new leaves the rows that are down down. *)
LEMMA BarredStay ==
    ASSUME DeskInv, ReviewsInv, NEW h \in Handlers, Busy(h), NEW plan, NEW read,
           GoOn(h, plan, read), plan \in {<<>>, <<"count", "rate">>, <<"rate">>},
           review' = review, barred' = barred
    PROVE  ReviewsBarred'
  <1>1. /\ OthersStay(h) /\ (Busy(h)' => req'[h].todo = plan)
        /\ crossed' = crossed /\ crashed' = crashed
        BY AfterGoOn
  <1>2. \A g \in Handlers : Posting(g)' => Posting(g) /\ req'[g] = req[g]
        BY <1>1, ReviewPlans DEF Posting, OthersStay
  <1>3. Apart("remove", "amend")' => Apart("remove", "amend")  BY <1>1, TurnsOnlyEnd
  <1> QED  BY <1>2, <1>3 DEF ReviewsInv, ReviewsBarred, Shown

LEMMA CountReviewsKeeps ==
    ASSUME DeskInv, ReviewsInv, NEW h \in Handlers, CountReviews(h), Concerns(h, ReviewKinds)
    PROVE  ReviewsInv'
  <1>1. /\ At(h, "count")
        /\ GoOn(h, <<"rate">>, [breakdown |-> [s \in Stars |-> Counted(s)]])
        /\ review' = review /\ rating' = rating /\ barred' = barred
        BY Zenon DEF CountReviews, reviews
  <1>2. Busy(h) /\ req[h].kind \in ReviewKinds  BY <1>1, ReviewAtHand
  <1>3. PICK read : read = [breakdown |-> ToShow]  OBVIOUS
  <1>4. GoOn(h, <<"rate">>, read)  BY <1>1, <1>3 DEF ToShow
  <1>5. PICK plan : plan = <<"rate">>  OBVIOUS
  <1>6. GoOn(h, plan, read) /\ plan # <<>> /\ plan \in {<<>>, <<"count", "rate">>, <<"rate">>}
        BY <1>4, <1>5, ReviewPlans
  <1>7. ToShow' = ToShow /\ read.breakdown = ToShow  BY <1>1, <1>3 DEF ToShow, Counted, Shown
  <1>8. ReviewsType'  BY <1>1 DEF ReviewsInv, ReviewsType
  <1>9. ReviewsBarred'  BY <1>1, <1>2, <1>6, BarredStay
  <1> QED  BY <1>2, <1>6, <1>7, <1>8, <1>9, ReviewWent

LEMMA WriteRatingKeeps ==
    ASSUME DeskInv, ReviewsInv, NEW h \in Handlers, WriteRating(h), Concerns(h, ReviewKinds)
    PROVE  ReviewsInv'
  <1>1. /\ At(h, "rate") /\ Proceed(h)
        /\ rating' = Rated(req[h].read.breakdown) /\ review' = review /\ barred' = barred
        BY Zenon DEF WriteRating
  <1>2. Busy(h) /\ req[h].kind \in ReviewKinds /\ Rating(h) /\ Tail(req[h].todo) = <<>>
        BY <1>1, ReviewAtHand
  <1>3. PICK plan, read : plan = <<>> /\ read = req[h].read  OBVIOUS
  <1>4. GoOn(h, plan, read)  BY <1>1, <1>2, <1>3 DEF Proceed
  <1>5. ToShow' = ToShow  BY <1>1 DEF ToShow, Counted, Shown
  <1>6. InTurn(ReviewKinds) => rating' = Rated(ToShow)'
    <2>1. InTurn(ReviewKinds) => req[h].read.breakdown = ToShow
          BY <1>2 DEF ReviewsInv, ReviewsRated
    <2> QED  BY <1>1, <1>5, <2>1 DEF Rated
  <1>7. ReviewsType'  BY <1>1 DEF ReviewsInv, ReviewsType
  <1>8. ReviewsBarred'  BY <1>1, <1>2, <1>3, <1>4, BarredStay
  <1> QED  BY <1>2, <1>3, <1>4, <1>6, <1>7, <1>8, ReviewPlans, ReviewWent

(* A row as the request at hand writes it                                   *)
LEMMA ReviewRow ==
    ASSUME ReviewsType, NEW c \in Customers, NEW kind, NEW new, SaidAs(kind, new)
    PROVE  LET row == Overwritten(review[c], new)
           IN  /\ row = [status |-> row.status, stars |-> row.stars, deleted |-> row.deleted]
               /\ row.status = "APPROVED" => row.stars \in Stars
               /\ kind = "remove" => row.status # "APPROVED" \/ row.deleted
               /\ kind = "retract" => row.status = review[c].status /\ row.deleted
  <1> DEFINE old == review[c]
             row == Overwritten(old, new)
  <1>1. PICK status, stars, deleted :
            old = [status |-> status, stars |-> stars, deleted |-> deleted]
        BY DEF ReviewsType
  <1>2. status = "APPROVED" => stars \in Stars  BY <1>1 DEF ReviewsType
  <1>3. CASE \E s \in Stars : new = [status |-> "APPROVED", stars |-> s, deleted |-> FALSE] /\ kind = "review"
    <2>1. PICK s \in Stars : /\ new = [status |-> "APPROVED", stars |-> s, deleted |-> FALSE]
                             /\ kind = "review"
          BY <1>3
    <2>2. PICK no : no = FALSE  OBVIOUS
    <2>3. new = [status |-> "APPROVED", stars |-> s, deleted |-> no]  BY <2>1, <2>2
    <2>4. row = [status |-> "APPROVED", stars |-> s, deleted |-> no]  BY <1>1, <2>3 DEF Overwritten
    <2> QED  BY <2>1, <2>4
  <1>4. CASE \E s \in Stars : new = [status |-> "APPROVED", stars |-> s] /\ kind = "amend"
    <2>1. PICK s \in Stars : new = [status |-> "APPROVED", stars |-> s] /\ kind = "amend"  BY <1>4
    <2>2. row = [status |-> "APPROVED", stars |-> s, deleted |-> deleted]
          BY <1>1, <2>1 DEF Overwritten
    <2> QED  BY <2>1, <2>2
  <1>5. CASE new = [deleted |-> TRUE] /\ kind \in {"retract", "remove"}
    <2>1. PICK yes : yes = TRUE  OBVIOUS
    <2>2. new = [deleted |-> yes]  BY <1>5, <2>1
    <2>3. row = [status |-> status, stars |-> stars, deleted |-> yes]  BY <1>1, <2>2 DEF Overwritten
    <2> QED  BY <1>1, <1>2, <1>5, <2>1, <2>3
  <1>6. CASE new = [status |-> "REJECTED"] /\ kind = "remove"
    <2>1. row = [status |-> "REJECTED", stars |-> stars, deleted |-> deleted]
          BY <1>1, <1>6 DEF Overwritten
    <2> QED  BY <1>6, <2>1
  <1> QED  BY <1>3, <1>4, <1>5, <1>6 DEF SaidAs

(* The write of a row.                                                      *)
LEMMA RowWritten ==
    ASSUME DeskInv, ReviewsInv, NEW h \in Handlers, Busy(h), req[h].kind \in ReviewKinds, Posting(h),
           NEW plan, NEW read, GoOn(h, plan, read), plan = <<"count", "rate">>,
           review' = [review EXCEPT ![req[h].read.who] = Overwritten(@, req[h].read.new)],
           barred' = IF req[h].kind = "remove" THEN barred \cup {req[h].read.who}
                     ELSE IF req[h].kind = "review" THEN barred \ {req[h].read.who} ELSE barred
    PROVE  ReviewsType' /\ ReviewsBarred'
  <1>1. PICK c, new, kind : c = req[h].read.who /\ new = req[h].read.new /\ kind = req[h].kind
        OBVIOUS
  <1>2. c \in Customers /\ SaidAs(kind, new) /\ kind \in ReviewKinds
        BY <1>1 DEF ReviewsInv, ReviewsRead
  <1>3. PICK row : row = Overwritten(review[c], new)  OBVIOUS
  <1>4. /\ row = [status |-> row.status, stars |-> row.stars, deleted |-> row.deleted]
        /\ row.status = "APPROVED" => row.stars \in Stars
        /\ kind = "remove" => row.status # "APPROVED" \/ row.deleted
        /\ kind = "retract" => row.status = review[c].status /\ row.deleted
        BY <1>2, <1>3, ReviewRow DEF ReviewsInv
  <1>5. review = [b \in Customers |-> review[b]]  BY DEF ReviewsInv, ReviewsType
  <1>6. review' = [review EXCEPT ![c] = row]  BY <1>1, <1>3
  <1>7. /\ review' = [b \in Customers |-> review'[b]] /\ review'[c] = row
        /\ \A b \in Customers \ {c} : review'[b] = review[b]
        BY <1>2, <1>5, <1>6
  <1>8. barred' \subseteq Customers  BY <1>1, <1>2 DEF ReviewsInv, ReviewsType
  <1>9. ReviewsType'
    <2>1. ASSUME NEW b \in Customers
          PROVE  /\ review'[b] = [status |-> review'[b].status, stars |-> review'[b].stars,
                                  deleted |-> review'[b].deleted]
                 /\ review'[b].status = "APPROVED" => review'[b].stars \in Stars
      <3>1. CASE b = c  BY <1>4, <1>7, <3>1
      <3>2. CASE b # c  BY <1>7, <3>2 DEF ReviewsInv, ReviewsType
      <3> QED  BY <3>1, <3>2
    <2> QED  BY <1>7, <1>8, <2>1 DEF ReviewsType
  <1>10. /\ OthersStay(h) /\ (Busy(h)' => req'[h].todo = plan)
         /\ crossed' = crossed /\ crashed' = crashed
        BY AfterGoOn
  <1>11. \A g \in Handlers : Posting(g)' => g # h /\ Posting(g) /\ req'[g] = req[g]
        BY <1>10, ReviewPlans DEF Posting, OthersStay
  <1>12. ReviewsBarred'
    <2>1. SUFFICES ASSUME Apart("remove", "amend")' PROVE ReviewsBarred'  BY DEF ReviewsBarred
    <2>2. Apart("remove", "amend") /\ {"remove", "amend"} \notin crossed
          BY <1>10, <2>1, TurnsOnlyEnd DEF Apart
    <2>3. (\A b \in barred : ~ Shown(b))
          /\ \A g \in Handlers : Posting(g) /\ req[g].kind = "amend" => req[g].read.who \notin barred
          BY <2>2 DEF ReviewsInv, ReviewsBarred
    <2>4. ASSUME NEW b \in barred' PROVE ~ Shown(b)'
      <3>1. CASE b # c
        <4>1. b \in barred /\ b \in Customers  BY <1>1, <1>8, <2>4, <3>1
        <4> QED  BY <1>7, <2>3, <3>1, <4>1 DEF Shown
      <3>2. CASE b = c /\ kind = "remove"  BY <1>4, <1>7, <3>2 DEF Shown
      <3>3. CASE b = c /\ kind # "remove"
        <4>1. kind # "review" /\ c \in barred  BY <1>1, <2>4, <3>3
        <4>2. kind # "amend"  BY <1>1, <2>3, <4>1
        <4>3. kind = "retract"  BY <1>2, <3>3, <4>1, <4>2 DEF ReviewKinds
        <4> QED  BY <1>4, <1>7, <3>3, <4>3 DEF Shown
      <3> QED  BY <3>1, <3>2, <3>3
    <2>5. ASSUME NEW g \in Handlers, Posting(g)', req'[g].kind = "amend"
          PROVE  req'[g].read.who \notin barred'
      <3>1. g # h /\ Posting(g) /\ req[g].kind = "amend" /\ req'[g] = req[g]  BY <1>11, <2>5
      <3>2. {req[g].kind, req[h].kind} \in crossed  BY <3>1 DEF DeskInv, Posting
      <3>3. {req[g].kind, req[h].kind} # {"remove", "amend"}  BY <2>2, <3>2
      <3>4. req[h].kind # "remove"  BY <3>1, <3>3
      <3> QED  BY <2>3, <3>1, <3>4
    <2> QED  BY <2>4, <2>5 DEF ReviewsBarred
  <1> QED  BY <1>9, <1>12

LEMMA PostReviewKeeps ==
    ASSUME DeskInv, ReviewsInv, NEW h \in Handlers, PostReview(h), Concerns(h, ReviewKinds)
    PROVE  ReviewsInv'
  <1>1. At(h, "post")  BY Zenon DEF PostReview
  <1>2. /\ Busy(h) /\ req[h].kind \in ReviewKinds /\ Posting(h)
        /\ Tail(req[h].todo) = <<"count", "rate">>
        BY <1>1, ReviewAtHand
  <1>3. CASE Stop(h) /\ UNCHANGED reviews
    <2>1. review' = review /\ rating' = rating /\ barred' = barred  BY <1>3 DEF reviews
    <2>2. PICK plan, read : plan = <<>> /\ read = {}  OBVIOUS
    <2>3. GoOn(h, plan, read)  BY <1>3, <2>2 DEF Stop
    <2>4. ToShow' = ToShow  BY <2>1 DEF ToShow, Counted, Shown
    <2>5. InTurn(ReviewKinds) => rating' = Rated(ToShow)'
      <3>1. ASSUME InTurn(ReviewKinds) PROVE rating = Rated(ToShow)
        <4>1. \A g \in Handlers : Busy(g) /\ req[g].kind \in ReviewKinds => Posting(g)
              BY <1>2, <3>1, AloneAtReviews
        <4> QED  BY <3>1, <4>1 DEF ReviewsInv, ReviewsRated
      <3> QED  BY <2>1, <2>4, <3>1 DEF Rated
    <2>6. ReviewsType'  BY <2>1 DEF ReviewsInv, ReviewsType
    <2>7. ReviewsBarred'  BY <1>2, <2>1, <2>2, <2>3, BarredStay
    <2> QED  BY <1>2, <2>2, <2>3, <2>5, <2>6, <2>7, ReviewPlans, ReviewWent
  <1>4. CASE /\ Proceed(h)
             /\ review' = [review EXCEPT ![req[h].read.who] = Overwritten(@, req[h].read.new)]
             /\ barred' = IF req[h].kind = "remove" THEN barred \cup {req[h].read.who}
                          ELSE IF req[h].kind = "review" THEN barred \ {req[h].read.who} ELSE barred
    <2>1. PICK plan, read : plan = <<"count", "rate">> /\ read = req[h].read  OBVIOUS
    <2>2. GoOn(h, plan, read)  BY <1>2, <1>4, <2>1 DEF Proceed
    <2>3. ReviewsType' /\ ReviewsBarred'  BY <1>2, <1>4, <2>1, <2>2, RowWritten
    <2>4. plan # <<>> /\ plan # <<"rate">>  BY <2>1, ReviewPlans
    <2> QED  BY <1>2, <2>1, <2>2, <2>3, <2>4, ReviewWent
  <1> QED  BY <1>3, <1>4, Zenon DEF PostReview

(* What a step of the back office does to the reviews                        *)
LEMMA ReviewsOrNot ==
    ASSUME DeskInv, NEW h \in Handlers, Step(h)
    PROVE  \/ Concerns(h, ReviewKinds) /\ ReviewsStep(h)
           \/ StoodBy(ReviewKinds) /\ UNCHANGED reviews
           \/ Crash(h) /\ UNCHANGED reviews
  <1> DEFINE beside == ArticleKinds \cup CategoryKinds \cup HomePageKinds \cup PhoneKinds
             others == StockKinds \cup RefurbishKinds \cup beside \cup ReturnsKinds \cup MoneyKinds
  <1>1. ReviewKinds \cap others = {}
        BY DEF RefurbishKinds, StockKinds, ReturnsKinds, MoneyKinds, ProductKinds,
               ScannerKinds, ShopperKinds, ReviewKinds, ArticleKinds, CategoryKinds, HomePageKinds,
               PhoneKinds, QueueKinds, ParcelKinds, SettlementKinds, TransferKinds, WalletKinds,
               QuoteKinds
  <1>2. ASSUME DeskStep(h, others) PROVE StoodBy(ReviewKinds)  BY <1>1, <1>2, Beside
  <1>3. CASE StockStep(h) /\ UNCHANGED content
    <2>1. DeskStep(h, others)  BY <1>3, StockDesk, OfMore
    <2> QED  BY <1>2, <1>3, <2>1 DEF content
  <1>4. CASE Concerns(h, RefurbishKinds) /\ RefurbishStep(h) /\ UNCHANGED content
    <2>1. DeskStep(h, others)  BY <1>4, RefurbishDesk, OfMore
    <2> QED  BY <1>2, <1>4, <2>1 DEF content
  <1>5. CASE ReturnsStep(h) /\ UNCHANGED content
    <2>1. DeskStep(h, others)  BY <1>5, ReturnsDesk, OfMore
    <2> QED  BY <1>2, <1>5, <2>1 DEF content
  <1>6. CASE MoneyStep(h) /\ UNCHANGED content
    <2>1. DeskStep(h, others)  BY <1>6, MoneyDesk, OfMore
    <2> QED  BY <1>2, <1>6, <2>1 DEF content
  <1>7. CASE ContentStep(h)
    <2>1. CASE Concerns(h, ArticleKinds) /\ BlogStep(h) /\ UNCHANGED reviews
      <3>1. DeskStep(h, others)  BY <2>1, BlogDesk, OfMore
      <3> QED  BY <1>2, <2>1, <3>1
    <2>2. CASE Concerns(h, CategoryKinds) /\ CategoriesStep(h) /\ UNCHANGED reviews
      <3>1. DeskStep(h, others)  BY <2>2, CategoriesDesk, OfMore
      <3> QED  BY <1>2, <2>2, <3>1
    <2>3. CASE Concerns(h, HomePageKinds) /\ HomePageStep(h) /\ UNCHANGED reviews
      <3>1. DeskStep(h, others)  BY <2>3, HomePageDesk, OfMore
      <3> QED  BY <1>2, <2>3, <3>1
    <2>4. CASE Concerns(h, PhoneKinds) /\ RelayStep(h) /\ UNCHANGED reviews
      <3>1. DeskStep(h, others)  BY <2>4, RelayDesk, OfMore
      <3> QED  BY <1>2, <2>4, <3>1
    <2> QED  BY <1>7, <2>1, <2>2, <2>3, <2>4, Zenon DEF ContentStep
  <1>8. CASE Crash(h) /\ UNCHANGED everything  BY <1>8, Zenon DEF everything, content
  <1> QED  BY <1>3, <1>4, <1>5, <1>6, <1>7, <1>8, Zenon DEF Step

LEMMA ReviewsKept ==
    ASSUME DeskInv, ReviewsInv, NEW h \in Handlers, Step(h)
    PROVE  ReviewsInv'
  <1>1. CASE Concerns(h, ReviewKinds) /\ ReviewsStep(h)
        BY <1>1, CreateReviewKeeps, EditReviewKeeps, DeleteReviewKeeps, RejectReviewKeeps,
           PostReviewKeeps, CountReviewsKeeps, WriteRatingKeeps, Zenon DEF ReviewsStep
  <1>2. CASE StoodBy(ReviewKinds) /\ UNCHANGED reviews  BY <1>2, ReviewsBeside
  <1>3. CASE Crash(h) /\ UNCHANGED reviews  BY <1>3, ReviewsCrash
  <1> QED  BY <1>1, <1>2, <1>3, ReviewsOrNot

LEMMA ReviewsBegin ==
    ASSUME Init
    PROVE  ReviewsInv
  <1>1. /\ review = [c \in Customers |-> NoReview]
        /\ rating = Rated([s \in Stars |-> 0]) /\ barred = {}
        BY DEF Init, ReviewsInit
  <1>2. \A h \in Handlers : ~ Busy(h)  BY DEF Init, DeskInit, Idle, Busy
  <1>3. ReviewsType
    <2>1. ASSUME NEW c \in Customers
          PROVE  /\ review[c] = [status |-> review[c].status, stars |-> review[c].stars,
                                 deleted |-> review[c].deleted]
                 /\ review[c].status = "none"
          BY <1>1 DEF NoReview
    <2>2. review = [c \in Customers |-> review[c]]  BY <1>1
    <2> QED  BY <1>1, <2>1, <2>2 DEF ReviewsType
  <1>4. \A c \in Customers : ~ Shown(c)  BY <1>1 DEF Shown, NoReview
  <1>5. ToShow = [s \in Stars |-> 0]
    <2>1. \A s \in Stars : {c \in Customers : Shown(c) /\ review[c].stars = s} = {}  BY <1>4
    <2>2. \A s \in Stars : Counted(s) = 0  BY <2>1, FS_EmptySet DEF Counted
    <2> QED  BY <2>2 DEF ToShow
  <1> QED  BY <1>1, <1>2, <1>3, <1>5
           DEF ReviewsInv, ReviewsRead, ReviewsRated, ReviewsBarred, Posting, Rating

(* A mean is rounded to a tenth of what it is.                               *)
LEMMA RoundedMean ==
    ASSUME NEW sum \in Int, NEW n \in Nat, n # 0, NEW a, a = (20 * sum + n) \div (2 * n)
    PROVE  -n <= 2 * (a * n - 10 * sum) /\ 2 * (a * n - 10 * sum) <= n
  OBVIOUS

LEMMA ReviewsShow ==
    ASSUME ReviewsInv
    PROVE  RatingIsTrue
  <1>1. ASSUME Quiet(ReviewKinds), InTurn(ReviewKinds)
        PROVE  LET live == {c \in Customers : Shown(c)}
                   sum == SumFunctionOnSet([c \in live |-> review[c].stars], live)
                   error == 2 * (rating.average * Cardinality(live) - 10 * sum)
               IN  /\ \A s \in Stars :
                         rating.breakdown[s] = Cardinality({c \in live : review[c].stars = s})
                   /\ -Cardinality(live) <= error /\ error <= Cardinality(live)
    <2>1. rating = Rated(ToShow)
      <3>1. \A h \in Handlers : ~ (Busy(h) /\ req[h].kind \in ReviewKinds)  BY <1>1 DEF Quiet, Doing
      <3> QED  BY <1>1, <3>1 DEF ReviewsInv, ReviewsRated
    <2> DEFINE live == {c \in Customers : Shown(c)}
               e == [c \in live |-> review[c].stars]
               with(s) == {c \in live : e[c] = s}
               one == [s \in Stars |-> 1]
               same == [s \in Stars |-> s]
               n == Cardinality(live)
               sum == SumFunctionOnSet(e, live)
    <2>2. IsFiniteSet(live) /\ n \in Nat
      <3>1. live \in SUBSET Customers  OBVIOUS
      <3> HIDE DEF live
      <3> QED  BY <3>1, ReviewsAssumption, FS_Subset, FS_CardinalityType
    <2>3. \A c \in live : e[c] \in Stars /\ e[c] \in Int
          BY ReviewsAssumption DEF ReviewsInv, ReviewsType, Shown
    <2>4. ASSUME NEW s \in Stars
          PROVE  Counted(s) = Cardinality(with(s)) /\ Counted(s) \in Nat /\ s \in Nat
                 /\ with(s) = {c \in live : review[c].stars = s}
      <3>1. with(s) = {c \in Customers : Shown(c) /\ review[c].stars = s}  OBVIOUS
      <3>2. with(s) \in SUBSET live /\ with(s) = {c \in live : review[c].stars = s}  OBVIOUS
      <3>3. s \in Nat  BY ReviewsAssumption
      <3> HIDE DEF live, with
      <3>4. Cardinality(with(s)) \in Nat  BY <2>2, <3>2, FS_Subset, FS_CardinalityType
      <3> QED  BY <3>1, <3>2, <3>3, <3>4 DEF Counted
    <2> HIDE DEF live, with
    <2>5. SumFunctionOnSet(ToShow, Stars) = n
      <3>1. one \in [Stars -> Int]  OBVIOUS
      <3>2. SumFunctionOnSet([s \in Stars |-> one[s] * Cardinality({c \in live : e[c] = s})], Stars)
                = SumFunctionOnSet([c \in live |-> one[e[c]]], live)
            BY <2>2, <2>3, <3>1, ReviewsAssumption, SumByValue
      <3>3. \A s \in Stars : one[s] * Counted(s) = Counted(s)  BY <2>4
      <3>4. [s \in Stars |-> one[s] * Cardinality({c \in live : e[c] = s})] = ToShow
            BY <2>4, <3>3 DEF with, ToShow
      <3>5. \A c \in live : [b \in live |-> one[e[b]]][c] = 1  BY <2>3
      <3>6. SumFunctionOnSet([c \in live |-> one[e[c]]], live) = n  BY <2>2, <3>5, SumCount
      <3> QED  BY <3>2, <3>4, <3>6
    <2>6. SumFunctionOnSet([s \in Stars |-> s * ToShow[s]], Stars) = sum
      <3>1. same \in [Stars -> Int]  BY ReviewsAssumption
      <3>2. SumFunctionOnSet([s \in Stars |-> same[s] * Cardinality({c \in live : e[c] = s})], Stars)
                = SumFunctionOnSet([c \in live |-> same[e[c]]], live)
            BY <2>2, <2>3, <3>1, ReviewsAssumption, SumByValue
      <3>3. [s \in Stars |-> same[s] * Cardinality({c \in live : e[c] = s})]
                = [s \in Stars |-> s * ToShow[s]]
            BY <2>4 DEF with, ToShow
      <3>4. [c \in live |-> same[e[c]]] = e  BY <2>3
      <3> QED  BY <3>2, <3>3, <3>4
    <2>7. sum \in Int  BY <2>2, <2>3, SumInt
    <2>8. /\ rating.average = IF n = 0 THEN 0 ELSE (20 * sum + n) \div (2 * n)
          /\ rating.breakdown = ToShow
          BY <2>1, <2>5, <2>6 DEF Rated
    <2>9. -n <= 2 * (rating.average * n - 10 * sum) /\ 2 * (rating.average * n - 10 * sum) <= n
      <3>1. CASE n = 0
        <4>1. live = {}  BY <2>2, <3>1, FS_EmptySet
        <4>2. sum = 0  BY <4>1, SumEmpty
        <4> HIDE DEF n, sum
        <4> QED  BY <2>8, <3>1, <4>2
      <3>2. CASE n # 0
        <4> HIDE DEF n, sum
        <4> QED  BY <2>2, <2>7, <2>8, <3>2, RoundedMean
      <3> QED  BY <3>1, <3>2
    <2>10. \A s \in Stars : rating.breakdown[s] = Cardinality({c \in live : review[c].stars = s})
          BY <2>4, <2>8 DEF ToShow
    <2> QED  BY <2>9, <2>10, Zenon DEF live
  <1>2. Apart("remove", "amend") => \A c \in barred : ~ Shown(c)  BY DEF ReviewsInv, ReviewsBarred
  <1> QED  BY <1>1, <1>2, Zenon DEF RatingIsTrue

(* However posts, edits, withdrawals and removals of reviews interleave and     *)
(* stop midway, once no request is at work, and if none overlapped or stopped,   *)
(* the rating of the product is that of its live reviews, the mean within half    *)
(* a tenth; and what staff took down stays down unless an edit of it was under    *)
(* way (product-review.service.js recomputeProductRating,                     *)
(* removeProductReviewAdmin).                                                *)
THEOREM RatingStaysTrue == Spec => []RatingIsTrue
  <1>1. Init => DeskInv /\ ReviewsInv  BY DeskBegins, ReviewsBegin
  <1>2. DeskInv /\ ReviewsInv /\ [Next]_<<desk, everything>> => DeskInv' /\ ReviewsInv'
    <2>1. ASSUME DeskInv, ReviewsInv, NEW h \in Handlers, Step(h) PROVE ReviewsInv'
          BY <2>1, ReviewsKept
    <2>2. ASSUME DeskInv, ReviewsInv, UNCHANGED <<desk, everything>> PROVE ReviewsInv'
      <3>1. UNCHANGED desk /\ UNCHANGED reviews  BY <2>2, Zenon DEF everything, content
      <3> QED  BY <2>2, <3>1, DeskStutters, ReviewsBeside
    <2> QED  BY <2>1, <2>2, DeskIsKept, Zenon DEF Next
  <1>3. ReviewsInv => RatingIsTrue  BY ReviewsShow
  <1> QED  BY <1>1, <1>2, <1>3, PTL DEF Spec

-----------------------------------------------------------------------------
(* The scanner phone: the recent scans are the last ones, newest first; while *)
(* the session lives a page that is connected has been shown everything, and   *)
(* what was kept from one that is away are the last scans, recent ones all,     *)
(* unless too many came.                                                     *)
Missing == (1 .. accepted) \ shown
LastScans == [i \in 1 .. Least(accepted, MaxRecent) |-> accepted + 1 - i]
RelayInv ==
    /\ relay = [open |-> relay.open, joined |-> relay.joined, pending |-> relay.pending,
                device |-> relay.device, recent |-> relay.recent]
    /\ accepted \in Nat /\ shown \subseteq 1 .. accepted
    /\ relay.open => relay.recent = LastScans
    /\ relay.open /\ ~ overrun =>
          /\ link = "up" => Missing = {}
          /\ \A n \in Missing : n > accepted - MaxRecent /\ \A m \in n .. accepted : m \in Missing
    /\ relay.joined => relay.device # NoPhone

LEMMA SequenceIs ==
    ASSUME NEW S, NEW s \in Seq(S)
    PROVE  s = [i \in 1 .. Len(s) |-> s[i]]
  OBVIOUS

(* What is kept of the scans when one more comes                            *)
LEMMA OneMoreRecent ==
    ASSUME NEW n \in Nat
    PROVE  Recent(n + 1, [i \in 1 .. Least(n, MaxRecent) |-> n + 1 - i])
             = [i \in 1 .. Least(n + 1, MaxRecent) |-> (n + 1) + 1 - i]
  <1> DEFINE s == [i \in 1 .. Least(n, MaxRecent) |-> n + 1 - i]
             k == IF Least(n, MaxRecent) < MaxRecent - 1 THEN Least(n, MaxRecent) ELSE MaxRecent - 1
  <1>1. MaxRecent \in Nat /\ MaxRecent >= 1 /\ Least(n, MaxRecent) \in Nat
        BY RelayAssumption DEF Least
  <1>2. s \in Seq(Int) /\ Len(s) = Least(n, MaxRecent)  BY <1>1
  <1>3. Min({Least(n, MaxRecent), MaxRecent - 1}) = k
    <2> DEFINE S == {Least(n, MaxRecent), MaxRecent - 1}
    <2>1. k \in S /\ (\A y \in S : k <= y) /\ S \subseteq Int  BY <1>1
    <2>2. \A x \in S : (\A y \in S : x <= y) => x = k  BY <2>1
    <2>3. (CHOOSE x \in S : \A y \in S : x <= y) = k  BY <2>1, <2>2
    <2> QED  BY <2>3 DEF Min
  <1>4. k + 1 = Least(n + 1, MaxRecent) /\ k \in Nat /\ k <= Least(n, MaxRecent)  BY <1>1 DEF Least
  <1> HIDE DEF k
  <1>5. SubSeq(s, 1, k) = [i \in 1 .. k |-> s[i]]  BY <1>1, <1>2, <1>4
  <1>6. \A i \in 1 .. k : s[i] = n + 1 - i  BY <1>1, <1>4
  <1>7. SubSeq(s, 1, k) \in Seq(Int) /\ Len(SubSeq(s, 1, k)) = k  BY <1>1, <1>2, <1>4
  <1>8. <<n + 1>> \o SubSeq(s, 1, k) \in Seq(Int) /\ Len(<<n + 1>> \o SubSeq(s, 1, k)) = k + 1
        BY <1>7, <1>4
  <1>9. ASSUME NEW i \in 1 .. k + 1
        PROVE  (<<n + 1>> \o SubSeq(s, 1, k))[i] = (n + 1) + 1 - i
    <2>1. CASE i = 1  BY <1>7, <2>1
    <2>2. CASE i # 1
      <3>1. i - 1 \in 1 .. k  BY <1>4, <2>2
      <3>2. (<<n + 1>> \o SubSeq(s, 1, k))[i] = SubSeq(s, 1, k)[i - 1]  BY <1>4, <1>7, <2>2, <3>1
      <3>3. SubSeq(s, 1, k)[i - 1] = n + 1 - (i - 1)  BY <1>5, <1>6, <3>1
      <3> QED  BY <3>1, <3>2, <3>3, <1>4
    <2> QED  BY <2>1, <2>2
  <1>10. <<n + 1>> \o SubSeq(s, 1, k) = [i \in 1 .. k + 1 |-> (n + 1) + 1 - i]
        BY <1>8, <1>9, SequenceIs
  <1>11. Recent(n + 1, s) = <<n + 1>> \o SubSeq(s, 1, k)  BY <1>2, <1>3 DEF Recent
  <1> QED  BY <1>4, <1>10, <1>11

(* Which scans are recent                                                   *)
LEMMA RecentScans ==
    ASSUME NEW n \in Nat
    PROVE  Range([i \in 1 .. Least(n, MaxRecent) |-> n + 1 - i])
             = {m \in 1 .. n : m > n - MaxRecent}
  <1> DEFINE s == [i \in 1 .. Least(n, MaxRecent) |-> n + 1 - i]
  <1>1. MaxRecent \in Nat /\ MaxRecent >= 1  BY RelayAssumption
  <1>2. Range(s) = {n + 1 - i : i \in 1 .. Least(n, MaxRecent)}  BY DEF Range
  <1>3. ASSUME NEW m \in 1 .. n, m > n - MaxRecent PROVE m \in Range(s)
    <2>1. n + 1 - m \in 1 .. Least(n, MaxRecent) /\ m = n + 1 - (n + 1 - m)  BY <1>1, <1>3 DEF Least
    <2> QED  BY <1>2, <2>1
  <1>4. ASSUME NEW i \in 1 .. Least(n, MaxRecent)
        PROVE  n + 1 - i \in 1 .. n /\ n + 1 - i > n - MaxRecent
        BY <1>1 DEF Least
  <1> QED  BY <1>2, <1>3, <1>4

(* No more are missing than the last MaxRecent if there are no more in all.   *)
LEMMA FewMissing ==
    ASSUME NEW n \in Nat, NEW S \in SUBSET (1 .. n), Cardinality(S) <= MaxRecent, NEW m \in S,
           \A k \in m .. n : k \in S
    PROVE  m > n - MaxRecent
  <1>0. 1 \in Int /\ n \in Int /\ S \subseteq 1 .. n  OBVIOUS
  <1>1. IsFiniteSet(1 .. n) /\ IsFiniteSet(S)  BY <1>0, FS_Interval, FS_Subset, Zenon
  <1>2. m .. n \subseteq S /\ m \in 1 .. n  OBVIOUS
  <1>3. Cardinality(m .. n) = n - m + 1  BY <1>2, FS_Interval
  <1>4. Cardinality(m .. n) <= Cardinality(S) /\ Cardinality(S) \in Nat
        BY <1>1, <1>2, FS_Subset, FS_CardinalityType
  <1> QED  BY <1>2, <1>3, <1>4, RelayAssumption

LEMMA RelayBegins == RelayInit => RelayInv
  <1> SUFFICES ASSUME RelayInit PROVE RelayInv
      OBVIOUS
  <1>1. Least(0, MaxRecent) = 0  BY RelayAssumption DEF Least
  <1>2. Missing = {}  BY DEF RelayInit, Missing
  <1>3. relay.recent = <<>> /\ <<>> = [i \in 1 .. 0 |-> accepted + 1 - i]  BY DEF RelayInit
  <1> QED  BY <1>1, <1>2, <1>3 DEF RelayInit, RelayInv, LastScans

(* A step that takes no scan and shows none                                  *)
LEMMA RelayAside ==
    ASSUME RelayInv, UNCHANGED <<shown, accepted, overrun>>,
           relay' = [open |-> relay'.open, joined |-> relay'.joined, pending |-> relay'.pending,
                     device |-> relay'.device, recent |-> relay'.recent],
           relay'.open => relay.open /\ relay'.recent = relay.recent,
           link' = "up" => link = "up",
           relay'.joined => relay'.device # NoPhone
    PROVE  RelayInv'
  <1>1. Missing' = Missing /\ LastScans' = LastScans  BY DEF Missing, LastScans
  <1> QED  BY <1>1 DEF RelayInv

LEMMA ScanKept ==
    ASSUME RelayInv, NEW h \in Handlers, RelayScan(h)
    PROVE  RelayInv'
  <1>1. /\ relay.open /\ relay.joined /\ accepted' = accepted + 1 /\ link' = link
        /\ relay' = [relay EXCEPT !.recent = Recent(accepted', @)]
        /\ shown' = IF link = "up" THEN shown \cup {accepted'} ELSE shown
        /\ overrun' = (overrun \/ Cardinality((1 .. accepted') \ shown') > MaxRecent)
        BY DEF RelayScan
  <1>2. accepted \in Nat /\ accepted' \in Nat /\ shown \subseteq 1 .. accepted
        /\ shown' \subseteq 1 .. accepted'
        BY <1>1 DEF RelayInv
  <1>3. /\ relay'.open = relay.open /\ relay'.joined = relay.joined /\ relay'.device = relay.device
        /\ relay'.recent = Recent(accepted', relay.recent)
        /\ relay' = [open |-> relay'.open, joined |-> relay'.joined, pending |-> relay'.pending,
                     device |-> relay'.device, recent |-> relay'.recent]
        BY <1>1 DEF RelayInv
  <1>4. relay'.recent = LastScans'
    <2>1. relay.recent = LastScans  BY <1>1 DEF RelayInv
    <2> QED  BY <1>1, <1>2, <1>3, <2>1, OneMoreRecent DEF LastScans
  <1>5. ASSUME ~ overrun'
        PROVE  /\ link' = "up" => Missing' = {}
               /\ \A n \in Missing' : /\ n > accepted' - MaxRecent
                                      /\ \A m \in n .. accepted' : m \in Missing'
    <2>1. ~ overrun  BY <1>1, <1>5 DEF RelayInv
    <2>2. /\ link = "up" => Missing = {}
          /\ \A n \in Missing : n > accepted - MaxRecent /\ \A m \in n .. accepted : m \in Missing
          BY <1>1, <2>1 DEF RelayInv
    <2>3. CASE link = "up"
      <3>1. Missing' = {}  BY <1>1, <1>2, <2>2, <2>3 DEF Missing
      <3> QED  BY <3>1
    <2>4. CASE link # "up"
      <3>1. Missing' = Missing \cup {accepted'}  BY <1>1, <1>2, <2>4 DEF Missing
      <3>2. ASSUME NEW n \in Missing' PROVE \A m \in n .. accepted' : m \in Missing'
            BY <1>1, <1>2, <2>2, <3>1, <3>2 DEF Missing
      <3>3. ~ (Cardinality(Missing') > MaxRecent) /\ Missing' \in SUBSET (1 .. accepted')
            BY <1>1, <1>5 DEF Missing
      <3>4. Cardinality(Missing') <= MaxRecent
        <4>1. IsFiniteSet(Missing')
          <5>1. 1 \in Int /\ accepted' \in Int /\ Missing' \subseteq 1 .. accepted'  BY <1>2, <3>3
          <5> QED  BY <5>1, FS_Interval, FS_Subset, Zenon
        <4>2. Cardinality(Missing') \in Nat  BY <4>1, FS_CardinalityType, Zenon
        <4> QED  BY <3>3, <4>2, RelayAssumption
      <3>5. ASSUME NEW n \in Missing' PROVE n > accepted' - MaxRecent
            BY <1>2, <3>2, <3>3, <3>4, <3>5, FewMissing
      <3> QED  BY <1>1, <2>4, <3>2, <3>5
    <2> QED  BY <2>3, <2>4
  <1>6. relay'.joined => relay'.device # NoPhone  BY <1>3 DEF RelayInv
  <1> QED  BY <1>2, <1>3, <1>4, <1>5, <1>6 DEF RelayInv

LEMMA SubscriptionKept ==
    ASSUME RelayInv, NEW h \in Handlers, Subscribes(h)
    PROVE  RelayInv'
  <1>1. /\ relay.open /\ link' = "up" /\ relay' = relay /\ accepted' = accepted
        /\ overrun' = overrun /\ shown' = shown \cup Range(relay.recent)
        BY DEF Subscribes
  <1>2. Range(relay.recent) = {m \in 1 .. accepted : m > accepted - MaxRecent}
        BY <1>1, RecentScans DEF RelayInv, LastScans
  <1>3. ~ overrun' => Missing' = {}  BY <1>1, <1>2 DEF RelayInv, Missing
  <1>4. LastScans' = LastScans  BY <1>1 DEF LastScans
  <1>5. shown' \subseteq 1 .. accepted'  BY <1>1, <1>2 DEF RelayInv
  <1> QED  BY <1>1, <1>3, <1>4, <1>5 DEF RelayInv

LEMMA RelayKept ==
    ASSUME RelayInv, NEW h \in Handlers, RelayStep(h)
    PROVE  RelayInv'
  <1>0. relay = [open |-> relay.open, joined |-> relay.joined, pending |-> relay.pending,
                 device |-> relay.device, recent |-> relay.recent]
        BY DEF RelayInv
  <1>1. CASE JoinSession(h)  BY <1>0, <1>1, RelayAside DEF JoinSession, RelayInv
  <1>2. CASE ApproveJoin(h)  BY <1>0, <1>2, RelayAside DEF ApproveJoin, RelayInv
  <1>3. CASE RejectJoin(h)  BY <1>0, <1>3, RelayAside DEF RejectJoin, RelayInv
  <1>4. CASE Disconnect(h)  BY <1>0, <1>4, RelayAside DEF Disconnect, RelayInv
  <1>5. CASE LinkBreaks(h)  BY <1>0, <1>5, RelayAside DEF LinkBreaks, RelayInv
  <1>6. CASE SessionEnds(h)  BY <1>0, <1>6, RelayAside DEF SessionEnds, RelayInv
  <1> QED  BY <1>1, <1>2, <1>3, <1>4, <1>5, <1>6, ScanKept, SubscriptionKept DEF RelayStep

LEMMA RelayShows == RelayInv => ScansArrive
  <1> SUFFICES ASSUME RelayInv PROVE ScansArrive
      OBVIOUS
  <1>1. relay.open => Range(relay.recent) = {m \in 1 .. accepted : m > accepted - MaxRecent}
        BY RecentScans DEF RelayInv, LastScans
  <1> QED  BY <1>1 DEF RelayInv, ScansArrive, Missing

-----------------------------------------------------------------------------
(* What the parts that deal with money see of a step                         *)
LEMMA MoneyOrNot ==
    ASSUME DeskInv, NEW h \in Handlers, Step(h)
    PROVE  \/ MoneyStep(h)
           \/ StoodBy(MoneyKinds) /\ UNCHANGED funds
           \/ Crash(h) /\ UNCHANGED funds
  <1> DEFINE others == StockKinds \cup RefurbishKinds \cup ContentKinds \cup ReturnsKinds
  <1>1. MoneyKinds \cap others = {}
        BY DEF RefurbishKinds, StockKinds, ContentKinds, ReturnsKinds, MoneyKinds, ProductKinds,
               ScannerKinds, ShopperKinds, ReviewKinds, ArticleKinds, CategoryKinds, HomePageKinds,
               PhoneKinds, QueueKinds, ParcelKinds, SettlementKinds, TransferKinds, WalletKinds,
               QuoteKinds
  <1>2. ASSUME DeskStep(h, others) PROVE StoodBy(MoneyKinds)  BY <1>1, <1>2, Beside
  <1>3. CASE StockStep(h) /\ UNCHANGED funds
    <2>1. DeskStep(h, others)  BY <1>3, StockDesk, OfMore
    <2> QED  BY <1>2, <1>3, <2>1
  <1>4. CASE Concerns(h, RefurbishKinds) /\ RefurbishStep(h) /\ UNCHANGED funds
    <2>1. DeskStep(h, others)  BY <1>4, RefurbishDesk, OfMore
    <2> QED  BY <1>2, <1>4, <2>1
  <1>5. CASE ContentStep(h) /\ UNCHANGED funds
    <2>1. DeskStep(h, others)  BY <1>5, ContentDesk, OfMore
    <2> QED  BY <1>2, <1>5, <2>1
  <1>6. CASE ReturnsStep(h) /\ UNCHANGED funds
    <2>1. DeskStep(h, others)  BY <1>6, ReturnsDesk, OfMore
    <2> QED  BY <1>2, <1>6, <2>1
  <1> QED  BY <1>3, <1>4, <1>5, <1>6, Zenon DEF Step, everything

LEMMA StoodByFewer ==
    ASSUME NEW kinds, NEW fewer \in SUBSET kinds, StoodBy(kinds)
    PROVE  StoodBy(fewer)
  BY DEF StoodBy

LEMMA StoodBesideMoney ==
    ASSUME DeskInv, NEW h \in Handlers
    PROVE  /\ DeskStep(h, TransferKinds) => StoodBy(WalletKinds) /\ StoodBy(QuoteKinds)
           /\ DeskStep(h, WalletKinds) => StoodBy(TransferKinds) /\ StoodBy(QuoteKinds)
           /\ DeskStep(h, QuoteKinds) => StoodBy(TransferKinds) /\ StoodBy(WalletKinds)
  <1>1. /\ WalletKinds \cap TransferKinds = {} /\ QuoteKinds \cap TransferKinds = {}
        /\ TransferKinds \cap WalletKinds = {} /\ QuoteKinds \cap WalletKinds = {}
        /\ TransferKinds \cap QuoteKinds = {} /\ WalletKinds \cap QuoteKinds = {}
        BY DEF TransferKinds, WalletKinds, QuoteKinds
  <1> QED  BY <1>1, Beside

LEMMA WalletOrNot ==
    ASSUME DeskInv, NEW h \in Handlers, Step(h)
    PROVE  \/ Concerns(h, WalletKinds) /\ WalletStep(h)
           \/ StoodBy(WalletKinds) /\ UNCHANGED wallets
           \/ Crash(h) /\ UNCHANGED wallets
  <1>1. CASE MoneyStep(h)
    <2>1. CASE Concerns(h, TransferKinds) /\ TransfersStep(h) /\ UNCHANGED wallets
          BY <2>1, TransfersDesk, StoodBesideMoney
    <2>2. CASE Concerns(h, QuoteKinds) /\ QuotesStep(h) /\ UNCHANGED wallets
          BY <2>2, QuotesDesk, StoodBesideMoney
    <2> QED  BY <1>1, <2>1, <2>2, Zenon DEF MoneyStep
  <1>2. CASE StoodBy(MoneyKinds) /\ UNCHANGED funds  BY <1>2, StoodByFewer DEF MoneyKinds, funds
  <1>3. CASE Crash(h) /\ UNCHANGED funds  BY <1>3, Zenon DEF funds
  <1> QED  BY <1>1, <1>2, <1>3, MoneyOrNot

-----------------------------------------------------------------------------
(* The least and the greatest of two numbers                                *)
LEMMA MinOfTwo ==
    ASSUME NEW a \in Int, NEW b \in Int
    PROVE  Min({a, b}) = IF a <= b THEN a ELSE b
  BY DEF Min

LEMMA MaxOfTwo ==
    ASSUME NEW a \in Int, NEW b \in Int
    PROVE  Max({a, b}) = IF a <= b THEN b ELSE a
  BY DEF Max

-----------------------------------------------------------------------------
(* The wallet: what its rows are,                                            *)
EntryRow == [type : {"EARNED", "ADJUSTED", "HOLD", "REDEEMED", "RELEASE"}, amount : Int,
             key : Sources \cup {NoKey}]
WalletType ==
    /\ wallet = [there |-> wallet.there, balance |-> wallet.balance, held |-> wallet.held]
    /\ wallet.balance \in Int /\ wallet.held \in Int
    /\ entry \in Seq(EntryRow)
    /\ onHold \in [Spendings -> Nat]

(* what its requests have read,                                              *)
Ending(h) == Busy(h) /\ req[h].kind \in {"capture", "release"}
ReadRight(h) ==
    /\ Busy(h) /\ req[h].kind \in {"award", "restore"} =>
              req[h].read.key \in Sources /\ req[h].read.amount \in Nat
    /\ Ending(h) => req[h].read.order \in Spendings /\ req[h].read.amount \in Nat \ {0}
    /\ At(h, "credit") => ~ Ending(h)
    /\ Busy(h) /\ req[h].kind \in WalletKinds /\ ~ Ending(h) => Head(req[h].todo) \in {"first", "credit"}
WalletRead == \A h \in Handlers : ReadRight(h)

(* that its amounts are those of its transactions, and no more is held than is there, *)
WalletBooks ==
    /\ wallet.balance = Total({"EARNED", "ADJUSTED", "REDEEMED"})
    /\ wallet.held = Total({"REDEEMED"}) - Total({"HOLD", "RELEASE"})
    /\ 0 <= wallet.held /\ wallet.held <= wallet.balance
    /\ \A i, j \in DOMAIN entry : entry[i].key # NoKey /\ entry[i].key = entry[j].key => i = j

(* and that what is held is on hold for orders, the one whose hold a request is *)
(* about to end included.                                                    *)
OneEnds == \A k, l \in {"capture", "release"} : Apart(k, l)
WalletHolds ==
    OneEnds =>
        /\ wallet.held = SumFunctionOnSet(onHold, Spendings)
        /\ \A h \in Handlers : Ending(h) => req[h].read.amount = onHold[req[h].read.order]

WalletInv == WalletType /\ WalletRead /\ WalletBooks /\ WalletHolds

LEMMA StaysRight ==
    ASSUME NEW g, ReadRight(g), req'[g] = req[g]
    PROVE  ReadRight(g)'
  <1>1. (Busy(g)' <=> Busy(g)) /\ (Ending(g)' <=> Ending(g)) /\ (At(g, "credit")' <=> At(g, "credit"))
        BY DEF Busy, Ending, At
  <1> QED  BY <1>1 DEF ReadRight

LEMMA AsideRight ==
    ASSUME NEW g, ~ (Busy(g)' /\ req'[g].kind \in WalletKinds)
    PROVE  ReadRight(g)'
  BY DEF ReadRight, WalletKinds, Ending

LEMMA WalletShows == WalletInv => WalletAddsUp
  BY Zenon DEF WalletInv, WalletBooks, WalletHolds, OneEnds, WalletAddsUp

LEMMA TotalIsInt ==
    ASSUME WalletType, NEW types
    PROVE  Total(types) \in Int
  <1> DEFINE f == OfTypes(types)
             n == Len(entry)
  <1>1. n \in Nat /\ DOMAIN entry = 1 .. n /\ IsFiniteSet(1 .. n)  BY FS_Interval DEF WalletType
  <1>2. \A i \in 1 .. n : entry[i] \in EntryRow  BY <1>1 DEF WalletType
  <1>3. \A i \in 1 .. n : f[i] \in Int  BY <1>1, <1>2 DEF OfTypes, EntryRow
  <1> HIDE DEF f, n
  <1>4. SumFunctionOnSet(f, 1 .. n) \in Int  BY <1>1, <1>3, SumInt
  <1> QED  BY <1>1, <1>4 DEF Total, f

LEMMA TotalAdds ==
    ASSUME WalletType, NEW e \in EntryRow, entry' = Append(entry, e), NEW types
    PROVE  Total(types)' = Total(types) + (IF e.type \in types THEN e.amount ELSE 0)
  <1> DEFINE f == OfTypes(types)
             g == OfTypes(types)'
             n == Len(entry)
             D == 1 .. n
  <1>0. n \in Nat /\ DOMAIN entry = 1 .. n  BY DEF WalletType
  <1>1. n \in Nat /\ DOMAIN entry = D /\ IsFiniteSet(D)  BY <1>0, FS_Interval
  <1>2. \A i \in D : entry[i] \in EntryRow  BY <1>1 DEF WalletType
  <1>3. DOMAIN entry' = D \cup {n + 1} /\ n + 1 \notin D  BY <1>0 DEF WalletType
  <1>4. entry'[n + 1] = e /\ \A i \in D : entry'[i] = entry[i]  BY <1>1 DEF WalletType
  <1>5. \A i \in D : f[i] \in Int /\ f[i] = g[i]  BY <1>1, <1>2, <1>3, <1>4 DEF OfTypes, EntryRow
  <1>6. g[n + 1] = (IF e.type \in types THEN e.amount ELSE 0) /\ g[n + 1] \in Int
        BY <1>3, <1>4 DEF OfTypes, EntryRow
  <1>7. Total(types) = SumFunctionOnSet(f, D) /\ Total(types)' = SumFunctionOnSet(g, D \cup {n + 1})
        BY <1>1, <1>3 DEF Total
  <1> HIDE DEF f, g, n, D
  <1>8. SumFunctionOnSet(g, D \cup {n + 1}) = g[n + 1] + SumFunctionOnSet(g, D)
        BY <1>1, <1>3, <1>5, <1>6, SumAdd
  <1>9. SumFunctionOnSet(f, D) = SumFunctionOnSet(g, D)  BY <1>1, <1>5, SumSame
  <1>10. SumFunctionOnSet(g, D) \in Int  BY <1>1, <1>5, SumInt
  <1> QED  BY <1>6, <1>7, <1>8, <1>9, <1>10

(* Two requests that end holds are one when none overlapped.                 *)
LEMMA EndsAlone ==
    ASSUME DeskInv, OneEnds, NEW g \in Handlers, NEW h \in Handlers, Ending(g), Ending(h)
    PROVE  g = h
  <1>1. g # h => {req[g].kind, req[h].kind} \in crossed  BY DEF DeskInv, Ending
  <1>2. {req[g].kind, req[h].kind} \notin crossed  BY DEF OneEnds, Apart, Ending
  <1> QED  BY <1>1, <1>2

LEMMA EndsStay == ASSUME crossed \subseteq crossed' PROVE OneEnds' => OneEnds
  BY DEF OneEnds, Apart

(* The requests on the wallet stay as they are, or are done.                 *)
WalletAside(h) ==
    /\ crossed \subseteq crossed'
    /\ \A g \in Handlers : Busy(g)' /\ req'[g].kind \in WalletKinds => Busy(g) /\ req'[g] = req[g] /\ g # h

LEMMA WalletReadAside ==
    ASSUME WalletRead, NEW h, WalletAside(h)
    PROVE  WalletRead'
  BY StaysRight, AsideRight DEF WalletRead, WalletAside

LEMMA WalletLeft ==
    ASSUME WalletInv, UNCHANGED wallets, crossed \subseteq crossed',
           \A g \in Handlers : Busy(g)' /\ req'[g].kind \in WalletKinds => Busy(g) /\ req'[g] = req[g]
    PROVE  WalletInv'
  <1>1. wallet' = wallet /\ entry' = entry /\ onHold' = onHold  BY DEF wallets
  <1>2. WalletType'  BY <1>1 DEF WalletInv, WalletType
  <1>3. WalletBooks'  BY <1>1 DEF WalletInv, WalletBooks, Total, OfTypes
  <1>4. \A g \in Handlers : Ending(g)' => Ending(g) /\ req'[g] = req[g]  BY DEF Ending, WalletKinds
  <1>5. WalletRead'  BY StaysRight, AsideRight DEF WalletInv, WalletRead
  <1>6. WalletHolds'  BY <1>1, <1>4, EndsStay DEF WalletInv, WalletHolds
  <1> QED  BY <1>2, <1>3, <1>5, <1>6 DEF WalletInv

LEMMA WalletBeside ==
    ASSUME WalletInv, StoodBy(WalletKinds), UNCHANGED wallets
    PROVE  WalletInv'
  BY WalletLeft DEF StoodBy, Busy

LEMMA WalletCrash ==
    ASSUME DeskInv, WalletInv, NEW h \in Handlers, Crash(h), UNCHANGED wallets
    PROVE  WalletInv'
  <1>1. OthersStay(h) /\ ~ Busy(h)' /\ crossed' = crossed  BY AfterCrash
  <1> QED  BY <1>1, WalletLeft DEF OthersStay

(* A request that is done at once, or does its last step.                    *)
LEMMA WalletWent ==
    ASSUME DeskInv, NEW h \in Handlers,
           \/ Busy(h) /\ Stop(h)
           \/ \E kind, read : Begin(h, kind, <<>>, read)
    PROVE  WalletAside(h)
  <1>1. OthersStay(h) /\ ~ Busy(h)' /\ crossed \subseteq crossed'
    <2>1. CASE Busy(h) /\ Stop(h)  BY <2>1, AfterGoOn DEF Stop
    <2>2. ASSUME NEW kind, NEW read, Begin(h, kind, <<>>, read)
          PROVE  OthersStay(h) /\ ~ Busy(h)' /\ crossed \subseteq crossed'
          BY <2>2, AfterBegin
    <2> QED  BY <2>1, <2>2
  <1> QED  BY <1>1 DEF OthersStay, WalletAside


(* What ends an order's hold.                                                *)
WalletSteps == {"first", "credit", "capture", "release"}

LEMMA ViewWalletKeeps ==
    ASSUME DeskInv, WalletInv, NEW h \in Handlers, ViewWallet(h)
    PROVE  WalletInv'
  <1> DEFINE plan == IF wallet.there THEN <<>> ELSE <<"first">>
  <1>1. Begin(h, "view", plan, <<>>) /\ UNCHANGED wallets  BY DEF ViewWallet
  <1>2. /\ OthersStay(h) /\ crossed \subseteq crossed' /\ ~ Busy(h)
        /\ Busy(h)' => req'[h].kind = "view" /\ req'[h].todo = plan
        BY <1>1, AfterBegin
  <1>3. wallet' = wallet /\ entry' = entry /\ onHold' = onHold  BY <1>1 DEF wallets
  <1>4. WalletType'  BY <1>3 DEF WalletInv, WalletType
  <1>5. WalletBooks'  BY <1>3 DEF WalletInv, WalletBooks, Total, OfTypes
  <1>6. \A g \in Handlers : Ending(g)' => Ending(g) /\ req'[g] = req[g]
        BY <1>2 DEF Ending, OthersStay
  <1>7. WalletRead'
    <2>1. ReadRight(h)'
      <3>1. Busy(h)' => plan = <<"first">>  BY <1>2 DEF Busy
      <3>2. Busy(h)' => Head(req'[h].todo) = "first"  BY <1>2, <3>1
      <3> HIDE DEF plan
      <3> QED  BY <1>2, <3>2 DEF ReadRight, Ending, At
    <2>2. \A g \in Handlers : g # h => ReadRight(g)'
          BY <1>2, StaysRight DEF WalletInv, WalletRead, OthersStay
    <2> QED  BY <2>1, <2>2 DEF WalletRead
  <1>8. WalletHolds'  BY <1>2, <1>3, <1>6, EndsStay DEF WalletInv, WalletHolds
  <1> QED  BY <1>4, <1>5, <1>7, <1>8 DEF WalletInv

LEMMA MakeWalletKeeps ==
    ASSUME DeskInv, WalletInv, NEW h \in Handlers, MakeWallet(h)
    PROVE  WalletInv'
  <1>1. Busy(h) /\ Stop(h)  BY DEF MakeWallet, At
  <1>2. WalletAside(h)  BY <1>1, WalletWent
  <1>3. /\ wallet'.balance = wallet.balance /\ wallet'.held = wallet.held
        /\ wallet' = [there |-> wallet'.there, balance |-> wallet'.balance, held |-> wallet'.held]
        /\ entry' = entry /\ onHold' = onHold
        BY DEF MakeWallet, WalletInv, WalletType
  <1>4. WalletType'  BY <1>3 DEF WalletInv, WalletType
  <1>5. WalletBooks'  BY <1>3 DEF WalletInv, WalletBooks, Total, OfTypes
  <1>6. \A g \in Handlers : Ending(g)' => Ending(g) /\ req'[g] = req[g]
        BY <1>2 DEF Ending, WalletAside, WalletKinds
  <1>7. WalletRead'  BY <1>2, WalletReadAside DEF WalletInv
  <1>8. WalletHolds'  BY <1>2, <1>3, <1>6, EndsStay DEF WalletInv, WalletHolds, WalletAside
  <1> QED  BY <1>4, <1>5, <1>7, <1>8 DEF WalletInv

LEMMA AwardKeeps ==
    ASSUME DeskInv, WalletInv, NEW h \in Handlers, Award(h)
    PROVE  WalletInv'
  <1>1. PICK key \in Sources, amount \in Credits, kind \in {"award", "restore"} :
            /\ Begin(h, kind, IF Entered(key) THEN <<>> ELSE <<"credit">>, [key |-> key, amount |-> amount])
            /\ UNCHANGED wallets
        BY Zenon DEF Award
  <1> DEFINE plan == IF Entered(key) THEN <<>> ELSE <<"credit">>
             read == [key |-> key, amount |-> amount]
  <1>2. /\ OthersStay(h) /\ crossed \subseteq crossed' /\ ~ Busy(h)
        /\ Busy(h)' => req'[h].kind = kind /\ req'[h].todo = plan /\ req'[h].read = read
    <2>1. Begin(h, kind, plan, read)  BY <1>1
    <2> HIDE DEF plan, read
    <2> QED  BY <2>1, AfterBegin
  <1>3. wallet' = wallet /\ entry' = entry /\ onHold' = onHold  BY <1>1 DEF wallets
  <1>4. WalletType'  BY <1>3 DEF WalletInv, WalletType
  <1>5. WalletBooks'  BY <1>3 DEF WalletInv, WalletBooks, Total, OfTypes
  <1>6. \A g \in Handlers : Ending(g)' => Ending(g) /\ req'[g] = req[g]
        BY <1>2 DEF Ending, OthersStay
  <1>7. WalletRead'
    <2>1. ReadRight(h)'
      <3>1. Busy(h)' => plan = <<"credit">>  BY <1>2 DEF Busy
      <3>2. Busy(h)' => Head(req'[h].todo) = "credit"  BY <1>2, <3>1
      <3>3. read.key \in Sources /\ read.amount \in Nat  BY WalletAssumption
      <3> HIDE DEF plan, read
      <3> QED  BY <1>2, <3>2, <3>3 DEF ReadRight, Ending, At
    <2>2. \A g \in Handlers : g # h => ReadRight(g)'
          BY <1>2, StaysRight DEF WalletInv, WalletRead, OthersStay
    <2> QED  BY <2>1, <2>2 DEF WalletRead
  <1>8. WalletHolds'  BY <1>2, <1>3, <1>6, EndsStay DEF WalletInv, WalletHolds
  <1> QED  BY <1>4, <1>5, <1>7, <1>8 DEF WalletInv

(* A transaction that moves the wallet: the row it adds accounts for it.       *)
LEMMA MovedBooks ==
    ASSUME WalletInv, NEW b \in Int, NEW d \in Int, NEW e \in EntryRow,
           Moves(b, d), entry' = Append(entry, e),
           b = IF e.type \in {"EARNED", "ADJUSTED", "REDEEMED"} THEN e.amount ELSE 0,
           d = (IF e.type \in {"REDEEMED"} THEN e.amount ELSE 0)
                 - (IF e.type \in {"HOLD", "RELEASE"} THEN e.amount ELSE 0),
           0 <= wallet.held + d, wallet.held + d <= wallet.balance + b,
           e.key # NoKey => ~ Entered(e.key)
    PROVE  WalletBooks' /\ wallet'.held = wallet.held + d /\ wallet'.balance = wallet.balance + b
           /\ wallet' = [there |-> wallet'.there, balance |-> wallet'.balance, held |-> wallet'.held]
           /\ wallet'.balance \in Int /\ wallet'.held \in Int /\ entry' \in Seq(EntryRow)
  <1>1. /\ wallet'.held = wallet.held + d /\ wallet'.balance = wallet.balance + b
        /\ wallet' = [there |-> wallet'.there, balance |-> wallet'.balance, held |-> wallet'.held]
        BY DEF Moves
  <1>2. /\ wallet.held \in Int /\ wallet.balance \in Int /\ entry \in Seq(EntryRow)
        /\ entry' \in Seq(EntryRow) /\ WalletType
        BY DEF WalletInv, WalletType
  <1> DEFINE T(types) == Total(types)
  <1>3. \A types \in {{"EARNED", "ADJUSTED", "REDEEMED"}, {"REDEEMED"}, {"HOLD", "RELEASE"}} :
            /\ Total(types) \in Int
            /\ Total(types)' = Total(types) + (IF e.type \in types THEN e.amount ELSE 0)
        BY <1>2, TotalAdds, TotalIsInt
  <1>4. e.amount \in Int  BY DEF EntryRow
  <1>5. wallet'.balance = Total({"EARNED", "ADJUSTED", "REDEEMED"})'
        BY <1>1, <1>2, <1>3, <1>4 DEF WalletInv, WalletBooks
  <1>6. wallet'.held = Total({"REDEEMED"})' - Total({"HOLD", "RELEASE"})'
        BY <1>1, <1>2, <1>3, <1>4 DEF WalletInv, WalletBooks
  <1>7. ASSUME NEW i \in DOMAIN entry', NEW j \in DOMAIN entry', entry'[i].key # NoKey,
               entry'[i].key = entry'[j].key
        PROVE  i = j
    <2> DEFINE n == Len(entry)
    <2>1. n \in Nat /\ DOMAIN entry = 1 .. n  BY <1>2
    <2>2. DOMAIN entry' = 1 .. (n + 1) /\ entry'[n + 1] = e /\ \A k \in 1 .. n : entry'[k] = entry[k]
          BY <1>2
    <2>3. \A k \in 1 .. n : e.key # NoKey => entry[k].key # e.key  BY <2>1 DEF Entered
    <2>4. \A k, l \in 1 .. n : entry[k].key # NoKey /\ entry[k].key = entry[l].key => k = l
          BY <2>1 DEF WalletInv, WalletBooks
    <2> HIDE DEF n
    <2>5. i \in 1 .. n \/ i = n + 1  BY <2>1, <2>2
    <2>6. j \in 1 .. n \/ j = n + 1  BY <2>1, <2>2
    <2> QED  BY <1>7, <2>2, <2>3, <2>4, <2>5, <2>6
  <1> QED  BY <1>1, <1>2, <1>5, <1>6, <1>7 DEF WalletBooks

LEMMA CreditKeeps ==
    ASSUME DeskInv, WalletInv, NEW h \in Handlers, CreditEarned(h) \/ CreditRestored(h)
    PROVE  WalletInv'
  <1>1. PICK sort \in {"EARNED", "ADJUSTED"} : Credit(h, sort)
        BY Zenon DEF CreditEarned, CreditRestored
  <1>2. At(h, "credit") /\ Busy(h) /\ Stop(h) /\ onHold' = onHold /\ req[h].kind \in {"award", "restore"}
        BY DEF CreditEarned, CreditRestored, At
  <1>3. WalletAside(h)  BY <1>2, WalletWent
  <1> DEFINE key == req[h].read.key
             amount == req[h].read.amount
             e == [type |-> sort, amount |-> amount, key |-> key]
  <1>4. key \in Sources /\ amount \in Nat  BY <1>2 DEF WalletInv, WalletRead, ReadRight
  <1>5. WalletBooks' /\ wallet'.held = wallet.held /\ WalletType'
    <2>1. CASE Entered(key)
      <3>1. UNCHANGED <<wallet, entry>>  BY <1>1, <2>1 DEF Credit, RolledBack
      <3> QED  BY <1>2, <3>1 DEF WalletInv, WalletBooks, WalletType, Total, OfTypes
    <2>2. CASE ~ Entered(key)
      <3>1. Moves(amount, 0) /\ entry' = Append(entry, e)
            BY <1>1, <2>2 DEF Credit, RolledBack, Enter
      <3>2. e \in EntryRow /\ e.type = sort /\ e.amount = amount /\ e.key = key
                BY <1>4 DEF EntryRow
      <3>3. wallet.held \in Int /\ wallet.balance \in Int /\ 0 <= wallet.held /\ wallet.held <= wallet.balance
            BY DEF WalletInv, WalletType, WalletBooks
      <3>4. /\ amount = IF e.type \in {"EARNED", "ADJUSTED", "REDEEMED"} THEN e.amount ELSE 0
            /\ 0 = (IF e.type \in {"REDEEMED"} THEN e.amount ELSE 0)
                     - (IF e.type \in {"HOLD", "RELEASE"} THEN e.amount ELSE 0)
            BY <3>2
      <3>5. 0 <= wallet.held + 0 /\ wallet.held + 0 <= wallet.balance + amount  BY <1>4, <3>3
      <3> HIDE DEF e, key, amount
      <3>6. ~ Entered(e.key)  BY <2>2, <3>2
      <3> HIDE DEF e
      <3>7. /\ WalletBooks' /\ wallet'.held = wallet.held + 0
            /\ wallet' = [there |-> wallet'.there, balance |-> wallet'.balance, held |-> wallet'.held]
            /\ wallet'.balance \in Int /\ wallet'.held \in Int /\ entry' \in Seq(EntryRow)
            BY <1>4, <3>1, <3>2, <3>4, <3>5, <3>6, MovedBooks
      <3> QED  BY <1>2, <3>3, <3>7 DEF WalletInv, WalletType
    <2> QED  BY <2>1, <2>2
  <1>6. \A g \in Handlers : Ending(g)' => Ending(g) /\ req'[g] = req[g]
        BY <1>3 DEF Ending, WalletAside, WalletKinds
  <1>7. WalletRead'  BY <1>3, WalletReadAside DEF WalletInv
  <1>8. WalletHolds'  BY <1>2, <1>3, <1>5, <1>6, EndsStay DEF WalletInv, WalletHolds, WalletAside
  <1> QED  BY <1>5, <1>7, <1>8 DEF WalletInv

LEMMA HoldKeeps ==
    ASSUME DeskInv, WalletInv, NEW h \in Handlers, Hold(h)
    PROVE  WalletInv'
  <1>1. PICK o \in Spendings, ask \in Credits :
            LET amount == Min({ask, AvailableCredit})
            IN  /\ onHold[o] = 0 /\ amount > 0
                /\ Begin(h, "hold", <<>>, {})
                /\ Moves(0, amount) /\ Enter("HOLD", -amount, NoKey)
                /\ onHold' = [onHold EXCEPT ![o] = amount]
        BY Zenon DEF Hold
  <1> DEFINE amount == Min({ask, AvailableCredit})
             e == [type |-> "HOLD", amount |-> -amount, key |-> NoKey]
  <1>2. WalletAside(h)  BY <1>1, WalletWent
  <1>3. wallet.held \in Int /\ wallet.balance \in Int /\ 0 <= wallet.held /\ wallet.held <= wallet.balance
        BY DEF WalletInv, WalletType, WalletBooks
  <1>4. amount \in Nat /\ amount <= wallet.balance - wallet.held /\ amount > 0
    <2>1. AvailableCredit = wallet.balance - wallet.held  BY <1>3, MaxOfTwo DEF AvailableCredit
    <2>2. ask \in Int  BY WalletAssumption
    <2>3. amount = IF ask <= AvailableCredit THEN ask ELSE AvailableCredit
          BY <1>3, <2>1, <2>2, MinOfTwo
    <2>4. amount > 0  BY <1>1
    <2> HIDE DEF amount
    <2> QED  BY <1>3, <2>1, <2>2, <2>3, <2>4
  <1>5. Moves(0, amount) /\ entry' = Append(entry, e) /\ onHold' = [onHold EXCEPT ![o] = amount] /\ onHold[o] = 0
        BY <1>1 DEF Enter
  <1> HIDE DEF amount
  <1>6. e \in EntryRow /\ e.type = "HOLD" /\ e.amount = -amount /\ e.key = NoKey
        BY <1>4 DEF EntryRow
  <1>7. /\ 0 = IF e.type \in {"EARNED", "ADJUSTED", "REDEEMED"} THEN e.amount ELSE 0
        /\ amount = (IF e.type \in {"REDEEMED"} THEN e.amount ELSE 0)
                     - (IF e.type \in {"HOLD", "RELEASE"} THEN e.amount ELSE 0)
        BY <1>4, <1>6
  <1>8. 0 <= wallet.held + amount /\ wallet.held + amount <= wallet.balance + 0  BY <1>3, <1>4
  <1> HIDE DEF e
  <1>9. /\ WalletBooks' /\ wallet'.held = wallet.held + amount
        /\ wallet' = [there |-> wallet'.there, balance |-> wallet'.balance, held |-> wallet'.held]
        /\ wallet'.balance \in Int /\ wallet'.held \in Int /\ entry' \in Seq(EntryRow)
        BY <1>4, <1>5, <1>6, <1>7, <1>8, MovedBooks
  <1>10. onHold \in [Spendings -> Nat] /\ onHold' \in [Spendings -> Nat]
         BY <1>4, <1>5 DEF WalletInv, WalletType
  <1>11. WalletType'  BY <1>9, <1>10 DEF WalletType
  <1>12. WalletRead'  BY <1>2, WalletReadAside DEF WalletInv
  <1>13. \A g \in Handlers : Ending(g)' => Ending(g) /\ req'[g] = req[g]
         BY <1>2 DEF Ending, WalletAside, WalletKinds
  <1>14. ASSUME OneEnds' PROVE wallet'.held = SumFunctionOnSet(onHold', Spendings)
    <2>1. wallet.held = SumFunctionOnSet(onHold, Spendings)
          BY <1>2, <1>14, EndsStay DEF WalletInv, WalletHolds, WalletAside
    <2>2. \A y \in Spendings \ {o} : onHold[y] = onHold'[y]  BY <1>5
    <2>3. onHold'[o] = amount  BY <1>5, <1>10
    <2>4. SumFunctionOnSet(onHold', Spendings) = SumFunctionOnSet(onHold, Spendings) - onHold[o] + onHold'[o]
          BY <1>10, <2>2, WalletAssumption, SumChange
    <2> QED  BY <1>3, <1>4, <1>5, <1>9, <2>1, <2>3, <2>4
  <1>15. ASSUME OneEnds', NEW g \in Handlers, Ending(g)' PROVE req'[g].read.amount = onHold'[req'[g].read.order]
    <2>1. Ending(g) /\ req'[g] = req[g] /\ OneEnds  BY <1>2, <1>13, <1>15, EndsStay DEF WalletAside
    <2>2. req[g].read.amount = onHold[req[g].read.order] /\ req[g].read.order \in Spendings
          BY <2>1 DEF WalletInv, WalletHolds, WalletRead, ReadRight
    <2>3. req[g].read.amount > 0  BY <2>1 DEF WalletInv, WalletRead, ReadRight
    <2> QED  BY <1>5, <1>10, <2>1, <2>2, <2>3
  <1>16. WalletHolds'  BY <1>14, <1>15 DEF WalletHolds
  <1> QED  BY <1>9, <1>11, <1>12, <1>16 DEF WalletInv

LEMMA EndHoldKeeps ==
    ASSUME DeskInv, WalletInv, NEW h \in Handlers, EndHold(h)
    PROVE  WalletInv'
  <1>1. PICK o \in Spendings, kind \in {"capture", "release"} :
            /\ onHold[o] > 0
            /\ Begin(h, kind, <<kind>>, [order |-> o, amount |-> onHold[o]])
            /\ UNCHANGED wallets
        BY Zenon DEF EndHold
  <1> DEFINE plan == <<kind>>
             read == [order |-> o, amount |-> onHold[o]]
  <1>2. /\ OthersStay(h) /\ crossed \subseteq crossed' /\ ~ Busy(h)
        /\ Busy(h)' => req'[h].kind = kind /\ req'[h].todo = plan /\ req'[h].read = read
    <2>1. Begin(h, kind, plan, read)  BY <1>1
    <2> HIDE DEF plan, read
    <2> QED  BY <2>1, AfterBegin
  <1>3. wallet' = wallet /\ entry' = entry /\ onHold' = onHold  BY <1>1 DEF wallets
  <1>4. WalletType'  BY <1>3 DEF WalletInv, WalletType
  <1>5. WalletBooks'  BY <1>3 DEF WalletInv, WalletBooks, Total, OfTypes
  <1>6. read.order \in Spendings /\ read.amount = onHold[o] /\ read.order = o /\ read.amount \in Nat /\ onHold[o] > 0
        BY <1>1 DEF WalletInv, WalletType
  <1>7. Head(plan) = kind  OBVIOUS
  <1> HIDE DEF plan, read
  <1>8. \A g \in Handlers : g # h /\ Busy(g)' => Busy(g) /\ req'[g] = req[g]  BY <1>2 DEF OthersStay
  <1>9. WalletRead'
    <2>1. ReadRight(h)'  BY <1>2, <1>6, <1>7 DEF ReadRight, Ending, At
    <2>2. \A g \in Handlers : g # h => ReadRight(g)'
          BY <1>2, StaysRight DEF WalletInv, WalletRead, OthersStay
    <2> QED  BY <2>1, <2>2 DEF WalletRead
  <1>10. WalletHolds'
    <2>1. ASSUME OneEnds', NEW g \in Handlers, Ending(g)' PROVE req'[g].read.amount = onHold'[req'[g].read.order]
      <3>1. CASE g = h  BY <1>2, <1>3, <1>6, <2>1, <3>1 DEF Ending
      <3>2. CASE g # h  BY <1>2, <1>3, <1>8, <2>1, <3>2, EndsStay DEF WalletInv, WalletHolds, Ending
      <3> QED  BY <3>1, <3>2
    <2>2. OneEnds' => wallet'.held = SumFunctionOnSet(onHold', Spendings)
          BY <1>2, <1>3, EndsStay DEF WalletInv, WalletHolds
    <2> QED  BY <2>1, <2>2 DEF WalletHolds
  <1> QED  BY <1>4, <1>5, <1>9, <1>10 DEF WalletInv

(* A hold that is redeemed or released leaves what the others have.          *)
LEMMA HoldEnds ==
    ASSUME DeskInv, WalletInv, NEW h \in Handlers, NEW taken, Ending(h), ~ Busy(h)', WalletAside(h),
           taken = Min({wallet.held, req[h].read.amount}),
           onHold' = [onHold EXCEPT ![req[h].read.order] = 0],
           wallet'.held = wallet.held - taken
    PROVE  WalletHolds' /\ onHold' \in [Spendings -> Nat]
  <1>0. PICK o : o = req[h].read.order  OBVIOUS
  <1>1. o \in Spendings /\ req[h].read.amount \in Nat  BY <1>0 DEF WalletInv, WalletRead, ReadRight
  <1>2. onHold \in [Spendings -> Nat] /\ onHold' \in [Spendings -> Nat] /\ wallet.held \in Int
        BY <1>0, <1>1 DEF WalletInv, WalletType
  <1>3. ASSUME OneEnds' PROVE wallet'.held = SumFunctionOnSet(onHold', Spendings)
    <2>1. wallet.held = SumFunctionOnSet(onHold, Spendings) /\ req[h].read.amount = onHold[o]
          BY <1>0, <1>3, EndsStay DEF WalletInv, WalletHolds, WalletAside
    <2>2. onHold[o] <= SumFunctionOnSet(onHold, Spendings)
          BY <1>1, <1>2, WalletAssumption, SumMember
    <2>3. taken = onHold[o]  BY <1>1, <1>2, <2>1, <2>2, MinOfTwo
    <2>4. onHold'[o] = 0 /\ \A y \in Spendings \ {o} : onHold[y] = onHold'[y]  BY <1>0, <1>1, <1>2
    <2>5. SumFunctionOnSet(onHold', Spendings) = SumFunctionOnSet(onHold, Spendings) - onHold[o] + onHold'[o]
      <3>1. \A y \in Spendings : onHold[y] \in Int /\ onHold'[y] \in Int  BY <1>2
      <3>2. IsFiniteSet(Spendings)  BY WalletAssumption
      <3> QED  BY ONLY <1>1, <2>4, <3>1, <3>2, SumChange
    <2> QED  BY <1>1, <1>2, <2>1, <2>3, <2>4, <2>5
  <1>4. ASSUME OneEnds', NEW g \in Handlers, Ending(g)' PROVE FALSE
    <2>1. Ending(g) /\ g # h /\ OneEnds  BY <1>4, EndsStay DEF WalletAside, Ending, WalletKinds
    <2> QED  BY <2>1, EndsAlone
  <1> QED  BY <1>2, <1>3, <1>4 DEF WalletHolds

LEMMA EndKeeps ==
    ASSUME DeskInv, WalletInv, NEW h \in Handlers, CaptureHold(h) \/ ReleaseHold(h), Ending(h)
    PROVE  WalletInv'
  <1> DEFINE taken == Min({wallet.held, req[h].read.amount})
             Row(b, d, e) == Moves(b, d) /\ entry' = Append(entry, e)
  <1>1. /\ Busy(h) /\ Stop(h) /\ onHold' = [onHold EXCEPT ![req[h].read.order] = 0]
        BY DEF CaptureHold, ReleaseHold, At
  <1>2. WalletAside(h)  BY <1>1, WalletWent
  <1>3. ~ Busy(h)'  BY <1>1, AfterGoOn DEF Stop
  <1>4. /\ wallet.held \in Int /\ wallet.balance \in Int /\ 0 <= wallet.held /\ wallet.held <= wallet.balance
        /\ req[h].read.amount \in Nat
        BY DEF WalletInv, WalletType, WalletBooks, WalletRead, ReadRight
  <1>5. taken \in Nat /\ taken <= wallet.held
    <2>1. taken = IF wallet.held <= req[h].read.amount THEN wallet.held ELSE req[h].read.amount
          BY <1>4, MinOfTwo
    <2> HIDE DEF taken
    <2> QED  BY <1>4, <2>1
  <1>6. /\ WalletBooks' /\ wallet'.held = wallet.held - taken
        /\ wallet' = [there |-> wallet'.there, balance |-> wallet'.balance, held |-> wallet'.held]
        /\ wallet'.balance \in Int /\ wallet'.held \in Int /\ entry' \in Seq(EntryRow)
    <2>1. CASE ~ (taken > 0)
      <3>1. UNCHANGED <<wallet, entry>>  BY <2>1, Zenon DEF CaptureHold, ReleaseHold
      <3>2. taken = 0
        <4> HIDE DEF taken
        <4> QED  BY <1>5, <2>1
      <3> HIDE DEF taken
      <3> QED  BY <1>4, <3>1, <3>2 DEF WalletInv, WalletBooks, WalletType, Total, OfTypes
    <2>2. CASE taken > 0
      <3> DEFINE redeemed == [type |-> "REDEEMED", amount |-> -taken, key |-> NoKey]
                 released == [type |-> "RELEASE", amount |-> taken, key |-> NoKey]
      <3>1. \/ Row(-taken, -taken, redeemed)
            \/ Row(0, -taken, released)
            BY <2>2, Zenon DEF CaptureHold, ReleaseHold, Enter
      <3> HIDE DEF taken
      <3>2. /\ redeemed \in EntryRow /\ redeemed.type = "REDEEMED" /\ redeemed.amount = -taken
            /\ redeemed.key = NoKey /\ released \in EntryRow /\ released.type = "RELEASE"
            /\ released.amount = taken /\ released.key = NoKey /\ -taken \in Int
            BY <1>5 DEF EntryRow
      <3> HIDE DEF redeemed, released
      <3>3. /\ 0 <= wallet.held + (-taken) /\ wallet.held + (-taken) <= wallet.balance + (-taken)
            /\ wallet.held + (-taken) <= wallet.balance + 0 /\ wallet.held + (-taken) = wallet.held - taken
            BY <1>4, <1>5
      <3>4. CASE Row(-taken, -taken, redeemed)
        <4>1. /\ -taken = IF redeemed.type \in {"EARNED", "ADJUSTED", "REDEEMED"} THEN redeemed.amount ELSE 0
              /\ -taken = (IF redeemed.type \in {"REDEEMED"} THEN redeemed.amount ELSE 0)
                     - (IF redeemed.type \in {"HOLD", "RELEASE"} THEN redeemed.amount ELSE 0)
              BY <3>2
        <4> QED  BY <3>2, <3>3, <3>4, <4>1, MovedBooks
      <3>5. CASE Row(0, -taken, released)
        <4>1. /\ 0 = IF released.type \in {"EARNED", "ADJUSTED", "REDEEMED"} THEN released.amount ELSE 0
              /\ -taken = (IF released.type \in {"REDEEMED"} THEN released.amount ELSE 0)
                     - (IF released.type \in {"HOLD", "RELEASE"} THEN released.amount ELSE 0)
              BY <1>5, <3>2
        <4> QED  BY <3>2, <3>3, <3>5, <4>1, MovedBooks
      <3> QED  BY <3>1, <3>4, <3>5
    <2> QED  BY <2>1, <2>2
  <1>7. WalletHolds' /\ onHold' \in [Spendings -> Nat]
    <2>1. taken = Min({wallet.held, req[h].read.amount}) /\ wallet'.held = wallet.held - taken
          BY <1>6
    <2> HIDE DEF taken
    <2> QED  BY <1>1, <1>2, <1>3, <2>1, HoldEnds
  <1>8. WalletRead'  BY <1>2, WalletReadAside DEF WalletInv
  <1> QED  BY <1>6, <1>7, <1>8 DEF WalletInv, WalletType

-----------------------------------------------------------------------------
LEMMA WalletStepKeeps ==
    ASSUME DeskInv, WalletInv, NEW h \in Handlers, Concerns(h, WalletKinds), WalletStep(h)
    PROVE  WalletInv'
  <1>1. CASE CaptureHold(h) \/ ReleaseHold(h)
    <2>1. Ending(h)
          BY <1>1 DEF CaptureHold, ReleaseHold, Concerns, WalletInv, WalletRead, ReadRight, At
    <2> QED  BY <1>1, <2>1, EndKeeps
  <1> QED  BY <1>1, ViewWalletKeeps, MakeWalletKeeps, AwardKeeps, CreditKeeps, HoldKeeps, EndHoldKeeps,
              Zenon DEF WalletStep

LEMMA WalletKept ==
    ASSUME DeskInv, WalletInv, NEW h \in Handlers, Step(h)
    PROVE  WalletInv'
  BY WalletOrNot, WalletStepKeeps, WalletBeside, WalletCrash, Zenon

LEMMA WalletBegins == Init => WalletInv
  <1>1. SUFFICES ASSUME Init PROVE WalletInv  OBVIOUS
  <1>2. /\ wallet = [there |-> FALSE, balance |-> 0, held |-> 0] /\ entry = <<>>
        /\ onHold = [o \in Spendings |-> 0]
        BY <1>1 DEF Init, WalletInit
  <1>3. \A h \in Handlers : ~ Busy(h)  BY <1>1 DEF Init, DeskInit, Busy, Idle
  <1>4. entry \in Seq(EntryRow) /\ DOMAIN entry = {}  BY <1>2
  <1>5. WalletType  BY <1>2, <1>4 DEF WalletType
  <1>6. \A types : Total(types) = 0  BY <1>4, SumEmpty DEF Total
  <1>7. SumFunctionOnSet(onHold, Spendings) = 0  BY <1>2, WalletAssumption, SumZero
  <1>8. WalletBooks  BY <1>2, <1>4, <1>6 DEF WalletBooks
  <1>9. WalletHolds  BY <1>2, <1>3, <1>7 DEF WalletHolds, Ending
  <1> QED  BY <1>3, <1>5, <1>8, <1>9 DEF WalletInv, WalletRead, ReadRight, Ending, At

(* However awards, holds, captures and releases of store credit interleave and   *)
(* stop midway, the wallet is what its transactions add up to, no more is held    *)
(* than is there, a key earns or gives back once, and unless two requests ended   *)
(* holds at once what is held is what the orders have on hold                     *)
(* (wallet.service.js holdCredit, captureHoldInTx, releaseHoldInTx).              *)
THEOREM WalletStaysTrue == Spec => []WalletAddsUp
  <1>1. Init => DeskInv /\ WalletInv  BY DeskBegins, WalletBegins
  <1>2. DeskInv /\ WalletInv /\ [Next]_<<desk, everything>> => DeskInv' /\ WalletInv'
    <2>1. ASSUME DeskInv, WalletInv, NEW h \in Handlers, Step(h) PROVE WalletInv'
          BY <2>1, WalletKept
    <2>2. ASSUME DeskInv, WalletInv, UNCHANGED <<desk, everything>> PROVE WalletInv'
      <3>1. UNCHANGED desk /\ UNCHANGED wallets  BY <2>2, Zenon DEF everything, funds
      <3> QED  BY <2>2, <3>1, DeskStutters, WalletBeside
    <2> QED  BY <2>1, <2>2, DeskIsKept, Zenon DEF Next
  <1>3. WalletInv => WalletAddsUp  BY WalletShows
  <1> QED  BY <1>1, <1>2, <1>3, PTL DEF Spec

-----------------------------------------------------------------------------
(* Prices and amounts are numbers, and the two ways to the total agree.      *)
FareRow == [tier : {"any", "ground", "express"}, amount : Int]

LEMMA UnitPrices ==
    ASSUME NEW cost \in Tags, NEW access \in BOOLEAN
    PROVE  /\ UnitPrice(cost, access) \in Nat
           /\ UnitPrice(cost, TRUE) <= UnitPrice(cost, FALSE)
  <1> DEFINE a == OwnOr(cost.override, cost.price)
             b == OwnOr(cost.memberOverride, cost.member)
  <1>1. a \in Nat /\ b \in Nat  BY QuotesAssumption DEF OwnOr
  <1>2. /\ UnitPrice(cost, TRUE) = IF b # NoPrice THEN Min({a, b}) ELSE a
        /\ UnitPrice(cost, FALSE) = a
        BY DEF UnitPrice
  <1> HIDE DEF a, b
  <1>3. Min({a, b}) = IF a <= b THEN a ELSE b  BY <1>1, MinOfTwo
  <1>4. UnitPrice(cost, TRUE) \in Nat /\ UnitPrice(cost, FALSE) \in Nat  BY <1>1, <1>2, <1>3
  <1>5. UnitPrice(cost, TRUE) <= UnitPrice(cost, FALSE)
    <2> DEFINE t == UnitPrice(cost, TRUE)
               f == UnitPrice(cost, FALSE)
    <2>1. f = a /\ (t = a \/ t = Min({a, b}))  BY <1>2
    <2> HIDE DEF t, f
    <2>2. t <= f  BY <1>1, <1>3, <2>1
    <2> QED  BY <2>2 DEF t, f
  <1>6. access = TRUE \/ access = FALSE  OBVIOUS
  <1> QED  BY <1>4, <1>5, <1>6

LEMMA WaivedInt == ASSUME NEW s \in Int, NEW a \in Int PROVE Waived(s, a) \in Int
  BY DEF Waived

LEMMA DuesInt == Dues \in Int /\ 0 \in Int /\ Dues > 0
  BY QuotesAssumption

LEMMA TaxInt == ASSUME NEW s \in Int, NEW c \in Int PROVE Tax(s, c) \in Int
  <1>1. Max({0, s - c}) \in Int  BY MaxOfTwo
  <1> DEFINE m == Max({0, s - c})
  <1> DEFINE p == m * TaxPercent
  <1>2. p \in Int
    <2>1. m \in Int /\ TaxPercent \in Int  BY <1>1, QuotesAssumption
    <2> HIDE DEF m
    <2> QED  BY <2>1
  <1>3. Tax(s, c) = (p + 50) \div 100  BY DEF Tax
  <1> HIDE DEF p
  <1> QED  BY <1>2, <1>3

LEMMA PayableIs ==
    ASSUME NEW s \in Int, NEW sh \in Int, NEW d \in Int, NEW c \in Int
    PROVE  /\ Payable(s, sh, d, c) = QuotedTotal(s, sh, d, c)
           /\ Payable(s, sh, d, c) \in Nat
           /\ Payable(s, sh, d, c) > 0 => Payable(s, sh, d, c) = s + sh + d - c + Tax(s, c)
  <1> DEFINE m == Max({0, s - c})
             w == Max({0, c - s})
  <1>1. m = (IF 0 <= s - c THEN s - c ELSE 0) /\ w = (IF 0 <= c - s THEN c - s ELSE 0)  BY MaxOfTwo
  <1>2. TaxPercent \in Int  BY QuotesAssumption
  <1> DEFINE p == m * TaxPercent
             q == m * (100 + TaxPercent)
             total == s + sh + d - c + Tax(s, c)
             quoted == (q + 50) \div 100 + sh + d - w
  <1>3. /\ Tax(s, c) = (p + 50) \div 100 /\ Payable(s, sh, d, c) = Max({0, total})
        /\ QuotedTotal(s, sh, d, c) = Max({0, quoted})
        BY Zenon DEF Tax, Payable, QuotedTotal
  <1>4. m \in Int /\ w \in Int /\ s - c = m - w  BY <1>1
  <1>5. p \in Int /\ q = 100 * m + p  BY <1>2, <1>4
  <1> HIDE DEF p, q, m, w
  <1>6. (q + 50) \div 100 = m + (p + 50) \div 100  BY <1>4, <1>5
  <1>7. total \in Int /\ quoted = total  BY <1>3, <1>4, <1>5, <1>6
  <1> HIDE DEF total, quoted
  <1>8. Max({0, total}) = IF 0 <= total THEN total ELSE 0  BY <1>7, MaxOfTwo
  <1>9. Payable(s, sh, d, c) = QuotedTotal(s, sh, d, c)  BY <1>3, <1>7
  <1>10. Payable(s, sh, d, c) \in Nat /\ (Payable(s, sh, d, c) > 0 => Payable(s, sh, d, c) = total)
        BY <1>3, <1>7, <1>8
  <1> QED  BY <1>9, <1>10 DEF total

-----------------------------------------------------------------------------
(* A carrier has one rate of each tier, and members pay no more for it.      *)
LEMMA TierRates ==
    ASSUME NEW source \in Carriers, NEW access \in BOOLEAN
    PROVE  /\ RateSet(Rates(source, access)) \subseteq FareRow
           /\ Rates(source, access)[1] \in RateSet(Rates(source, access))
           /\ \A r \in RateSet(Rates(source, access)) :
                 /\ r.tier \in {"ground", "express"}
                 /\ SameTier(Rates(source, access), r) = r
           /\ \A r, s \in FareRow : r.tier = s.tier =>
                 SameTier(Rates(source, access), r) = SameTier(Rates(source, access), s)
  <1> DEFINE ground == IF source = "ups" THEN Fare + 1 ELSE IF access THEN 0 ELSE Fare
             first == [tier |-> "ground", amount |-> ground]
             second == [tier |-> "express", amount |-> 2 * Fare + 1]
  <1>1. ground \in Int /\ 2 * Fare + 1 \in Int  BY QuotesAssumption
  <1>2. Rates(source, access) = <<first, second>>  BY Zenon DEF Rates
  <1>3. first \in FareRow /\ second \in FareRow /\ first.tier = "ground" /\ second.tier = "express"
        BY <1>1 DEF FareRow
  <1> HIDE DEF first, second
  <1>4. RateSet(Rates(source, access)) = {first, second} /\ Rates(source, access)[1] = first
        BY <1>2 DEF RateSet
  <1>5. \A r \in {first, second} : SameTier(Rates(source, access), r) = r
        BY <1>3, <1>4 DEF SameTier
  <1>6. \A r, s \in FareRow : r.tier = s.tier =>
            SameTier(Rates(source, access), r) = SameTier(Rates(source, access), s)
        BY DEF SameTier
  <1> QED  BY <1>3, <1>4, <1>5, <1>6

LEMMA MembersFare ==
    ASSUME NEW source \in Carriers, NEW r \in FareRow, r.tier \in {"ground", "express"}
    PROVE  /\ SameTier(Rates(source, TRUE), r) \in FareRow /\ SameTier(Rates(source, FALSE), r) \in FareRow
           /\ SameTier(Rates(source, TRUE), r).tier = r.tier
           /\ SameTier(Rates(source, FALSE), r).tier = r.tier
           /\ SameTier(Rates(source, TRUE), r).amount <= SameTier(Rates(source, FALSE), r).amount
  <1> DEFINE ground(access) == IF source = "ups" THEN Fare + 1 ELSE IF access THEN 0 ELSE Fare
             first(access) == [tier |-> "ground", amount |-> ground(access)]
             second == [tier |-> "express", amount |-> 2 * Fare + 1]
  <1>1. Fare \in Nat /\ \A access \in BOOLEAN : ground(access) \in Int  BY QuotesAssumption
  <1>2. \A access \in BOOLEAN : Rates(source, access) = <<first(access), second>>
        BY Zenon DEF Rates
  <1>3. \A access \in BOOLEAN : /\ first(access) \in FareRow /\ second \in FareRow
                                /\ first(access).tier = "ground" /\ second.tier = "express"
                                /\ first(access).amount = ground(access)
        BY <1>1 DEF FareRow
  <1>4. ground(TRUE) <= ground(FALSE)  BY <1>1
  <1> HIDE DEF first, second, ground
  <1>5. \A access \in BOOLEAN : RateSet(Rates(source, access)) = {first(access), second}
        BY <1>2 DEF RateSet
  <1>6. CASE r.tier = "ground"
    <2>1. \A access \in BOOLEAN : SameTier(Rates(source, access), r) = first(access)
          BY <1>3, <1>5, <1>6 DEF SameTier
    <2> QED  BY <1>1, <1>3, <1>4, <1>6, <2>1
  <1>7. CASE r.tier = "express"
    <2>1. SameTier(Rates(source, TRUE), r) = second /\ SameTier(Rates(source, FALSE), r) = second
          BY <1>3, <1>5, <1>7 DEF SameTier
    <2>2. second.amount \in Int /\ second \in FareRow /\ second.tier = "express"
          BY <1>3 DEF FareRow
    <2>3. second.amount <= second.amount  BY <2>2
    <2> QED  BY <1>7, <2>1, <2>2, <2>3, Zenon
  <1> QED  BY <1>6, <1>7

LEMMA WishRate ==
    ASSUME NEW source \in Carriers, NEW access \in BOOLEAN, NEW w, w.tier \in {"ground", "express"}
    PROVE  /\ SameTier(Rates(source, access), w) \in RateSet(Rates(source, access))
           /\ SameTier(Rates(source, access), w).tier = w.tier
  <1> DEFINE ground == IF source = "ups" THEN Fare + 1 ELSE IF access THEN 0 ELSE Fare
             first == [tier |-> "ground", amount |-> ground]
             second == [tier |-> "express", amount |-> 2 * Fare + 1]
  <1>1. Rates(source, access) = <<first, second>>  BY Zenon DEF Rates
  <1>2. first.tier = "ground" /\ second.tier = "express"  OBVIOUS
  <1> HIDE DEF first, second
  <1>3. RateSet(Rates(source, access)) = {first, second}  BY <1>1 DEF RateSet
  <1> QED  BY <1>2, <1>3 DEF SameTier

LEMMA MinOfThree ==
    ASSUME NEW i \in Int, NEW j \in Int, NEW k \in Int
    PROVE  Min({i, j, k}) \in Int
  BY DEF Min

-----------------------------------------------------------------------------
(* Quotes and checkouts: what their rows are,                                *)
OfferRow ==
    [n : Nat, wish : Wishes, rate : FareRow, credit : Int, at : Nat, total : Int, saved : Int,
     cost : Tags, source : Carriers, already : BOOLEAN]
BasketRow ==
    [state : {"PENDING", "FAILED", "CONSUMED", "EXPIRED"}, n : Int, rate : FareRow, credit : Int,
     subtotal : Int, shipping : Int, dues : {0, Dues}, total : Int, shared : BOOLEAN,
     from : Int, done : BOOLEAN, charge : Int]
QuotesType ==
    /\ tag \in [cost : Tags, listed : BOOLEAN, units : Int, reserved : Int]
    /\ buyer \in [access : BOOLEAN, code : BOOLEAN, balance : Int, held : Int]
    /\ basket \in [Baskets -> BasketRow \cup {NoBasket}]
    /\ offer \in OfferRow \cup {NoOffer}
    /\ epoch \in Nat
    /\ lastCharge.row # NoBasket => lastCharge.offer \in OfferRow /\ lastCharge.row \in BasketRow

(* what a checkout has read, and has still to do,                            *)
Checking(h) == Busy(h) /\ req[h].kind \in QuoteKinds
FarePlan == <<"fare", "apply", "amount", "oust", "charge">>
CheckPlans ==
    {<<"find">>, <<"book", "fare", "apply", "amount", "oust", "charge">>, FarePlan,
     <<"apply", "amount", "oust", "charge">>, <<"amount", "oust", "charge">>,
     <<"oust", "charge">>, <<"charge">>}
Stage(h) == Head(req[h].todo)
CheckRead(h) ==
    LET read == req[h].read
    IN  /\ req[h].kind = "checkout" /\ req[h].todo \in CheckPlans
        /\ read.offer \in OfferRow
        /\ Stage(h) \in {"find", "book", "fare", "apply", "amount"} => read.rate \in FareRow
        /\ Stage(h) = "book" =>
              /\ read.at \in Nat /\ read.access \in BOOLEAN /\ read.shared \in BOOLEAN
              /\ read.dues \in {0, Dues}
        /\ Stage(h) = "fare" => read.access \in BOOLEAN
        /\ Stage(h) \notin {"find", "book"} => read.basket \in Baskets /\ basket[read.basket] # NoBasket
        /\ Stage(h) \in {"apply", "amount"} =>
              /\ read = [offer |-> read.offer, basket |-> read.basket, credit |-> read.credit,
                         rate |-> read.rate]
              /\ read.credit \in Int
QuotesRead == \A h \in Handlers : Checking(h) => CheckRead(h)

(* that what is asked for is computed from what was booked,                  *)
Priced(r) ==
    r.done => /\ r.shipping = Waived(r.subtotal, r.rate.amount)
              /\ r.total = Payable(r.subtotal, r.shipping, r.dues, r.credit)
QuotesPriced ==
    /\ \A b \in Baskets : basket[b] # NoBasket => Priced(basket[b])
    /\ lastCharge.row # NoBasket => Priced(lastCharge.row)

LEMMA CheckStages ==
    ASSUME NEW p \in CheckPlans
    PROVE  /\ p # <<>>
           /\ Head(p) \in {"find", "book", "fare", "apply", "amount", "oust", "charge"}
           /\ Head(p) = "book" => Tail(p) \in CheckPlans /\ Head(Tail(p)) = "fare"
           /\ Head(p) = "fare" => Tail(p) \in CheckPlans /\ Head(Tail(p)) = "apply"
           /\ Head(p) = "apply" => Tail(p) \in CheckPlans /\ Head(Tail(p)) = "amount"
           /\ Head(p) = "amount" => Tail(p) \in CheckPlans /\ Head(Tail(p)) = "oust"
           /\ Head(p) = "oust" => Tail(p) \in CheckPlans /\ Head(Tail(p)) = "charge"
  <1>1. CASE p = <<"find">>  BY <1>1
  <1>2. CASE p = <<"book", "fare", "apply", "amount", "oust", "charge">>
    <2>1. Head(p) = "book" /\ Tail(p) = FarePlan /\ p # <<>> /\ Head(FarePlan) = "fare"
          BY <1>2 DEF FarePlan
    <2> QED  BY <2>1 DEF CheckPlans
  <1>3. CASE p = FarePlan
    <2>1. Head(p) = "fare" /\ p # <<>> /\ Head(Tail(p)) = "apply"
          /\ Tail(p) = <<"apply", "amount", "oust", "charge">>
          BY <1>3 DEF FarePlan
    <2> QED  BY <2>1 DEF CheckPlans
  <1>4. CASE p = <<"apply", "amount", "oust", "charge">>
    <2>1. Head(p) = "apply" /\ p # <<>> /\ Head(Tail(p)) = "amount" /\ Tail(p) = <<"amount", "oust", "charge">>
          BY <1>4
    <2> QED  BY <2>1 DEF CheckPlans
  <1>5. CASE p = <<"amount", "oust", "charge">>
    <2>1. Head(p) = "amount" /\ p # <<>> /\ Head(Tail(p)) = "oust" /\ Tail(p) = <<"oust", "charge">>
          BY <1>5
    <2> QED  BY <2>1 DEF CheckPlans
  <1>6. CASE p = <<"oust", "charge">>
    <2>1. Head(p) = "oust" /\ p # <<>> /\ Head(Tail(p)) = "charge" /\ Tail(p) = <<"charge">>
          BY <1>6
    <2> QED  BY <2>1 DEF CheckPlans
  <1>7. CASE p = <<"charge">>  BY <1>7
  <1> QED  BY <1>1, <1>2, <1>3, <1>4, <1>5, <1>6, <1>7 DEF CheckPlans

LEMMA NoneIsNoRow == NoBasket \notin BasketRow /\ NoOffer \notin OfferRow
  <1>1. \A r \in BasketRow : r.state # "none"  BY DEF BasketRow
  <1>2. NoBasket.state = "none"  BY DEF NoBasket
  <1>3. ASSUME NoOffer \in OfferRow PROVE FALSE
    <2>1. "at" \in DOMAIN NoOffer  BY <1>3 DEF OfferRow
    <2> QED  BY <2>1 DEF NoOffer
  <1> QED  BY <1>1, <1>2, <1>3

-----------------------------------------------------------------------------
(* Quote: a new offer is sound, and says what membership saves.              *)
LEMMA UnitsCut ==
    ASSUME QuotesType, NEW n \in Nat, InCart
    PROVE  Cut(n) \in Nat
  <1>1. OnSale \in Nat  BY DEF OnSale, QuotesType, InCart
  <1> QED  BY <1>1, MinOfTwo DEF Cut

LEMMA ProductInt == ASSUME NEW i \in Int, NEW j \in Int PROVE i * j \in Int
  OBVIOUS

LEMMA MoreUnits == ASSUME NEW i \in Nat, NEW j \in Nat, NEW k \in Nat, j <= k PROVE i * j <= i * k
  OBVIOUS

LEMMA MaxZero == ASSUME NEW i \in Nat PROVE Max({0, i}) = i
  BY MaxOfTwo

LEMMA SavingAdds ==
    ASSUME NEW i \in Int, NEW j \in Int, j <= i, NEW k \in Int, NEW l \in Int, l <= k
    PROVE  Max({0, i - j}) + Max({0, k - l}) = (i + k) - (j + l)
  <1>1. i - j \in Nat /\ k - l \in Nat  OBVIOUS
  <1>2. Max({0, i - j}) = i - j /\ Max({0, k - l}) = k - l  BY <1>1, MaxZero
  <1> QED  BY <1>2

LEMMA BothWaived ==
    ASSUME NEW retail, NEW clubs, retail >= FreeFrom <=> clubs >= FreeFrom,
           NEW full \in Int, NEW less \in Int, less <= full
    PROVE  /\ Waived(retail, full) = Waived(clubs, full) /\ Waived(retail, less) = Waived(clubs, less)
           /\ Waived(retail, full) \in Int /\ Waived(clubs, less) \in Int
           /\ Waived(clubs, less) <= Waived(retail, full)
  BY DEF Waived

LEMMA RetailAndMember ==
    ASSUME tag.cost \in Tags, NEW n \in Nat
    PROVE  /\ n * UnitPrice(tag.cost, FALSE) \in Int /\ n * UnitPrice(tag.cost, TRUE) \in Int
           /\ n * UnitPrice(tag.cost, TRUE) <= n * UnitPrice(tag.cost, FALSE)
  <1> DEFINE f == UnitPrice(tag.cost, FALSE)
             t == UnitPrice(tag.cost, TRUE)
  <1>1. f \in Nat /\ t \in Nat /\ t <= f  BY UnitPrices
  <1> HIDE DEF f, t
  <1>2. n * f \in Int /\ n * t \in Int /\ n * t <= n * f  BY <1>1, ProductInt, MoreUnits
  <1> QED  BY <1>2 DEF f, t

LEMMA SavedIsSaid ==
    ASSUME QuotesType, NEW w \in Wishes, NEW source \in Carriers, NEW n \in Nat, NEW r \in FareRow,
           r.tier \in {"ground", "express"}, ~ buyer.access, ~ UsesCode(w),
           SameTier(Rates(source, Joins(w)), r) = r,
           n * UnitPrice(tag.cost, FALSE) >= FreeFrom <=> n * UnitPrice(tag.cost, TRUE) >= FreeFrom
    PROVE  SavedOn(w, n, source, r)
             = (n * UnitPrice(tag.cost, FALSE) + Waived(n * UnitPrice(tag.cost, FALSE),
                          SameTier(Rates(source, FALSE), r).amount))
                 - (n * UnitPrice(tag.cost, TRUE) + Waived(n * UnitPrice(tag.cost, TRUE),
                            SameTier(Rates(source, TRUE), r).amount))
  <1> DEFINE retail == n * UnitPrice(tag.cost, FALSE)
             clubs == n * UnitPrice(tag.cost, TRUE)
             full == SameTier(Rates(source, FALSE), r).amount
             less == SameTier(Rates(source, TRUE), r).amount
  <1>1. full \in Int /\ less \in Int /\ less <= full  BY MembersFare DEF FareRow
  <1>2. retail \in Int /\ clubs \in Int /\ clubs <= retail  BY RetailAndMember DEF QuotesType
  <1>0. retail >= FreeFrom <=> clubs >= FreeFrom  OBVIOUS
  <1> DEFINE dear == Waived(retail, full)
             cheap == Waived(clubs, less)
  <1>6. /\ dear = Waived(clubs, full) /\ Waived(retail, less) = cheap
        /\ dear \in Int /\ cheap \in Int /\ cheap <= dear
    <2> HIDE DEF full, less, retail, clubs
    <2> QED  BY <1>0, <1>1, BothWaived
  <1>3. Joins(w) \in BOOLEAN /\ (Entitled(w) <=> Joins(w))
        BY QuotesAssumption DEF Joins, Entitled, QuotesType
  <1>4. CASE Joins(w)
    <2>1. r.amount = less  BY <1>4
    <2>2. SavedOn(w, n, source, r)
            = Max({0, retail - clubs}) + Max({0, dear - cheap})
          BY <1>3, <1>4, <1>6, <2>1, Zenon DEF SavedOn
    <2>3. Max({0, retail - clubs}) + Max({0, dear - cheap}) = (retail + dear) - (clubs + cheap)
      <3> HIDE DEF dear, cheap, retail, clubs
      <3>1. retail \in Int  BY <1>2
      <3>2. clubs \in Int  BY <1>2
      <3>3. clubs <= retail  BY <1>2
      <3>4. dear \in Int /\ cheap \in Int  BY <1>6
      <3>5. cheap <= dear  BY <1>6
      <3> QED  BY <3>1, <3>2, <3>3, <3>4, <3>5, SavingAdds, Zenon
    <2> QED  BY <2>2, <2>3
  <1>5. CASE ~ Joins(w)
    <2>1. r.amount = full
      <3>1. Joins(w) = FALSE  BY <1>3, <1>5
      <3> QED  BY <3>1
    <2>2. SavedOn(w, n, source, r)
            = Max({0, retail - clubs}) + Max({0, dear - cheap})
      <3>1. (~ Joins(w)) = TRUE  BY <1>3, <1>5
      <3> QED  BY <1>3, <1>5, <1>6, <2>1, <3>1, Zenon DEF SavedOn
    <2>3. Max({0, retail - clubs}) + Max({0, dear - cheap}) = (retail + dear) - (clubs + cheap)
      <3> HIDE DEF dear, cheap, retail, clubs
      <3>1. retail \in Int  BY <1>2
      <3>2. clubs \in Int  BY <1>2
      <3>3. clubs <= retail  BY <1>2
      <3>4. dear \in Int /\ cheap \in Int  BY <1>6
      <3>5. cheap <= dear  BY <1>6
      <3> QED  BY <3>1, <3>2, <3>3, <3>4, <3>5, SavingAdds, Zenon
    <2> QED  BY <2>2, <2>3
  <1> QED  BY <1>4, <1>5

(* Whether a shopper joins, uses a code and is entitled to members' prices,     *)
(* when what he pays depends on was so.                                      *)
JoinsThen(o, then) == o.wish.joins /\ ~ then.access
CodeThen(o, then) == o.wish.code /\ ~ then.access /\ ~ JoinsThen(o, then)
Subtotal(n, then, joins, code) == n * UnitPrice(then.cost, then.access \/ joins \/ code)
OfferTrue(o, was) ==
    LET then == was[o.at]
        subtotal == Subtotal(o.n, then, JoinsThen(o, then), CodeThen(o, then))
    IN  o.total = QuotedTotal(subtotal, Waived(subtotal, o.rate.amount),
                              IF JoinsThen(o, then) THEN Dues ELSE 0, o.credit)
Now == [cost |-> tag.cost, access |-> buyer.access]

LEMMA SavedInt ==
    ASSUME NEW w, NEW source \in Carriers, NEW n \in Nat, NEW r \in FareRow, tag.cost \in Tags,
           r.tier \in {"ground", "express"}, Joins(w) \in BOOLEAN, Entitled(w) \in BOOLEAN
    PROVE  SavedOn(w, n, source, r) \in Int
  <1> DEFINE retail == n * UnitPrice(tag.cost, FALSE)
             clubs == n * UnitPrice(tag.cost, TRUE)
             goods == IF Entitled(w) THEN clubs ELSE retail
             compared == SameTier(Rates(source, ~ Joins(w)), r)
             here == Waived(goods, r.amount)
             there == Waived(goods, compared.amount)
             first == IF Joins(w) THEN retail - goods ELSE goods - clubs
             second == IF Joins(w) THEN there - here ELSE here - there
  <1>1. retail \in Int /\ clubs \in Int  BY RetailAndMember
  <1>2. compared.amount \in Int /\ r.amount \in Int
    <2>1. ~ Joins(w) = TRUE \/ ~ Joins(w) = FALSE  OBVIOUS
    <2>2. compared \in FareRow  BY <2>1, MembersFare
    <2> HIDE DEF compared
    <2> QED  BY <2>2 DEF FareRow
  <1>3. SavedOn(w, n, source, r) = IF buyer.access THEN 0 ELSE Max({0, first}) + Max({0, second})
        BY Zenon DEF SavedOn
  <1> HIDE DEF compared, retail, clubs
  <1>4. goods \in Int  BY <1>1
  <1> HIDE DEF goods
  <1>5. here \in Int /\ there \in Int  BY <1>2, <1>4, WaivedInt
  <1> HIDE DEF here, there
  <1>6. first \in Int /\ second \in Int  BY <1>1, <1>4, <1>5
  <1> HIDE DEF first, second
  <1>7. Max({0, first}) \in Int /\ Max({0, second}) \in Int  BY <1>6, MaxOfTwo
  <1> QED  BY <1>3, <1>7

LEMMA QuoteMade ==
    ASSUME QuotesType, NEW h \in Handlers, Quote(h), offer' # offer, NEW was, was[epoch] = Now
    PROVE  /\ offer' \in OfferRow /\ offer'.at = epoch /\ OfferTrue(offer', was) /\ SavesAsSaid'
  <1>1. PICK w \in Wishes, source \in Carriers :
            LET n == Cut(w.n)
                rates == Rates(source, Entitled(w))
                rate == IF w.tier = "any" THEN rates[1] ELSE SameTier(rates, w)
                subtotal == n * UnitPrice(tag.cost, Entitled(w))
                ship == Waived(subtotal, rate.amount)
                dues == IF Joins(w) THEN Dues ELSE 0
                credit == Min({w.credit, buyer.balance, subtotal + ship + dues})
            IN  /\ InCart
                /\ offer' = [n |-> n, wish |-> w, rate |-> rate, credit |-> credit, at |-> epoch,
                             total |-> QuotedTotal(subtotal, ship, dues, credit),
                             saved |-> SavedOn(w, n, source, rate),
                             cost |-> tag.cost, source |-> source,
                             already |-> buyer.access \/ UsesCode(w)]
        BY Zenon DEF Quote
  <1> DEFINE n == Cut(w.n)
             rates == Rates(source, Entitled(w))
             rate == IF w.tier = "any" THEN rates[1] ELSE SameTier(rates, w)
             price == UnitPrice(tag.cost, Entitled(w))
             subtotal == n * price
             ship == Waived(subtotal, rate.amount)
             dues == IF Joins(w) THEN Dues ELSE 0
             credit == Min({w.credit, buyer.balance, subtotal + ship + dues})
             total == QuotedTotal(subtotal, ship, dues, credit)
             saved == SavedOn(w, n, source, rate)
             already == buyer.access \/ UsesCode(w)
  <1>2. offer' = [n |-> n, wish |-> w, rate |-> rate, credit |-> credit, at |-> epoch, total |-> total,
                  saved |-> saved, cost |-> tag.cost, source |-> source, already |-> already]
        BY <1>1
  <1>3. /\ w.n \in Nat /\ w.joins \in BOOLEAN /\ w.code \in BOOLEAN /\ w.credit \in Int
        /\ w.tier \in {"any", "ground", "express"} /\ tag.cost \in Tags /\ buyer.access \in BOOLEAN
        /\ buyer.balance \in Int
        BY QuotesAssumption DEF QuotesType
  <1>4. Joins(w) \in BOOLEAN /\ UsesCode(w) \in BOOLEAN /\ Entitled(w) \in BOOLEAN /\ already \in BOOLEAN
        BY <1>3 DEF Joins, UsesCode, Entitled
  <1>5. rate \in RateSet(rates)
    <2>1. CASE w.tier = "any"  BY <1>4, <2>1, TierRates
    <2>2. CASE w.tier # "any"  BY <1>3, <1>4, <2>2, WishRate
    <2> QED  BY <2>1, <2>2
  <1>6. rate \in FareRow /\ rate.tier \in {"ground", "express"} /\ SameTier(rates, rate) = rate
        BY <1>4, <1>5, TierRates
  <1>7. n \in Nat  BY <1>1, <1>3, UnitsCut
  <1>8. price \in Nat  BY <1>3, <1>4, UnitPrices
  <1>9. subtotal \in Int
    <2> HIDE DEF n, price
    <2> QED  BY <1>7, <1>8
  <1>10. ship \in Int /\ dues \in Int
    <2> HIDE DEF subtotal, rate
    <2> QED  BY <1>6, <1>9, WaivedInt, DuesInt DEF FareRow
  <1>11. credit \in Int
    <2> DEFINE sum == subtotal + ship + dues
    <2>1. sum \in Int
      <3> HIDE DEF subtotal, ship, dues
      <3> QED  BY <1>9, <1>10
    <2> HIDE DEF sum
    <2> QED  BY <1>3, <2>1, MinOfThree DEF sum
  <1>12. total \in Int
    <2> HIDE DEF subtotal, ship, dues, credit
    <2> QED  BY <1>9, <1>10, <1>11, PayableIs
  <1>13. saved \in Int
    <2> HIDE DEF n, rate
    <2> QED  BY <1>3, <1>4, <1>6, <1>7, SavedInt
  <1>14. OfferTrue(offer', was)
    <2>1. JoinsThen(offer', was[epoch]) = Joins(w) /\ CodeThen(offer', was[epoch]) = UsesCode(w)
          BY <1>2, <1>3 DEF JoinsThen, CodeThen, Joins, UsesCode, Now
    <2>2. Subtotal(n, was[epoch], Joins(w), UsesCode(w)) = subtotal
      <3>1. Now.cost = tag.cost /\ Now.access = buyer.access  BY DEF Now
      <3> QED  BY <3>1, Zenon DEF Subtotal, Entitled
    <2>3. offer'.at = epoch /\ offer'.n = n /\ offer'.rate = rate /\ offer'.credit = credit /\ offer'.total = total
          BY <1>2
    <2> QED  BY <2>1, <2>2, <2>3, Zenon DEF OfferTrue
  <1>15. offer' \in OfferRow /\ offer'.at = epoch
    <2>1. epoch \in Nat  BY DEF QuotesType
    <2> HIDE DEF n, rate, credit, total, saved, already
    <2> QED  BY <1>2, <1>3, <1>4, <1>6, <1>7, <1>11, <1>12, <1>13, <2>1 DEF OfferRow
  <1>16. SavesAsSaid'
    <2>1. CASE already
      <3> HIDE DEF n, rate, credit, total, saved, already
      <3>1. offer'.already  BY <1>2, <2>1
      <3> QED  BY <3>1, Zenon DEF SavesAsSaid
    <2>2. CASE ~ already
      <3>1. ~ buyer.access /\ ~ UsesCode(w) /\ Entitled(w) = Joins(w)
            BY <1>3, <1>4, <2>2 DEF Entitled
      <3>2. SameTier(Rates(source, Joins(w)), rate) = rate  BY <1>6, <3>1
      <3> DEFINE retail == n * UnitPrice(tag.cost, FALSE)
                 clubs == n * UnitPrice(tag.cost, TRUE)
      <3>3. (retail >= FreeFrom <=> clubs >= FreeFrom) =>
              saved = (retail + Waived(retail, SameTier(Rates(source, FALSE), rate).amount))
                          - (clubs + Waived(clubs, SameTier(Rates(source, TRUE), rate).amount))
        <4>1. rate.tier \in {"ground", "express"} /\ rate \in FareRow /\ n \in Nat  BY <1>6, <1>7
        <4> HIDE DEF n, rate
        <4>2. ASSUME retail >= FreeFrom <=> clubs >= FreeFrom
              PROVE  SavedOn(w, n, source, rate)
                       = (retail + Waived(retail, SameTier(Rates(source, FALSE), rate).amount))
                           - (clubs + Waived(clubs, SameTier(Rates(source, TRUE), rate).amount))
              BY <3>1, <3>2, <4>1, <4>2, SavedIsSaid
        <4> QED  BY <4>2
      <3>4. offer'.n = n /\ offer'.cost = tag.cost /\ offer'.source = source /\ offer'.rate = rate
            /\ offer'.saved = saved
        <4> HIDE DEF n, rate, credit, total, saved, already
        <4> QED  BY <1>2
      <3> HIDE DEF n, rate, saved
      <3> QED  BY <3>3, <3>4, Zenon DEF SavesAsSaid
    <2> QED  BY <2>1, <2>2
  <1> QED  BY <1>14, <1>15, <1>16

-----------------------------------------------------------------------------
(* A basket's amounts and what was so when they were computed.               *)
RowTrue(r, was) ==
    r.from \in Nat =>
        LET then == was[r.from]
        IN  /\ r.subtotal = Subtotal(r.n, then, r.dues > 0, r.shared)
            /\ then.access => r.dues = 0 /\ ~ r.shared
            /\ r.dues > 0 => ~ r.shared
(* A basket is what the shopper was offered, if nothing has changed between.  *)
Fits(o, r, was) ==
    /\ r.n = o.n
    /\ r.from = o.at => /\ JoinsThen(o, was[o.at]) <=> r.dues > 0
                        /\ CodeThen(o, was[o.at]) <=> r.shared
(* What a checkout has read of who buys                                      *)
BuyerTrue(read, was) ==
    LET then == was[read.at]
        joins == JoinsThen(read.offer, then)
        code == CodeThen(read.offer, then)
    IN  /\ read.dues = IF joins THEN Dues ELSE 0
        /\ read.shared <=> code
        /\ read.access <=> then.access \/ joins \/ code
CheckTrue(h, was) ==
    LET read == req[h].read
    IN  /\ OfferTrue(read.offer, was) /\ read.offer.at <= epoch
        /\ Stage(h) = "book" => BuyerTrue(read, was) /\ read.at <= epoch
        /\ Stage(h) \notin {"find", "book"} => Fits(read.offer, basket[read.basket], was)

PastTrue(was) ==
    /\ was[epoch] = Now
    /\ offer # NoOffer => OfferTrue(offer, was) /\ offer.at <= epoch
    /\ \A b \in Baskets : basket[b] # NoBasket => RowTrue(basket[b], was) /\ basket[b].from <= epoch
    /\ lastCharge.row # NoBasket =>
          /\ OfferTrue(lastCharge.offer, was) /\ lastCharge.offer.at <= epoch
          /\ RowTrue(lastCharge.row, was) /\ lastCharge.row.from <= epoch
          /\ Fits(lastCharge.offer, lastCharge.row, was)
    /\ \A h \in Handlers : Checking(h) => CheckTrue(h, was)

(* When no two checkouts overlap, one that has not written the amounts of its   *)
(* basket is the only one to charge it;                                      *)
QuotesPaid ==
    /\ \A b \in Baskets : basket[b].state = "CONSUMED" => basket[b].charge > 0
    /\ Apart("checkout", "checkout") =>
          /\ \A b \in Baskets : basket[b].state # "none" /\ basket[b].done /\ basket[b].charge > 0
                => basket[b].charge = basket[b].total
          /\ \A h \in Handlers : Checking(h) /\ Stage(h) \in {"fare", "apply", "amount"} =>
                basket[req[h].read.basket].charge = 0

(* and if none stops midway, all but the one it is about are ousted.          *)
AtMostOne(bs) == \A b, c \in bs : b = c
QuotesOpen ==
    InTurn({"checkout"}) =>
        /\ Quiet({"checkout"}) => AtMostOne(OpenBaskets)
        /\ \A h \in Handlers : Checking(h) =>
              /\ Stage(h) \in {"find", "book"} => AtMostOne(OpenBaskets)
              /\ Stage(h) \in {"fare", "apply", "amount", "oust"} =>
                    AtMostOne(OpenBaskets \ {req[h].read.basket})
              /\ Stage(h) = "charge" => OpenBaskets \subseteq {req[h].read.basket}

Past == [Nat -> [cost : Tags, access : BOOLEAN]]
QuotesInv ==
    /\ QuotesType /\ QuotesRead /\ QuotesPriced /\ QuotesPaid /\ QuotesOpen /\ SavesAsSaid
    /\ \E was \in Past : PastTrue(was)

-----------------------------------------------------------------------------
(* What the quotes see of a step                                             *)
LEMMA QuotesOrNot ==
    ASSUME DeskInv, NEW h \in Handlers, Step(h)
    PROVE  \/ Concerns(h, QuoteKinds) /\ QuotesStep(h)
           \/ StoodBy(QuoteKinds) /\ UNCHANGED quotes
           \/ Crash(h) /\ UNCHANGED quotes
  <1>1. CASE MoneyStep(h)
    <2>1. CASE Concerns(h, TransferKinds) /\ TransfersStep(h) /\ UNCHANGED quotes
          BY <2>1, TransfersDesk, StoodBesideMoney
    <2>2. CASE Concerns(h, WalletKinds) /\ WalletStep(h) /\ UNCHANGED quotes
          BY <2>2, WalletDesk, StoodBesideMoney
    <2> QED  BY <1>1, <2>1, <2>2, Zenon DEF MoneyStep
  <1>2. CASE StoodBy(MoneyKinds) /\ UNCHANGED funds  BY <1>2, StoodByFewer DEF MoneyKinds, funds
  <1>3. CASE Crash(h) /\ UNCHANGED funds  BY <1>3, Zenon DEF funds
  <1> QED  BY <1>1, <1>2, <1>3, MoneyOrNot

-----------------------------------------------------------------------------
(* Rows that keep what was booked, and rows of which only the state is new    *)
SameRow(r, s) ==
    s.n = r.n /\ s.dues = r.dues /\ s.shared = r.shared /\ s.from = r.from /\ s.subtotal = r.subtotal
RowsKeep ==
    \A b \in Baskets : basket[b] # NoBasket => basket'[b] # NoBasket /\ SameRow(basket[b], basket'[b])
Restated ==
    \A b \in Baskets :
        /\ basket[b] = NoBasket => basket'[b] = NoBasket
        /\ basket[b] # NoBasket => /\ basket'[b] # NoBasket
                                   /\ basket'[b] = [basket[b] EXCEPT !.state = basket'[b].state]

LEMMA RestatedRows ==
    ASSUME QuotesType, Restated
    PROVE  /\ RowsKeep
           /\ \A b \in Baskets : basket[b] # NoBasket =>
                 /\ basket'[b].done = basket[b].done /\ basket'[b].charge = basket[b].charge
                 /\ basket'[b].total = basket[b].total /\ (Priced(basket[b]) => Priced(basket'[b]))
  <1>1. ASSUME NEW b \in Baskets, basket[b] # NoBasket
        PROVE  /\ basket'[b] # NoBasket /\ SameRow(basket[b], basket'[b])
               /\ basket'[b].done = basket[b].done /\ basket'[b].charge = basket[b].charge
               /\ basket'[b].total = basket[b].total
               /\ basket'[b].shipping = basket[b].shipping /\ basket'[b].rate = basket[b].rate
               /\ basket'[b].credit = basket[b].credit
    <2>1. basket[b] \in BasketRow /\ basket'[b] # NoBasket
          /\ basket'[b] = [basket[b] EXCEPT !.state = basket'[b].state]
          BY <1>1 DEF QuotesType, Restated
    <2>2. PICK s : s = basket'[b].state  OBVIOUS
    <2>3. basket'[b] = [basket[b] EXCEPT !.state = s]  BY <2>1, <2>2
    <2> QED  BY <2>1, <2>3 DEF BasketRow, SameRow
  <1> QED  BY <1>1 DEF RowsKeep, Priced, SameRow

LEMMA CheckStays ==
    ASSUME NEW g \in Handlers, CheckRead(g), req'[g] = req[g],
           \A b \in Baskets : basket[b] # NoBasket => basket'[b] # NoBasket
    PROVE  CheckRead(g)'
  BY DEF CheckRead, Stage

LEMMA CheckingStays ==
    ASSUME NEW h \in Handlers, OthersStay(h), NEW g \in Handlers, g # h
    PROVE  req'[g] = req[g] /\ (Checking(g)' <=> Checking(g)) /\ Stage(g)' = Stage(g)
  BY DEF OthersStay, Checking, Stage

LEMMA ReadGoes ==
    ASSUME QuotesRead, NEW h \in Handlers, OthersStay(h),
           \A b \in Baskets : basket[b] # NoBasket => basket'[b] # NoBasket,
           Checking(h)' => CheckRead(h)'
    PROVE  QuotesRead'
  <1>1. ASSUME NEW g \in Handlers, Checking(g)', g # h PROVE CheckRead(g)'
        BY <1>1, CheckingStays, CheckStays DEF QuotesRead
  <1> QED  BY <1>1 DEF QuotesRead

(* Two checkouts are one when none overlapped.                               *)
LEMMA OneCheckout ==
    ASSUME DeskInv, QuotesRead, Apart("checkout", "checkout"),
           NEW g \in Handlers, NEW h \in Handlers, Checking(g), Checking(h)
    PROVE  g = h
  <1>1. req[g].kind = "checkout" /\ req[h].kind = "checkout" /\ Busy(g) /\ Busy(h)
        BY DEF QuotesRead, CheckRead, Checking
  <1>2. g # h => {req[g].kind, req[h].kind} \in crossed  BY <1>1 DEF DeskInv
  <1> QED  BY <1>1, <1>2 DEF Apart

Writing(h) == Stage(h) \in {"fare", "apply", "amount"}

LEMMA RestatedKeeps ==
    ASSUME QuotesType, QuotesRead, QuotesPriced, QuotesPaid, NEW h \in Handlers, OthersStay(h),
           crossed \subseteq crossed', Restated, lastCharge' = lastCharge,
           \A b \in Baskets : basket'[b].state = "CONSUMED" =>
                basket[b].state = "CONSUMED" \/ basket[b].charge > 0,
           Checking(h)' => CheckRead(h)',
           Checking(h)' /\ Writing(h)' =>
                Checking(h) /\ Writing(h) /\ req'[h].read.basket = req[h].read.basket
    PROVE  QuotesRead' /\ QuotesPriced' /\ QuotesPaid'
  <1>1. RowsKeep  BY RestatedRows
  <1>2. \A b \in Baskets : basket[b] # NoBasket => basket'[b] # NoBasket  BY <1>1 DEF RowsKeep
  <1>3. QuotesRead'  BY <1>2, ReadGoes
  <1>4. \A b \in Baskets : basket'[b] # NoBasket => basket[b] # NoBasket  BY DEF Restated
  <1>5. QuotesPriced'  BY <1>4, RestatedRows DEF QuotesPriced
  <1>6. \A b \in Baskets : basket'[b].state # "none" => basket'[b] # NoBasket  BY DEF NoBasket
  <1>7. \A b \in Baskets : basket[b] # NoBasket => basket[b].state # "none"
        BY DEF QuotesType, BasketRow
  <1>8. \A b \in Baskets : basket'[b].state = "CONSUMED" => basket'[b].charge > 0
    <2>1. ASSUME NEW b \in Baskets, basket'[b].state = "CONSUMED" PROVE basket'[b].charge > 0
      <3>1. basket[b].charge > 0  BY <2>1 DEF QuotesPaid
      <3>2. basket'[b] # NoBasket  BY <1>6, <2>1
      <3> QED  BY <1>4, <3>1, <3>2, RestatedRows
    <2> QED  BY <2>1
  <1>9. ASSUME Apart("checkout", "checkout")'
        PROVE  /\ \A b \in Baskets : basket'[b].state # "none" /\ basket'[b].done /\ basket'[b].charge > 0
                    => basket'[b].charge = basket'[b].total
               /\ \A g \in Handlers : Checking(g)' /\ Stage(g)' \in {"fare", "apply", "amount"} =>
                    basket'[req'[g].read.basket].charge = 0
    <2>1. Apart("checkout", "checkout")  BY <1>9 DEF Apart
    <2>2. \A b \in Baskets : basket'[b].state # "none" /\ basket'[b].done /\ basket'[b].charge > 0
                    => basket'[b].charge = basket'[b].total
          BY <1>4, <1>6, <1>7, <2>1, RestatedRows DEF QuotesPaid
    <2>3. ASSUME NEW g \in Handlers, Checking(g)', Stage(g)' \in {"fare", "apply", "amount"}
          PROVE  basket'[req'[g].read.basket].charge = 0
      <3>1. Checking(g) /\ Writing(g) /\ req'[g].read.basket = req[g].read.basket
            BY <2>3, CheckingStays DEF Writing
      <3>2. basket[req[g].read.basket].charge = 0  BY <2>1, <3>1 DEF QuotesPaid, Writing
      <3>3. req[g].read.basket \in Baskets /\ basket[req[g].read.basket] # NoBasket
            BY <3>1 DEF QuotesRead, CheckRead, Writing
      <3> QED  BY <3>1, <3>2, <3>3, RestatedRows
    <2> QED  BY <2>2, <2>3
  <1> QED  BY <1>3, <1>5, <1>8, <1>9 DEF QuotesPaid

-----------------------------------------------------------------------------
(* At most one basket is open beside the one a checkout is about             *)
OpenRight(g) ==
    Checking(g) =>
        /\ Stage(g) \in {"find", "book"} => AtMostOne(OpenBaskets)
        /\ Stage(g) \in {"fare", "apply", "amount", "oust"} =>
              AtMostOne(OpenBaskets \ {req[g].read.basket})
        /\ Stage(g) = "charge" => OpenBaskets \subseteq {req[g].read.basket}

LEMMA AtMostOneOf ==
    ASSUME NEW cs, NEW bs, AtMostOne(bs), cs \subseteq bs
    PROVE  AtMostOne(cs)
  BY DEF AtMostOne

LEMMA OpenStays ==
    ASSUME NEW g, OpenRight(g), req'[g] = req[g], OpenBaskets' \subseteq OpenBaskets
    PROVE  OpenRight(g)'
  <1>1. (Checking(g)' <=> Checking(g)) /\ Stage(g)' = Stage(g)  BY DEF Checking, Stage, Busy
  <1>2. \A b : OpenBaskets' \ {b} \subseteq OpenBaskets \ {b}  OBVIOUS
  <1>3. AtMostOne(OpenBaskets) => AtMostOne(OpenBaskets)'  BY AtMostOneOf DEF AtMostOne
  <1>4. \A b : AtMostOne(OpenBaskets \ {b}) => AtMostOne(OpenBaskets' \ {b})  BY <1>2, AtMostOneOf
  <1>5. ASSUME Checking(g)', Stage(g)' \in {"fare", "apply", "amount", "oust"}
        PROVE  AtMostOne(OpenBaskets \ {req[g].read.basket})'
    <2>1. AtMostOne(OpenBaskets \ {req[g].read.basket})  BY <1>1, <1>5 DEF OpenRight
    <2> QED  BY <1>4, <2>1 DEF AtMostOne
  <1>6. ASSUME Checking(g)', Stage(g)' = "charge"
        PROVE  OpenBaskets' \subseteq {req'[g].read.basket}
    <2>1. OpenBaskets \subseteq {req[g].read.basket}  BY <1>1, <1>6 DEF OpenRight
    <2> QED  BY <2>1
  <1>7. ASSUME Checking(g)', Stage(g)' \in {"find", "book"}
        PROVE  AtMostOne(OpenBaskets)'
    <2>1. AtMostOne(OpenBaskets)  BY <1>1, <1>7 DEF OpenRight
    <2> QED  BY <1>3, <2>1
  <1> QED  BY <1>5, <1>6, <1>7 DEF OpenRight

LEMMA TurnsWere ==
    ASSUME InTurn({"checkout"})', crossed \subseteq crossed', crashed \subseteq crashed'
    PROVE  InTurn({"checkout"}) /\ Apart("checkout", "checkout")
  BY DEF InTurn, Apart

LEMMA QuietOr ==
    Quiet({"checkout"}) <=> ~ \E g \in Handlers : Busy(g) /\ req[g].kind = "checkout"
  BY DEF Quiet, Doing

LEMMA QuotesOpenIs ==
    QuotesOpen <=> (InTurn({"checkout"}) =>
                      /\ Quiet({"checkout"}) => AtMostOne(OpenBaskets)
                      /\ \A g \in Handlers : OpenRight(g))
  BY Zenon DEF QuotesOpen, OpenRight

(* A step that opens no basket, of no checkout                               *)
LEMMA OpenBeside ==
    ASSUME QuotesOpen, NEW h \in Handlers, OthersStay(h), crossed \subseteq crossed',
           crashed' = crashed, OpenBaskets' \subseteq OpenBaskets, ~ Busy(h), ~ Busy(h)'
    PROVE  QuotesOpen'
  <1>1. SUFFICES ASSUME InTurn({"checkout"})'
                 PROVE  /\ Quiet({"checkout"})' => AtMostOne(OpenBaskets)'
                        /\ \A g \in Handlers : OpenRight(g)'
        BY QuotesOpenIs DEF QuotesOpen, OpenRight
  <1>2. InTurn({"checkout"})  BY <1>1, TurnsWere
  <1>3. \A g \in Handlers : OpenRight(g)  BY <1>2, QuotesOpenIs
  <1>4. Quiet({"checkout"})' => AtMostOne(OpenBaskets)'
    <2>1. Quiet({"checkout"})' => Quiet({"checkout"})  BY DEF Quiet, Doing, OthersStay
    <2>2. AtMostOne(OpenBaskets) => AtMostOne(OpenBaskets)'  BY AtMostOneOf DEF AtMostOne
    <2> QED  BY <1>2, <2>1, <2>2, QuotesOpenIs
  <1>5. \A g \in Handlers : g # h => OpenRight(g)'  BY <1>3, OpenStays DEF OthersStay
  <1>6. OpenRight(h)'  BY DEF OpenRight, Checking
  <1> QED  BY <1>4, <1>5, <1>6

(* A step of a checkout                                                      *)
LEMMA OpenGoes ==
    ASSUME DeskInv, QuotesRead, QuotesOpen, NEW h \in Handlers, OthersStay(h), crossed' = crossed,
           crashed' = crashed, Checking(h), Busy(h)' => req'[h].kind = "checkout",
           OpenRight(h) => OpenRight(h)',
           ~ Busy(h)' /\ OpenRight(h) => AtMostOne(OpenBaskets)'
    PROVE  QuotesOpen'
  <1>1. SUFFICES ASSUME InTurn({"checkout"})'
                 PROVE  /\ Quiet({"checkout"})' => AtMostOne(OpenBaskets)'
                        /\ \A g \in Handlers : OpenRight(g)'
        BY QuotesOpenIs DEF QuotesOpen, OpenRight
  <1>2. InTurn({"checkout"}) /\ Apart("checkout", "checkout")  BY <1>1, TurnsWere
  <1>3. OpenRight(h)  BY <1>2, QuotesOpenIs
  <1>4. Busy(h)' => ~ Quiet({"checkout"})'  BY DEF Quiet, Doing
  <1>5. \A g \in Handlers : g # h => OpenRight(g)'
    <2>1. ASSUME NEW g \in Handlers, g # h, Checking(g)' PROVE FALSE
          BY <1>2, <2>1, CheckingStays, OneCheckout
    <2> QED  BY <2>1 DEF OpenRight
  <1> QED  BY <1>3, <1>4, <1>5

-----------------------------------------------------------------------------
(* What was so stays as it was: an offer's, a basket's and a checkout's past   *)
LEMMA OfferStill ==
    ASSUME NEW o, NEW was, NEW later, later[o.at] = was[o.at], OfferTrue(o, was)
    PROVE  OfferTrue(o, later)
  BY DEF OfferTrue

LEMMA RowStill ==
    ASSUME NEW r, NEW s, NEW was, NEW later, SameRow(r, s), RowTrue(r, was),
           r.from \in Nat => later[r.from] = was[r.from]
    PROVE  RowTrue(s, later)
  BY DEF RowTrue, SameRow

LEMMA FitsStill ==
    ASSUME NEW o, NEW r, NEW s, NEW was, NEW later, SameRow(r, s), Fits(o, r, was),
           later[o.at] = was[o.at]
    PROVE  Fits(o, s, later)
  BY DEF Fits, SameRow

LEMMA CheckStill ==
    ASSUME QuotesType, NEW g \in Handlers, CheckRead(g), NEW was, NEW later, CheckTrue(g, was),
           \A i \in 0 .. epoch : later[i] = was[i], epoch' \in Nat, epoch <= epoch', RowsKeep,
           req'[g] = req[g]
    PROVE  CheckTrue(g, later)'
  <1>1. Stage(g)' = Stage(g)  BY DEF Stage
  <1>2. PICK read : read = req[g].read  OBVIOUS
  <1>3. read.offer \in OfferRow /\ read.offer.at \in 0 .. epoch /\ OfferTrue(read.offer, was)
        BY <1>2 DEF CheckRead, CheckTrue, OfferRow, QuotesType
  <1>4. OfferTrue(read.offer, later)  BY <1>3, OfferStill
  <1>5. read.offer.at <= epoch'  BY <1>3 DEF QuotesType, OfferRow
  <1>6. ASSUME Stage(g) = "book" PROVE BuyerTrue(read, later) /\ read.at <= epoch'
    <2>1. BuyerTrue(read, was) /\ read.at \in Nat /\ read.at <= epoch
          BY <1>2, <1>6 DEF CheckRead, CheckTrue
    <2>2. later[read.at] = was[read.at] /\ read.at <= epoch'  BY <2>1 DEF QuotesType
    <2> QED  BY <2>1, <2>2 DEF BuyerTrue
  <1>7. ASSUME Stage(g) \notin {"find", "book"} PROVE Fits(read.offer, basket'[read.basket], later)
    <2>1. Fits(read.offer, basket[read.basket], was) /\ read.basket \in Baskets
          /\ basket[read.basket] # NoBasket
          BY <1>2, <1>7 DEF CheckRead, CheckTrue
    <2>2. SameRow(basket[read.basket], basket'[read.basket])  BY <2>1 DEF RowsKeep
    <2> QED  BY <1>3, <2>1, <2>2, FitsStill
  <1> QED  BY <1>1, <1>2, <1>4, <1>5, <1>6, <1>7 DEF CheckTrue

ChargeTrue(l, was, upto) ==
    /\ OfferTrue(l.offer, was) /\ l.offer.at <= upto
    /\ RowTrue(l.row, was) /\ l.row.from <= upto
    /\ Fits(l.offer, l.row, was)

LEMMA ChargeStill ==
    ASSUME QuotesType, NEW was, NEW later, \A i \in 0 .. epoch : later[i] = was[i],
           epoch' \in Nat, epoch <= epoch', NEW l, l.offer \in OfferRow, l.row \in BasketRow,
           ChargeTrue(l, was, epoch)
    PROVE  ChargeTrue(l, later, epoch')
  <1>1. l.offer.at \in 0 .. epoch /\ l.row.from \in Int /\ epoch \in Nat
        BY DEF ChargeTrue, QuotesType, OfferRow, BasketRow
  <1>2. later[l.offer.at] = was[l.offer.at] /\ (l.row.from \in Nat => later[l.row.from] = was[l.row.from])
        BY <1>1 DEF ChargeTrue
  <1>3. SameRow(l.row, l.row)  BY DEF SameRow
  <1>4. OfferTrue(l.offer, later) /\ RowTrue(l.row, later) /\ Fits(l.offer, l.row, later)
        BY <1>2, <1>3, OfferStill, RowStill, FitsStill DEF ChargeTrue
  <1> QED  BY <1>1, <1>4 DEF ChargeTrue

LEMMA PastGoes ==
    ASSUME QuotesType, QuotesRead, NEW h \in Handlers, OthersStay(h),
           NEW was, PastTrue(was), NEW later, \A i \in 0 .. epoch : later[i] = was[i],
           epoch' \in Nat, epoch <= epoch', later[epoch'] = Now', RowsKeep,
           offer' = offer \/ (OfferTrue(offer', later) /\ offer'.at <= epoch'),
           \A b \in Baskets : basket[b] = NoBasket /\ basket'[b] # NoBasket =>
                RowTrue(basket'[b], later) /\ basket'[b].from <= epoch',
           lastCharge' = lastCharge \/ ChargeTrue(lastCharge', later, epoch'),
           Checking(h)' => CheckTrue(h, later)'
    PROVE  PastTrue(later)'
  <1>0. epoch \in Nat  BY DEF QuotesType
  <1>1. ASSUME offer' # NoOffer PROVE OfferTrue(offer', later) /\ offer'.at <= epoch'
    <2>1. CASE offer' = offer
      <3>1. offer \in OfferRow /\ OfferTrue(offer, was) /\ offer.at <= epoch
            BY <1>1, <2>1 DEF QuotesType, PastTrue
      <3>2. offer.at \in 0 .. epoch  BY <1>0, <3>1 DEF OfferRow
      <3>3. OfferTrue(offer, later)  BY <3>1, <3>2, OfferStill
      <3> QED  BY <1>0, <2>1, <3>2, <3>3
    <2> QED  BY <2>1
  <1>2. ASSUME NEW b \in Baskets, basket'[b] # NoBasket
        PROVE  RowTrue(basket'[b], later) /\ basket'[b].from <= epoch'
    <2>1. CASE basket[b] # NoBasket
      <3>1. SameRow(basket[b], basket'[b]) /\ RowTrue(basket[b], was) /\ basket[b].from <= epoch
            /\ basket[b].from \in Int
            BY <2>1 DEF RowsKeep, PastTrue, QuotesType, BasketRow
      <3>2. basket[b].from \in Nat => later[basket[b].from] = was[basket[b].from]  BY <1>0, <3>1
      <3>3. RowTrue(basket'[b], later)  BY <3>1, <3>2, RowStill
      <3>4. basket'[b].from = basket[b].from  BY <3>1 DEF SameRow
      <3> QED  BY <1>0, <3>1, <3>3, <3>4
    <2> QED  BY <1>2, <2>1
  <1>3. ASSUME lastCharge'.row # NoBasket PROVE ChargeTrue(lastCharge', later, epoch')
    <2>1. CASE lastCharge' = lastCharge
      <3>1. lastCharge.offer \in OfferRow /\ lastCharge.row \in BasketRow /\ ChargeTrue(lastCharge, was, epoch)
            BY <1>3, <2>1 DEF QuotesType, PastTrue, ChargeTrue
      <3>2. PICK l : l = lastCharge  OBVIOUS
      <3>3. ChargeTrue(l, later, epoch')  BY <3>1, <3>2, ChargeStill
      <3> QED  BY <2>1, <3>2, <3>3
    <2> QED  BY <2>1
  <1>4. ASSUME NEW g \in Handlers, Checking(g)', g # h PROVE CheckTrue(g, later)'
    <2>1. Checking(g) /\ req'[g] = req[g]  BY <1>4, CheckingStays
    <2>2. CheckRead(g) /\ CheckTrue(g, was)  BY <2>1 DEF QuotesRead, PastTrue
    <2> QED  BY <2>1, <2>2, CheckStill
  <1> QED  BY <1>1, <1>2, <1>3, <1>4 DEF PastTrue, ChargeTrue

-----------------------------------------------------------------------------
(* A step that is done at once, and a checkout's step that books nothing     *)
LEMMA AtStage ==
    ASSUME NEW h, NEW s, At(h, s), Concerns(h, QuoteKinds)
    PROVE  Checking(h) /\ Stage(h) = s
  BY DEF At, Concerns, Checking, Stage

LEMMA SavesStays == ASSUME SavesAsSaid, offer' = offer PROVE SavesAsSaid'
  BY DEF SavesAsSaid

LEMMA InstantKeeps ==
    ASSUME DeskInv, QuotesInv, NEW h \in Handlers, NEW kind, Begin(h, kind, <<>>, {}),
           Restated, lastCharge' = lastCharge,
           \A b \in Baskets : basket'[b].state = "CONSUMED" =>
                basket[b].state = "CONSUMED" \/ basket[b].charge > 0,
           QuotesType', OpenBaskets' \subseteq OpenBaskets, SavesAsSaid',
           NEW was, PastTrue(was), NEW later \in Past, \A i \in 0 .. epoch : later[i] = was[i],
           epoch' \in Nat, epoch <= epoch', later[epoch'] = Now',
           offer' = offer \/ (OfferTrue(offer', later) /\ offer'.at <= epoch')
    PROVE  QuotesInv'
  <1>1. OthersStay(h) /\ ~ Busy(h) /\ ~ Busy(h)' /\ crossed \subseteq crossed' /\ crashed' = crashed
        BY AfterBegin
  <1>2. ~ Checking(h)'  BY <1>1 DEF Checking
  <1>3. QuotesRead' /\ QuotesPriced' /\ QuotesPaid'  BY <1>1, <1>2, RestatedKeeps DEF QuotesInv
  <1>4. QuotesOpen'  BY <1>1, OpenBeside DEF QuotesInv
  <1>5. PastTrue(later)'
    <2>1. RowsKeep  BY RestatedRows DEF QuotesInv
    <2>2. \A b \in Baskets : basket[b] = NoBasket => basket'[b] = NoBasket  BY DEF Restated
    <2> QED  BY <1>1, <1>2, <2>1, <2>2, PastGoes DEF QuotesInv
  <1>6. (\E before \in Past : PastTrue(before))'  BY <1>5 DEF Past
  <1> QED  BY <1>3, <1>4, <1>6 DEF QuotesInv

LEMMA CheckKeeps ==
    ASSUME DeskInv, QuotesInv, NEW h \in Handlers, Checking(h), NEW plan, NEW read, GoOn(h, plan, read),
           Restated, UNCHANGED <<offer, lastCharge, epoch>>, Now' = Now,
           \A b \in Baskets : basket'[b].state = "CONSUMED" => basket[b].state = "CONSUMED",
           QuotesType', OpenBaskets' \subseteq OpenBaskets,
           Busy(h)' => CheckRead(h)',
           Busy(h)' /\ Writing(h)' => Writing(h) /\ req'[h].read.basket = req[h].read.basket,
           OpenRight(h) => OpenRight(h)',
           ~ Busy(h)' /\ OpenRight(h) => AtMostOne(OpenBaskets)',
           \A was \in Past : PastTrue(was) /\ Busy(h)' => CheckTrue(h, was)'
    PROVE  QuotesInv'
  <1>1. OthersStay(h) /\ crossed' = crossed /\ crashed' = crashed  BY AfterGoOn DEF Checking
  <1>2. Checking(h)' => Busy(h)'  BY DEF Checking
  <1>3. QuotesRead' /\ QuotesPriced' /\ QuotesPaid'  BY <1>1, <1>2, RestatedKeeps DEF QuotesInv
  <1>4. QuotesOpen'
    <2>1. Busy(h)' => req'[h].kind = "checkout"  BY DEF CheckRead
    <2> QED  BY <1>1, <2>1, OpenGoes DEF QuotesInv
  <1>5. PICK was \in Past : PastTrue(was)  BY DEF QuotesInv
  <1>6. PastTrue(was)'
    <2>1. RowsKeep  BY RestatedRows DEF QuotesInv
    <2>2. \A b \in Baskets : basket[b] = NoBasket => basket'[b] = NoBasket  BY DEF Restated
    <2>3. epoch \in Nat /\ epoch' = epoch /\ was[epoch] = Now /\ offer' = offer /\ lastCharge' = lastCharge
          BY <1>5 DEF QuotesInv, QuotesType, PastTrue
    <2>4. Checking(h)' => CheckTrue(h, was)'  BY <1>2, <1>5
    <2>5. epoch' \in Nat /\ epoch <= epoch' /\ was[epoch'] = Now'  BY <2>3
    <2>6. QuotesType /\ QuotesRead  BY DEF QuotesInv
    <2> QED  BY <1>1, <1>5, <2>1, <2>2, <2>3, <2>4, <2>5, <2>6, PastGoes
  <1>7. (\E before \in Past : PastTrue(before))'  BY <1>5, <1>6 DEF Past
  <1>8. SavesAsSaid'  BY SavesStays DEF QuotesInv
  <1> QED  BY <1>3, <1>4, <1>7, <1>8 DEF QuotesInv

LEMMA NothingNew ==
    ASSUME QuotesType, UNCHANGED quotes
    PROVE  /\ Restated /\ QuotesType' /\ OpenBaskets' = OpenBaskets /\ Now' = Now
           /\ \A b \in Baskets : basket'[b].state = basket[b].state
           /\ UNCHANGED <<offer, lastCharge, epoch>>
  <1>1. /\ tag' = tag /\ buyer' = buyer /\ basket' = basket /\ offer' = offer
        /\ lastCharge' = lastCharge /\ epoch' = epoch
        BY DEF quotes
  <1>2. Restated
    <2>1. ASSUME NEW b \in Baskets, basket[b] # NoBasket
          PROVE  basket'[b] = [basket[b] EXCEPT !.state = basket'[b].state]
      <3>1. basket[b] \in BasketRow /\ basket'[b] = basket[b]  BY <1>1, <2>1 DEF QuotesType
      <3> QED  BY <3>1 DEF BasketRow
    <2> QED  BY <1>1, <2>1 DEF Restated
  <1> QED  BY <1>1, <1>2 DEF QuotesType, OpenBaskets, Now

LEMMA OpenIs == \A b \in Baskets : b \in OpenBaskets => basket[b] # NoBasket
  BY DEF OpenBaskets, NoBasket

(* releaseIntentResources gives back what the basket held, and ends it.      *)
LEMMA GivenDoes ==
    ASSUME QuotesType, NEW b \in Baskets, basket[b] # NoBasket, NEW state \in {"FAILED", "EXPIRED"},
           Given(b, state), UNCHANGED <<offer, lastCharge, epoch>>
    PROVE  /\ Restated /\ QuotesType' /\ OpenBaskets' \subseteq OpenBaskets \ {b} /\ Now' = Now
           /\ \A c \in Baskets : basket'[c].state = "CONSUMED" => basket[c].state = "CONSUMED"
  <1>1. basket[b] \in BasketRow  BY DEF QuotesType
  <1>2. basket' = [basket EXCEPT ![b].state = state]  BY DEF Given
  <1>3. basket'[b] = [basket[b] EXCEPT !.state = state] /\ \A c \in Baskets \ {b} : basket'[c] = basket[c]
        BY <1>2 DEF QuotesType
  <1>4. basket'[b] \in BasketRow /\ basket'[b].state = state  BY <1>1, <1>3 DEF BasketRow
  <1>5. basket' \in [Baskets -> BasketRow \cup {NoBasket}]  BY <1>2, <1>3, <1>4 DEF QuotesType
  <1>6. Restated
    <2>1. ASSUME NEW c \in Baskets, basket[c] # NoBasket
          PROVE  basket'[c] # NoBasket /\ basket'[c] = [basket[c] EXCEPT !.state = basket'[c].state]
      <3>1. CASE c = b  BY <1>3, <1>4, <3>1, NoneIsNoRow
      <3>2. CASE c # b
        <4>1. basket[c] \in BasketRow /\ basket'[c] = basket[c]  BY <1>3, <2>1, <3>2 DEF QuotesType
        <4> QED  BY <2>1, <4>1 DEF BasketRow
      <3> QED  BY <3>1, <3>2
    <2>2. ASSUME NEW c \in Baskets, basket[c] = NoBasket PROVE basket'[c] = NoBasket  BY <1>3, <2>2
    <2> QED  BY <2>1, <2>2 DEF Restated
  <1>7. OpenBaskets' \subseteq OpenBaskets \ {b}  BY <1>3, <1>4 DEF OpenBaskets
  <1>8. \A c \in Baskets : basket'[c].state = "CONSUMED" => basket[c].state = "CONSUMED"
        BY <1>3, <1>4
  <1>9. /\ tag' \in [cost : Tags, listed : BOOLEAN, units : Int, reserved : Int] /\ tag'.cost = tag.cost
        /\ buyer' \in [access : BOOLEAN, code : BOOLEAN, balance : Int, held : Int]
        /\ buyer'.access = buyer.access
    <2>1. PICK i, j : i = tag.reserved - Min({tag.reserved, basket[b].n})
                      /\ j = buyer.held - Min({buyer.held, basket[b].credit})
          OBVIOUS
    <2>2. i \in Int /\ j \in Int
      <3>1. tag.reserved \in Int /\ basket[b].n \in Int /\ buyer.held \in Int /\ basket[b].credit \in Int
            BY <1>1 DEF QuotesType, BasketRow
      <3>2. Min({tag.reserved, basket[b].n}) \in Int /\ Min({buyer.held, basket[b].credit}) \in Int
            BY <3>1, MinOfTwo
      <3> QED  BY <2>1, <3>1, <3>2
    <2>3. tag' = [tag EXCEPT !.reserved = i] /\ buyer' = [buyer EXCEPT !.held = j]
      <3>1. /\ tag' = [tag EXCEPT !.reserved = tag.reserved - Min({tag.reserved, basket[b].n})]
            /\ buyer' = [buyer EXCEPT !.held = buyer.held - Min({buyer.held, basket[b].credit})]
            BY DEF Given, QuotesType
      <3> QED  BY <2>1, <3>1
    <2> QED  BY <2>2, <2>3 DEF QuotesType
  <1>10. QuotesType'
    <2>1. offer' = offer /\ lastCharge' = lastCharge /\ epoch' = epoch  OBVIOUS
    <2> QED  BY <1>5, <1>9, <2>1 DEF QuotesType
  <1> QED  BY <1>6, <1>7, <1>8, <1>9, <1>10 DEF Now

-----------------------------------------------------------------------------
(* The steps that are done at once                                           *)
LEMMA QuoteKeeps ==
    ASSUME DeskInv, QuotesInv, NEW h \in Handlers, Quote(h)
    PROVE  QuotesInv'
  <1>1. /\ Begin(h, "quote", <<>>, {}) /\ tag' = tag /\ buyer' = buyer /\ basket' = basket
        /\ lastCharge' = lastCharge /\ epoch' = epoch
        BY Zenon DEF Quote
  <1>2. PICK was \in Past : PastTrue(was)  BY DEF QuotesInv
  <1>3. QuotesType /\ epoch \in Nat /\ was[epoch] = Now /\ Now' = Now
        BY <1>1, <1>2 DEF QuotesInv, QuotesType, PastTrue, Now
  <1>4. CASE offer' = offer
    <2>1. UNCHANGED quotes  BY <1>1, <1>4 DEF quotes
    <2>2. Restated /\ QuotesType' /\ OpenBaskets' = OpenBaskets
          /\ \A b \in Baskets : basket'[b].state = basket[b].state
          BY <1>3, <2>1, NothingNew
    <2>3. SavesAsSaid'  BY <1>4, SavesStays DEF QuotesInv
    <2> QED  BY <1>1, <1>2, <1>3, <1>4, <2>2, <2>3, InstantKeeps
  <1>5. CASE offer' # offer
    <2>1. offer' \in OfferRow /\ offer'.at = epoch /\ OfferTrue(offer', was) /\ SavesAsSaid'
          BY <1>2, <1>3, <1>5, QuoteMade
    <2>2. QuotesType'  BY <1>1, <1>3, <2>1 DEF QuotesType
    <2>3. Restated
      <3>1. ASSUME NEW b \in Baskets, basket[b] # NoBasket
            PROVE  basket'[b] = [basket[b] EXCEPT !.state = basket'[b].state]
        <4>1. basket[b] \in BasketRow /\ basket'[b] = basket[b]  BY <1>1, <1>3, <3>1 DEF QuotesType
        <4> QED  BY <4>1 DEF BasketRow
      <3> QED  BY <1>1, <3>1 DEF Restated
    <2>4. OpenBaskets' = OpenBaskets  BY <1>1 DEF OpenBaskets
    <2> QED  BY <1>1, <1>2, <1>3, <2>1, <2>2, <2>3, <2>4, InstantKeeps
  <1> QED  BY <1>4, <1>5

LEMMA BasketLapsesKeeps ==
    ASSUME DeskInv, QuotesInv, NEW h \in Handlers, BasketLapses(h)
    PROVE  QuotesInv'
  <1>1. PICK b \in OpenBaskets : Begin(h, "lapse", <<>>, {}) /\ Given(b, "EXPIRED")
        BY Zenon DEF BasketLapses
  <1>2. offer' = offer /\ lastCharge' = lastCharge /\ epoch' = epoch  BY Zenon DEF BasketLapses
  <1>3. b \in Baskets /\ basket[b] # NoBasket  BY OpenIs DEF OpenBaskets
  <1>4. /\ Restated /\ QuotesType' /\ OpenBaskets' \subseteq OpenBaskets \ {b} /\ Now' = Now
        /\ \A c \in Baskets : basket'[c].state = "CONSUMED" => basket[c].state = "CONSUMED"
        BY <1>1, <1>2, <1>3, GivenDoes DEF QuotesInv
  <1>5. PICK was \in Past : PastTrue(was)  BY DEF QuotesInv
  <1>6. epoch \in Nat /\ was[epoch] = Now  BY <1>5 DEF QuotesInv, QuotesType, PastTrue
  <1>7. SavesAsSaid'  BY <1>2, SavesStays DEF QuotesInv
  <1>8. OpenBaskets' \subseteq OpenBaskets  BY <1>4
  <1> QED  BY <1>1, <1>2, <1>4, <1>5, <1>6, <1>7, <1>8, InstantKeeps

(* What is so now is what is so from here on, until it changes.               *)
LEMMA PastGrows ==
    ASSUME QuotesType, NEW was \in Past, QuotesType'
    PROVE  \E later \in Past : later[epoch + 1] = Now' /\ \A i \in 0 .. epoch : later[i] = was[i]
  <1> DEFINE now == [cost |-> tag'.cost, access |-> buyer'.access]
             later == [was EXCEPT ![epoch + 1] = now]
  <1>1. epoch \in Nat /\ now \in [cost : Tags, access : BOOLEAN] /\ Now' = now
        BY DEF QuotesType, Now
  <1> HIDE DEF now
  <1>2. later \in Past /\ later[epoch + 1] = now /\ \A i \in 0 .. epoch : later[i] = was[i]
        BY <1>1 DEF Past
  <1> QED  BY <1>1, <1>2

LEMMA BasketPaidKeeps ==
    ASSUME DeskInv, QuotesInv, NEW h \in Handlers, BasketPaid(h)
    PROVE  QuotesInv'
  <1>1. PICK b \in OpenBaskets :
            LET taken == Min({buyer.held, basket[b].credit})
            IN  /\ basket[b].charge > 0
                /\ Begin(h, "paid", <<>>, {})
                /\ basket' = [basket EXCEPT ![b].state = "CONSUMED"]
                /\ tag' = [tag EXCEPT !.units = @ - basket[b].n, !.reserved = @ - basket[b].n]
                /\ buyer' = [buyer EXCEPT !.balance = @ - taken, !.held = @ - taken]
                /\ epoch' = IF taken > 0 THEN epoch + 1 ELSE epoch
                /\ UNCHANGED <<offer, lastCharge>>
        BY Zenon DEF BasketPaid
  <1>2. b \in Baskets /\ basket[b] # NoBasket /\ basket[b] \in BasketRow /\ QuotesType /\ epoch \in Nat
        BY OpenIs DEF OpenBaskets, QuotesInv, QuotesType
  <1>3. PICK taken : taken = Min({buyer.held, basket[b].credit})  OBVIOUS
  <1>4. taken \in Int  BY <1>2, <1>3, MinOfTwo DEF QuotesType, BasketRow
  <1>5. /\ basket' = [basket EXCEPT ![b].state = "CONSUMED"]
        /\ tag' = [tag EXCEPT !.units = @ - basket[b].n, !.reserved = @ - basket[b].n]
        /\ buyer' = [buyer EXCEPT !.balance = @ - taken, !.held = @ - taken]
        /\ epoch' = IF taken > 0 THEN epoch + 1 ELSE epoch
        /\ offer' = offer /\ lastCharge' = lastCharge
        BY <1>1, <1>3
  <1>6. basket'[b] = [basket[b] EXCEPT !.state = "CONSUMED"] /\ \A c \in Baskets \ {b} : basket'[c] = basket[c]
        BY <1>2, <1>5 DEF QuotesType
  <1>7. basket'[b] \in BasketRow /\ basket'[b].state = "CONSUMED"  BY <1>2, <1>6 DEF BasketRow
  <1>8. Restated
    <2>1. ASSUME NEW c \in Baskets, basket[c] # NoBasket
          PROVE  basket'[c] # NoBasket /\ basket'[c] = [basket[c] EXCEPT !.state = basket'[c].state]
      <3>1. CASE c = b  BY <1>6, <1>7, <3>1, NoneIsNoRow
      <3>2. CASE c # b
        <4>1. basket[c] \in BasketRow /\ basket'[c] = basket[c]
              BY <1>2, <1>6, <2>1, <3>2 DEF QuotesType
        <4> QED  BY <2>1, <4>1 DEF BasketRow
      <3> QED  BY <3>1, <3>2
    <2>2. ASSUME NEW c \in Baskets, basket[c] = NoBasket PROVE basket'[c] = NoBasket
          BY <1>2, <1>6, <2>2
    <2> QED  BY <2>1, <2>2 DEF Restated
  <1>9. /\ tag' \in [cost : Tags, listed : BOOLEAN, units : Int, reserved : Int] /\ tag'.cost = tag.cost
        /\ buyer' \in [access : BOOLEAN, code : BOOLEAN, balance : Int, held : Int]
        /\ buyer'.access = buyer.access
    <2>1. PICK n \in Int : n = basket[b].n  BY <1>2 DEF BasketRow
    <2>2. /\ tag' = [tag EXCEPT !.units = @ - n, !.reserved = @ - n]
          /\ tag \in [cost : Tags, listed : BOOLEAN, units : Int, reserved : Int]
          /\ buyer \in [access : BOOLEAN, code : BOOLEAN, balance : Int, held : Int]
          /\ buyer' = [buyer EXCEPT !.balance = @ - taken, !.held = @ - taken]
          BY <1>2, <1>5, <2>1 DEF QuotesType
    <2>3. tag' \in [cost : Tags, listed : BOOLEAN, units : Int, reserved : Int] /\ tag'.cost = tag.cost
      <3>1. /\ tag'.cost = tag.cost /\ tag'.listed = tag.listed
            /\ tag'.units = tag.units - n /\ tag'.reserved = tag.reserved - n
            BY <2>2
      <3>2. tag.units - n \in Int /\ tag.reserved - n \in Int  BY <2>1, <2>2
      <3>3. tag' = [cost |-> tag'.cost, listed |-> tag'.listed, units |-> tag'.units,
                    reserved |-> tag'.reserved]
            BY <2>2
      <3> QED  BY <2>2, <3>1, <3>2, <3>3
    <2>4. buyer' \in [access : BOOLEAN, code : BOOLEAN, balance : Int, held : Int] /\ buyer'.access = buyer.access
      <3>1. /\ buyer'.access = buyer.access /\ buyer'.code = buyer.code
            /\ buyer'.balance = buyer.balance - taken /\ buyer'.held = buyer.held - taken
            BY <2>2
      <3>2. buyer.balance - taken \in Int /\ buyer.held - taken \in Int  BY <1>4, <2>2
      <3>3. buyer' = [access |-> buyer'.access, code |-> buyer'.code, balance |-> buyer'.balance,
                      held |-> buyer'.held]
            BY <2>2
      <3> QED  BY <2>2, <3>1, <3>2, <3>3
    <2> QED  BY <2>3, <2>4
  <1>10. QuotesType'
    <2>1. basket' \in [Baskets -> BasketRow \cup {NoBasket}]
          BY <1>2, <1>5, <1>6, <1>7 DEF QuotesType
    <2>2. epoch' \in Nat  BY <1>2, <1>5
    <2> QED  BY <1>2, <1>5, <1>9, <2>1, <2>2 DEF QuotesType
  <1>11. OpenBaskets' \subseteq OpenBaskets  BY <1>6, <1>7 DEF OpenBaskets
  <1>12. \A c \in Baskets : basket'[c].state = "CONSUMED" =>
                basket[c].state = "CONSUMED" \/ basket[c].charge > 0
        BY <1>1, <1>6
  <1>13. SavesAsSaid'  BY <1>5, SavesStays DEF QuotesInv
  <1>14. PICK was \in Past : PastTrue(was)  BY DEF QuotesInv
  <1>15. was[epoch] = Now /\ Now' = Now  BY <1>9, <1>14 DEF PastTrue, Now
  <1>16. Begin(h, "paid", <<>>, {})  BY <1>1
  <1>17. CASE epoch' = epoch
        BY <1>2, <1>5, <1>8, <1>10, <1>11, <1>12, <1>13, <1>14, <1>15, <1>16, <1>17, InstantKeeps
  <1>18. CASE epoch' = epoch + 1
    <2>1. PICK later \in Past : later[epoch + 1] = Now' /\ \A i \in 0 .. epoch : later[i] = was[i]
          BY <1>2, <1>10, PastGrows
    <2>2. epoch' \in Nat /\ epoch <= epoch' /\ later[epoch'] = Now'  BY <1>2, <1>18, <2>1
    <2> QED  BY <1>5, <1>8, <1>10, <1>11, <1>12, <1>13, <1>14, <1>16, <2>1, <2>2, InstantKeeps
  <1> QED  BY <1>5, <1>17, <1>18

LEMMA ShopChangesKeeps ==
    ASSUME DeskInv, QuotesInv, NEW h \in Handlers, ShopChanges(h)
    PROVE  QuotesInv'
  <1>1. /\ Begin(h, "change", <<>>, {}) /\ epoch' = epoch + 1 /\ basket' = basket
        /\ offer' = offer /\ lastCharge' = lastCharge
        BY Zenon DEF ShopChanges
  <1>2. /\ tag' \in [cost : Tags, listed : BOOLEAN, units : Int, reserved : Int]
        /\ buyer' \in [access : BOOLEAN, code : BOOLEAN, balance : Int, held : Int]
    <2>1. /\ tag \in [cost : Tags, listed : BOOLEAN, units : Int, reserved : Int]
          /\ buyer \in [access : BOOLEAN, code : BOOLEAN, balance : Int, held : Int]
          BY DEF QuotesInv, QuotesType
    <2>2. CASE /\ \E t \in Tags, listed \in BOOLEAN : tag' = [tag EXCEPT !.cost = t, !.listed = listed]
               /\ UNCHANGED buyer
          BY <2>1, <2>2
    <2>3. CASE /\ buyer' \in {[buyer EXCEPT !.access = ~ @], [buyer EXCEPT !.code = FALSE],
                              [buyer EXCEPT !.balance = @ + 1]}
               /\ UNCHANGED tag
      <3>1. buyer' = [buyer EXCEPT !.access = ~ @] => buyer' \in [access : BOOLEAN, code : BOOLEAN, balance : Int, held : Int]
            BY <2>1
      <3>2. buyer' = [buyer EXCEPT !.code = FALSE] => buyer' \in [access : BOOLEAN, code : BOOLEAN, balance : Int, held : Int]
            BY <2>1
      <3>3. buyer' = [buyer EXCEPT !.balance = @ + 1] => buyer' \in [access : BOOLEAN, code : BOOLEAN, balance : Int, held : Int]
            BY <2>1
      <3> QED  BY <2>1, <2>3, <3>1, <3>2, <3>3
    <2> QED  BY <2>2, <2>3, Zenon DEF ShopChanges
  <1>3. epoch \in Nat /\ QuotesType  BY DEF QuotesInv, QuotesType
  <1>4. QuotesType'  BY <1>1, <1>2, <1>3 DEF QuotesType
  <1>5. Restated
    <2>1. ASSUME NEW b \in Baskets, basket[b] # NoBasket
          PROVE  basket'[b] = [basket[b] EXCEPT !.state = basket'[b].state]
      <3>1. basket[b] \in BasketRow /\ basket'[b] = basket[b]  BY <1>1, <1>3, <2>1 DEF QuotesType
      <3> QED  BY <3>1 DEF BasketRow
    <2> QED  BY <1>1, <2>1 DEF Restated
  <1>6. OpenBaskets' = OpenBaskets  BY <1>1 DEF OpenBaskets
  <1>7. SavesAsSaid'  BY <1>1, SavesStays DEF QuotesInv
  <1>8. PICK was \in Past : PastTrue(was)  BY DEF QuotesInv
  <1>9. PICK later \in Past : later[epoch + 1] = Now' /\ \A i \in 0 .. epoch : later[i] = was[i]
        BY <1>3, <1>4, <1>8, PastGrows
  <1>10. epoch' \in Nat /\ epoch <= epoch' /\ later[epoch'] = Now'  BY <1>1, <1>3, <1>9
  <1> QED  BY <1>1, <1>4, <1>5, <1>6, <1>7, <1>8, <1>9, <1>10, InstantKeeps

-----------------------------------------------------------------------------
(* A checkout begins.                                                        *)
LEMMA FindIs == <<"find">> \in CheckPlans /\ Head(<<"find">>) = "find" /\ <<"find">> # <<>>
  BY DEF CheckPlans

LEMMA AskToPayKeeps ==
    ASSUME DeskInv, QuotesInv, NEW h \in Handlers, AskToPay(h)
    PROVE  QuotesInv'
  <1>1. PICK rate \in {AnyRate, offer.rate} :
            /\ Begin(h, "checkout", IF Unchanged(offer.n) THEN <<"find">> ELSE <<>>,
                     [offer |-> offer, rate |-> rate])
            /\ offer # NoOffer /\ UNCHANGED quotes
        BY Zenon DEF AskToPay
  <1> DEFINE plan == IF Unchanged(offer.n) THEN <<"find">> ELSE <<>>
             read == [offer |-> offer, rate |-> rate]
  <1>2. Begin(h, "checkout", plan, read)  BY <1>1
  <1>3. plan = <<"find">> \/ plan = <<>>  OBVIOUS
  <1>4. read.offer = offer /\ read.rate = rate  OBVIOUS
  <1> HIDE DEF plan, read
  <1>5. /\ OthersStay(h) /\ ~ Busy(h) /\ crossed \subseteq crossed' /\ crashed' = crashed
        /\ (Busy(h)' => req'[h].todo = plan /\ req'[h].kind = "checkout" /\ req'[h].read = read)
        /\ (Busy(h)' <=> plan # <<>>)
        /\ \A g \in Handlers : Busy(g) => {"checkout", req[g].kind} \in crossed'
        BY <1>2, AfterBegin
  <1>6. /\ Restated /\ QuotesType' /\ OpenBaskets' = OpenBaskets /\ Now' = Now
        /\ \A b \in Baskets : basket'[b].state = basket[b].state
        /\ offer' = offer /\ lastCharge' = lastCharge /\ epoch' = epoch
        BY <1>1, NothingNew DEF QuotesInv
  <1>7. offer \in OfferRow /\ rate \in FareRow /\ offer.at \in Nat
    <2>1. offer \in OfferRow /\ AnyRate \in FareRow
          BY <1>1 DEF QuotesInv, QuotesType, AnyRate, FareRow
    <2> QED  BY <2>1 DEF OfferRow
  <1>8. Busy(h)' => req'[h].todo = <<"find">> /\ Stage(h)' = "find"  BY <1>3, <1>5, FindIs DEF Stage
  <1>9. Checking(h)' => CheckRead(h)' /\ ~ Writing(h)'
    <2>1. ASSUME Busy(h)' PROVE CheckRead(h)' /\ ~ Writing(h)'
      <3>1. req'[h].kind = "checkout" /\ req'[h].todo \in CheckPlans /\ Stage(h)' = "find"
            /\ req'[h].read.offer \in OfferRow /\ req'[h].read.rate \in FareRow
            BY <1>4, <1>5, <1>7, <1>8, <2>1, FindIs
      <3> QED  BY <3>1 DEF CheckRead, Writing
    <2> QED  BY <2>1 DEF Checking
  <1>10. QuotesRead' /\ QuotesPriced' /\ QuotesPaid'
        BY <1>5, <1>6, <1>9, RestatedKeeps DEF QuotesInv
  <1>11. QuotesOpen'
    <2>1. SUFFICES ASSUME InTurn({"checkout"})'
                   PROVE  /\ Quiet({"checkout"})' => AtMostOne(OpenBaskets)'
                          /\ \A g \in Handlers : OpenRight(g)'
          BY QuotesOpenIs DEF QuotesOpen, OpenRight
    <2>2. InTurn({"checkout"}) /\ {"checkout", "checkout"} \notin crossed'
          BY <1>5, <2>1, TurnsWere DEF InTurn, Apart
    <2>3. ASSUME NEW g \in Handlers, Busy(g) PROVE req[g].kind # "checkout"  BY <1>5, <2>2, <2>3
    <2>4. Quiet({"checkout"})  BY <2>3 DEF Quiet, Doing
    <2>5. AtMostOne(OpenBaskets)  BY <2>2, <2>4, QuotesOpenIs DEF QuotesInv
    <2>6. AtMostOne(OpenBaskets)'  BY <1>6, <2>5 DEF AtMostOne
    <2>7. ASSUME NEW g \in Handlers, g # h, Checking(g)' PROVE FALSE
      <3>1. Checking(g)  BY <1>5, <2>7, CheckingStays
      <3> QED  BY <2>3, <3>1 DEF Checking, QuotesInv, QuotesRead, CheckRead
    <2>8. OpenRight(h)'  BY <1>8, <2>6 DEF OpenRight, Checking
    <2> QED  BY <2>6, <2>7, <2>8 DEF OpenRight
  <1>12. PICK was \in Past : PastTrue(was)  BY DEF QuotesInv
  <1>13. PastTrue(was)'
    <2>1. RowsKeep  BY <1>6, RestatedRows DEF QuotesInv
    <2>2. \A b \in Baskets : basket[b] = NoBasket => basket'[b] = NoBasket  BY <1>6 DEF Restated
    <2>3. epoch \in Nat /\ was[epoch] = Now /\ OfferTrue(offer, was) /\ offer.at <= epoch
          BY <1>1, <1>12 DEF QuotesInv, QuotesType, PastTrue
    <2>4. Checking(h)' => CheckTrue(h, was)'
      <3>1. ASSUME Busy(h)' PROVE CheckTrue(h, was)'
        <4>1. Stage(h)' = "find" /\ req'[h].read.offer = offer  BY <1>4, <1>5, <1>8, <3>1
        <4> QED  BY <1>6, <2>3, <4>1 DEF CheckTrue
      <3> QED  BY <3>1 DEF Checking
    <2>5. epoch' \in Nat /\ epoch <= epoch' /\ was[epoch'] = Now'  BY <1>6, <2>3
    <2>6. QuotesType /\ QuotesRead  BY DEF QuotesInv
    <2> QED  BY <1>5, <1>6, <1>12, <2>1, <2>2, <2>4, <2>5, <2>6, PastGoes
  <1>14. (\E before \in Past : PastTrue(before))'  BY <1>12, <1>13 DEF Past
  <1>15. SavesAsSaid'  BY <1>6, SavesStays DEF QuotesInv
  <1> QED  BY <1>6, <1>10, <1>11, <1>14, <1>15 DEF QuotesInv

-----------------------------------------------------------------------------
(* An intent of the same signature is used again: it is what was offered.      *)
LEMMA UseAgainKeeps ==
    ASSUME DeskInv, QuotesInv, NEW h \in Handlers, Concerns(h, QuoteKinds), UseAgain(h)
    PROVE  QuotesInv'
  <1>1. PICK b \in OpenBaskets :
            /\ SignatureOfRow(b) = SignatureOf(req[h].read)
            /\ GoOn(h, <<"oust", "charge">>, [offer |-> req[h].read.offer, basket |-> b])
            /\ At(h, "find") /\ UNCHANGED quotes
        BY Zenon DEF UseAgain
  <1>2. Checking(h) /\ Stage(h) = "find" /\ Busy(h)  BY <1>1, AtStage DEF Checking
  <1>3. b \in Baskets /\ basket[b] # NoBasket /\ basket[b] \in BasketRow
        BY OpenIs DEF OpenBaskets, QuotesInv, QuotesType
  <1>4. /\ Restated /\ QuotesType' /\ OpenBaskets' = OpenBaskets /\ Now' = Now
        /\ \A c \in Baskets : basket'[c].state = basket[c].state
        /\ offer' = offer /\ lastCharge' = lastCharge /\ epoch' = epoch /\ basket' = basket
        BY <1>1, NothingNew DEF QuotesInv, quotes
  <1>5. PICK o : o = req[h].read.offer  OBVIOUS
  <1>6. o \in OfferRow /\ o.at \in Nat  BY <1>2, <1>5 DEF QuotesInv, QuotesRead, CheckRead, OfferRow
  <1>7. /\ OthersStay(h) /\ Busy(h)' /\ req'[h].todo = <<"oust", "charge">>
        /\ req'[h].kind = req[h].kind /\ req'[h].read = [offer |-> o, basket |-> b]
    <2> DEFINE plan == <<"oust", "charge">>
               read == [offer |-> o, basket |-> b]
    <2>1. plan # <<>> /\ GoOn(h, plan, read)  BY <1>1, <1>5
    <2> HIDE DEF plan, read
    <2>2. /\ OthersStay(h) /\ Busy(h)' /\ req'[h].todo = plan
          /\ req'[h].kind = req[h].kind /\ req'[h].read = read
          BY <1>2, <2>1, AfterGoOn
    <2> QED  BY <2>2 DEF plan, read
  <1>8. req'[h].read.offer = o /\ req'[h].read.basket = b /\ Stage(h)' = "oust"
        /\ req'[h].todo \in CheckPlans /\ req'[h].kind = "checkout"
    <2>1. Head(<<"oust", "charge">>) = "oust" /\ <<"oust", "charge">> \in CheckPlans
          BY DEF CheckPlans
    <2>2. req[h].kind = "checkout"  BY <1>2 DEF QuotesInv, QuotesRead, CheckRead
    <2> QED  BY <1>7, <2>1, <2>2 DEF Stage
  <1>9. CheckRead(h)' /\ ~ Writing(h)'  BY <1>3, <1>4, <1>6, <1>8 DEF CheckRead, Writing
  <1>10. OpenRight(h) => OpenRight(h)'
    <2>1. ASSUME OpenRight(h) PROVE AtMostOne(OpenBaskets' \ {b})
          BY <1>2, <1>4, <2>1, AtMostOneOf DEF OpenRight
    <2> QED  BY <1>8, <2>1 DEF OpenRight, AtMostOne
  <1>11. ASSUME NEW was \in Past, PastTrue(was) PROVE CheckTrue(h, was)'
    <2>1. OfferTrue(o, was) /\ o.at <= epoch  BY <1>2, <1>5, <1>11 DEF PastTrue, CheckTrue
    <2>2. RowTrue(basket[b], was)  BY <1>3, <1>11 DEF PastTrue
    <2>3. basket[b].n = o.n /\ (basket[b].dues > 0) = o.wish.joins /\ basket[b].shared = o.wish.code
          BY <1>1, <1>5 DEF SignatureOfRow, SignatureOf
    <2>4. /\ o.wish.joins \in BOOLEAN /\ o.wish.code \in BOOLEAN
          /\ was[o.at].access \in BOOLEAN /\ basket[b].dues \in {0, Dues}
          BY <1>3, <1>6, QuotesAssumption DEF OfferRow, Past, BasketRow
    <2>5. Fits(o, basket[b], was)
      <3>1. ASSUME basket[b].from = o.at
            PROVE  /\ JoinsThen(o, was[o.at]) <=> basket[b].dues > 0
                   /\ CodeThen(o, was[o.at]) <=> basket[b].shared
        <4>1. /\ was[o.at].access => basket[b].dues = 0 /\ ~ basket[b].shared
              /\ basket[b].dues > 0 => ~ basket[b].shared
              BY <1>6, <2>2, <3>1 DEF RowTrue
        <4>2. basket[b].dues = 0 => ~ (basket[b].dues > 0)  OBVIOUS
        <4> QED  BY <2>3, <2>4, <4>1, <4>2 DEF JoinsThen, CodeThen
      <3> QED  BY <2>3, <3>1 DEF Fits
    <2> QED  BY <1>4, <1>8, <2>1, <2>5 DEF CheckTrue
  <1>12. GoOn(h, <<"oust", "charge">>, [offer |-> req[h].read.offer, basket |-> b])  BY <1>1
  <1>13. OpenBaskets' \subseteq OpenBaskets /\ UNCHANGED <<offer, lastCharge, epoch>>
        /\ \A c \in Baskets : basket'[c].state = "CONSUMED" => basket[c].state = "CONSUMED"
        BY <1>4
  <1> QED  BY <1>2, <1>4, <1>7, <1>9, <1>10, <1>11, <1>12, <1>13, CheckKeeps

(* Who buys is read before the intent is made.                               *)
LEMMA MakeAnewKeeps ==
    ASSUME DeskInv, QuotesInv, NEW h \in Handlers, Concerns(h, QuoteKinds), MakeAnew(h)
    PROVE  QuotesInv'
  <1> DEFINE w == req[h].read.offer.wish
             plan == <<"book", "fare", "apply", "amount", "oust", "charge">>
             read == [offer |-> req[h].read.offer, rate |-> req[h].read.rate,
                      access |-> Entitled(w), shared |-> UsesCode(w), at |-> epoch,
                      dues |-> IF Joins(w) THEN Dues ELSE 0]
  <1>1. At(h, "find") /\ (GoOn(h, plan, read) \/ GoOn(h, <<>>, {})) /\ UNCHANGED quotes
        BY Zenon DEF MakeAnew, Stop
  <1>2. Checking(h) /\ Stage(h) = "find" /\ Busy(h)  BY <1>1, AtStage DEF Checking
  <1>4. /\ Restated /\ QuotesType' /\ OpenBaskets' = OpenBaskets /\ Now' = Now
        /\ \A c \in Baskets : basket'[c].state = basket[c].state
        /\ offer' = offer /\ lastCharge' = lastCharge /\ epoch' = epoch /\ basket' = basket
        BY <1>1, NothingNew DEF QuotesInv, quotes
  <1>13. OpenBaskets' \subseteq OpenBaskets /\ UNCHANGED <<offer, lastCharge, epoch>>
        /\ \A c \in Baskets : basket'[c].state = "CONSUMED" => basket[c].state = "CONSUMED"
        BY <1>4
  <1>5. OpenRight(h) => AtMostOne(OpenBaskets)'  BY <1>2, <1>4 DEF OpenRight, AtMostOne
  <1>6. CASE GoOn(h, <<>>, {})
    <2>1. ~ Busy(h)'  BY <1>2, <1>6, AfterGoOn
    <2>2. OpenRight(h)'  BY <2>1 DEF OpenRight, Checking
    <2> QED  BY <1>2, <1>4, <1>5, <1>6, <1>13, <2>1, <2>2, CheckKeeps
  <1>7. CASE GoOn(h, plan, read)
    <2>1. plan # <<>> /\ plan \in CheckPlans /\ Head(plan) = "book"  BY DEF CheckPlans
    <2>2. PICK o, rate : o = req[h].read.offer /\ rate = req[h].read.rate  OBVIOUS
    <2>3. /\ read.offer = o /\ read.rate = rate /\ read.access = Entitled(w) /\ read.shared = UsesCode(w)
          /\ read.at = epoch /\ read.dues = (IF Joins(w) THEN Dues ELSE 0) /\ w = o.wish
          BY <2>2
    <2>4. /\ w.joins \in BOOLEAN /\ w.code \in BOOLEAN /\ o \in OfferRow /\ rate \in FareRow
      <3>1. o \in OfferRow /\ rate \in FareRow  BY <1>2, <2>2 DEF QuotesInv, QuotesRead, CheckRead
      <3> QED  BY <2>3, <3>1, QuotesAssumption DEF OfferRow
    <2> HIDE DEF plan, read, w
    <2>5. Busy(h)' /\ req'[h].todo = plan /\ req'[h].kind = req[h].kind /\ req'[h].read = read
          BY <1>2, <1>7, <2>1, AfterGoOn
    <2>6. buyer.access \in BOOLEAN /\ epoch \in Nat  BY DEF QuotesInv, QuotesType
    <2>7. Joins(w) \in BOOLEAN /\ UsesCode(w) \in BOOLEAN /\ Entitled(w) \in BOOLEAN
          BY <2>4, <2>6 DEF Joins, UsesCode, Entitled
    <2>8. req[h].kind = "checkout" /\ Stage(h)' = "book"
          BY <1>2, <2>1, <2>5 DEF QuotesInv, QuotesRead, CheckRead, Stage
    <2>9. CheckRead(h)' /\ ~ Writing(h)'
          BY <2>1, <2>3, <2>4, <2>5, <2>6, <2>7, <2>8 DEF CheckRead, Writing
    <2>10. OpenRight(h) => OpenRight(h)'  BY <1>5, <2>8 DEF OpenRight
    <2>11. ASSUME NEW was \in Past, PastTrue(was) PROVE CheckTrue(h, was)'
      <3>1. OfferTrue(o, was) /\ o.at <= epoch  BY <1>2, <2>2, <2>11 DEF PastTrue, CheckTrue
      <3>2. was[epoch].access = buyer.access  BY <2>11 DEF PastTrue, Now
      <3>3. JoinsThen(o, was[epoch]) = Joins(w) /\ CodeThen(o, was[epoch]) = UsesCode(w)
            BY <2>3, <2>4, <2>6, <3>2 DEF JoinsThen, CodeThen, Joins, UsesCode
      <3>4. BuyerTrue(read, was)  BY <2>3, <2>6, <2>7, <3>2, <3>3, Zenon DEF BuyerTrue, Entitled
      <3>5. read.at <= epoch  BY <2>3, <2>6
      <3> QED  BY <1>4, <2>3, <2>5, <2>8, <3>1, <3>4, <3>5 DEF CheckTrue
    <2> QED  BY <1>2, <1>4, <1>7, <1>13, <2>5, <2>9, <2>10, <2>11, CheckKeeps
  <1> QED  BY <1>1, <1>6, <1>7

-----------------------------------------------------------------------------
(* A checkout that stops                                                     *)
LEMMA CheckStops ==
    ASSUME DeskInv, NEW h \in Handlers, Checking(h), Stop(h)
    PROVE  /\ GoOn(h, <<>>, {}) /\ OthersStay(h) /\ ~ Busy(h)' /\ ~ Checking(h)' /\ OpenRight(h)'
           /\ crossed' = crossed /\ crashed' = crashed
  <1>1. GoOn(h, <<>>, {}) /\ Busy(h)  BY DEF Stop, Checking
  <1>2. OthersStay(h) /\ ~ Busy(h)' /\ crossed' = crossed /\ crashed' = crashed  BY <1>1, AfterGoOn
  <1> QED  BY <1>1, <1>2 DEF Checking, OpenRight


(* A checkout that gives its basket up                                       *)
LEMMA GiveUpKeeps ==
    ASSUME DeskInv, QuotesInv, NEW h \in Handlers, Checking(h),
           Stage(h) \in {"fare", "apply", "amount", "oust"}, Stop(h),
           Given(req[h].read.basket, "FAILED"), UNCHANGED <<offer, lastCharge, epoch>>
    PROVE  QuotesInv'
  <1>1. GoOn(h, <<>>, {}) /\ OthersStay(h) /\ ~ Busy(h)' /\ OpenRight(h)'  BY CheckStops
  <1>2. PICK b : b = req[h].read.basket  OBVIOUS
  <1>3. b \in Baskets /\ basket[b] # NoBasket  BY <1>2 DEF QuotesInv, QuotesRead, CheckRead
  <1>4. /\ Restated /\ QuotesType' /\ OpenBaskets' \subseteq OpenBaskets \ {b} /\ Now' = Now
        /\ \A c \in Baskets : basket'[c].state = "CONSUMED" => basket[c].state = "CONSUMED"
        BY <1>2, <1>3, GivenDoes DEF QuotesInv
  <1>5. OpenRight(h) => AtMostOne(OpenBaskets)'
    <2>1. ASSUME OpenRight(h) PROVE AtMostOne(OpenBaskets')
          BY <1>2, <1>4, <2>1, AtMostOneOf DEF OpenRight
    <2> QED  BY <2>1 DEF AtMostOne
  <1>6. OpenBaskets' \subseteq OpenBaskets  BY <1>4
  <1> QED  BY <1>1, <1>4, <1>5, <1>6, CheckKeeps

(* A checkout that goes on to its next stage with its basket                 *)
LEMMA NextStage ==
    ASSUME DeskInv, QuotesInv, NEW h \in Handlers, Checking(h),
           Stage(h) \in {"fare", "apply", "amount", "oust"}, NEW read, GoOn(h, Tail(req[h].todo), read)
    PROVE  /\ OthersStay(h) /\ Busy(h)' /\ req'[h].todo \in CheckPlans /\ req'[h].kind = "checkout"
           /\ req'[h].read = read /\ crossed' = crossed /\ crashed' = crashed
           /\ Stage(h) = "fare" => Stage(h)' = "apply"
           /\ Stage(h) = "apply" => Stage(h)' = "amount"
           /\ Stage(h) = "amount" => Stage(h)' = "oust"
           /\ Stage(h) = "oust" => Stage(h)' = "charge"
  <1>1. req[h].todo \in CheckPlans /\ req[h].kind = "checkout" /\ Busy(h)
        BY DEF QuotesInv, QuotesRead, CheckRead, Checking
  <1>2. PICK plan : plan = Tail(req[h].todo)  OBVIOUS
  <1>3. /\ plan \in CheckPlans
        /\ Stage(h) = "fare" => Head(plan) = "apply"
        /\ Stage(h) = "apply" => Head(plan) = "amount"
        /\ Stage(h) = "amount" => Head(plan) = "oust"
        /\ Stage(h) = "oust" => Head(plan) = "charge"
        BY <1>1, <1>2, CheckStages DEF Stage
  <1>4. plan # <<>> /\ GoOn(h, plan, read)  BY <1>2, <1>3, CheckStages
  <1>5. /\ OthersStay(h) /\ Busy(h)' /\ req'[h].todo = plan /\ req'[h].kind = req[h].kind
        /\ req'[h].read = read /\ crossed' = crossed /\ crashed' = crashed
        BY <1>1, <1>4, AfterGoOn
  <1> QED  BY <1>1, <1>3, <1>5 DEF Stage

(* that it fits what was offered, and that no other is open, it still holds.  *)
LEMMA StageKeeps ==
    ASSUME DeskInv, QuotesInv, NEW h \in Handlers, Checking(h), Stage(h) \in {"fare", "apply", "amount"},
           NEW read, GoOn(h, Tail(req[h].todo), read),
           read.offer = req[h].read.offer, read.basket = req[h].read.basket,
           RowsKeep, OpenBaskets' = OpenBaskets, epoch' = epoch
    PROVE  /\ OpenRight(h) => OpenRight(h)'
           /\ \A was \in Past : PastTrue(was) => CheckTrue(h, was)'
  <1>1. /\ Stage(h)' \in {"apply", "amount", "oust"} /\ req'[h].read = read  BY NextStage
  <1>2. OpenRight(h) => OpenRight(h)'  BY <1>1 DEF OpenRight, AtMostOne
  <1>3. ASSUME NEW was \in Past, PastTrue(was) PROVE CheckTrue(h, was)'
    <2>1. PICK o, b : o = req[h].read.offer /\ b = req[h].read.basket  OBVIOUS
    <2>2. OfferTrue(o, was) /\ o.at <= epoch /\ Fits(o, basket[b], was)
          BY <1>3, <2>1 DEF PastTrue, CheckTrue
    <2>3. b \in Baskets /\ basket[b] # NoBasket  BY <2>1 DEF QuotesInv, QuotesRead, CheckRead
    <2>4. SameRow(basket[b], basket'[b])  BY <2>3 DEF RowsKeep
    <2>5. Fits(o, basket'[b], was)  BY <2>2, <2>4, FitsStill
    <2> QED  BY <1>1, <2>1, <2>2, <2>5 DEF CheckTrue
  <1> QED  BY <1>2, <1>3

LEMMA AskRatesKeeps ==
    ASSUME DeskInv, QuotesInv, NEW h \in Handlers, Concerns(h, QuoteKinds), AskRates(h)
    PROVE  QuotesInv'
  <1>1. Checking(h) /\ Stage(h) = "fare"  BY AtStage DEF AskRates
  <1>2. offer' = offer /\ lastCharge' = lastCharge /\ epoch' = epoch  BY DEF AskRates
  <1>3. PICK source \in Carriers :
            \/ /\ Resolves(Rates(source, req[h].read.access), req[h].read.rate)
               /\ GoOn(h, Tail(req[h].todo),
                       [offer |-> req[h].read.offer, basket |-> req[h].read.basket, credit |-> 0,
                        rate |-> Selected(Rates(source, req[h].read.access), req[h].read.rate)])
               /\ UNCHANGED <<tag, buyer, basket>>
            \/ Stop(h) /\ Given(req[h].read.basket, "FAILED")
        BY Zenon DEF AskRates
  <1>4. CASE Stop(h) /\ Given(req[h].read.basket, "FAILED")  BY <1>1, <1>2, <1>4, GiveUpKeeps
  <1>5. CASE /\ Resolves(Rates(source, req[h].read.access), req[h].read.rate)
             /\ GoOn(h, Tail(req[h].todo),
                     [offer |-> req[h].read.offer, basket |-> req[h].read.basket, credit |-> 0,
                      rate |-> Selected(Rates(source, req[h].read.access), req[h].read.rate)])
             /\ UNCHANGED <<tag, buyer, basket>>
    <2>1. PICK o, b : o = req[h].read.offer /\ b = req[h].read.basket  OBVIOUS
    <2>2. PICK rates, wanted : rates = Rates(source, req[h].read.access) /\ wanted = req[h].read.rate
          OBVIOUS
    <2>3. PICK rate : rate = Selected(rates, wanted)  OBVIOUS
    <2> DEFINE read == [offer |-> o, basket |-> b, credit |-> 0, rate |-> rate]
    <2>4. GoOn(h, Tail(req[h].todo), read)  BY <1>5, <2>1, <2>2, <2>3
    <2>5. read.offer = o /\ read.basket = b /\ read.credit = 0 /\ read.rate = rate  OBVIOUS
    <2>6. o \in OfferRow /\ b \in Baskets /\ basket[b] # NoBasket /\ wanted \in FareRow
          /\ req[h].read.access \in BOOLEAN
          BY <1>1, <2>1, <2>2 DEF QuotesInv, QuotesRead, CheckRead
    <2>7. rate \in FareRow
      <3>1. RateSet(rates) \subseteq FareRow /\ rates[1] \in RateSet(rates)
            BY <2>2, <2>6, TierRates
      <3> QED  BY <2>3, <2>6, <3>1 DEF Selected
    <2>8. /\ Restated /\ QuotesType' /\ OpenBaskets' = OpenBaskets /\ Now' = Now
          /\ \A c \in Baskets : basket'[c].state = basket[c].state /\ basket' = basket
      <3>1. UNCHANGED quotes  BY <1>2, <1>5 DEF quotes
      <3> QED  BY <1>5, <3>1, NothingNew DEF QuotesInv
    <2> HIDE DEF read
    <2>9. /\ Busy(h)' /\ Stage(h)' = "apply" /\ req'[h].read = read /\ req'[h].todo \in CheckPlans
          /\ req'[h].kind = "checkout"
          BY <1>1, <2>4, NextStage
    <2>10. CheckRead(h)'
      <3>1. read = [offer |-> read.offer, basket |-> read.basket, credit |-> read.credit, rate |-> read.rate]
            BY DEF read
      <3> QED  BY <2>5, <2>6, <2>7, <2>8, <2>9, <3>1 DEF CheckRead
    <2>11. RowsKeep  BY <2>8, RestatedRows DEF QuotesInv
    <2>12. (OpenRight(h) => OpenRight(h)') /\ \A was \in Past : PastTrue(was) => CheckTrue(h, was)'
          BY <1>1, <1>2, <2>1, <2>4, <2>5, <2>8, <2>11, StageKeeps
    <2>13. Writing(h) /\ req'[h].read.basket = req[h].read.basket
          BY <1>1, <2>1, <2>5, <2>9 DEF Writing
    <2>14. OpenBaskets' \subseteq OpenBaskets /\ UNCHANGED <<offer, lastCharge, epoch>>
          /\ \A c \in Baskets : basket'[c].state = "CONSUMED" => basket[c].state = "CONSUMED"
          BY <1>2, <2>8
    <2> QED  BY <1>1, <2>4, <2>8, <2>9, <2>10, <2>12, <2>13, <2>14, CheckKeeps
  <1> QED  BY <1>3, <1>4, <1>5

LEMMA ApplyCreditKeeps ==
    ASSUME DeskInv, QuotesInv, NEW h \in Handlers, Concerns(h, QuoteKinds), ApplyCredit(h)
    PROVE  QuotesInv'
  <1>1. Checking(h) /\ Stage(h) = "apply"  BY AtStage DEF ApplyCredit
  <1>2. offer' = offer /\ lastCharge' = lastCharge /\ epoch' = epoch  BY DEF ApplyCredit
  <1>3. PICK credit : credit = Min({req[h].read.offer.wish.credit, Max({0, buyer.balance - buyer.held})})
        OBVIOUS
  <1>4. \/ Stop(h) /\ Given(req[h].read.basket, "FAILED")
        \/ /\ buyer' = [buyer EXCEPT !.held = @ + credit]
           /\ GoOn(h, Tail(req[h].todo), [req[h].read EXCEPT !.credit = credit])
           /\ UNCHANGED <<tag, basket>>
        BY <1>3, Zenon DEF ApplyCredit
  <1>5. CASE Stop(h) /\ Given(req[h].read.basket, "FAILED")  BY <1>1, <1>2, <1>5, GiveUpKeeps
  <1>6. CASE /\ buyer' = [buyer EXCEPT !.held = @ + credit]
             /\ GoOn(h, Tail(req[h].todo), [req[h].read EXCEPT !.credit = credit])
             /\ UNCHANGED <<tag, basket>>
    <2>1. PICK o, b, rate : o = req[h].read.offer /\ b = req[h].read.basket /\ rate = req[h].read.rate
          OBVIOUS
    <2>2. /\ o \in OfferRow /\ b \in Baskets /\ basket[b] # NoBasket /\ rate \in FareRow
          /\ req[h].read = [offer |-> req[h].read.offer, basket |-> req[h].read.basket,
                            credit |-> req[h].read.credit, rate |-> req[h].read.rate]
          BY <1>1, <2>1 DEF QuotesInv, QuotesRead, CheckRead
    <2> DEFINE read == [offer |-> o, basket |-> b, credit |-> credit, rate |-> rate]
    <2>3. [req[h].read EXCEPT !.credit = credit] = read  BY <2>1, <2>2
    <2>4. GoOn(h, Tail(req[h].todo), read)  BY <1>6, <2>3
    <2>5. read.offer = o /\ read.basket = b /\ read.credit = credit /\ read.rate = rate  OBVIOUS
    <2>6. buyer.balance \in Int /\ buyer.held \in Int /\ o.wish.credit \in Int
          BY <2>2, QuotesAssumption DEF QuotesInv, QuotesType, OfferRow
    <2>7. credit \in Int
      <3>1. PICK free : free = Max({0, buyer.balance - buyer.held})  OBVIOUS
      <3>2. free \in Int  BY <2>6, <3>1, MaxOfTwo
      <3> QED  BY <1>3, <2>1, <2>6, <3>1, <3>2, MinOfTwo
    <2>8. /\ buyer' \in [access : BOOLEAN, code : BOOLEAN, balance : Int, held : Int]
          /\ buyer'.access = buyer.access /\ QuotesType
          BY <1>6, <2>7 DEF QuotesInv, QuotesType
    <2>9. QuotesType' /\ OpenBaskets' = OpenBaskets /\ Now' = Now /\ basket' = basket
          BY <1>2, <1>6, <2>8 DEF QuotesType, OpenBaskets, Now
    <2>10. Restated
      <3>1. ASSUME NEW c \in Baskets, basket[c] # NoBasket
            PROVE  basket'[c] = [basket[c] EXCEPT !.state = basket'[c].state]
        <4>1. basket[c] \in BasketRow /\ basket'[c] = basket[c]  BY <2>8, <2>9, <3>1 DEF QuotesType
        <4> QED  BY <4>1 DEF BasketRow
      <3> QED  BY <2>9, <3>1 DEF Restated
    <2> HIDE DEF read
    <2>11. /\ Busy(h)' /\ Stage(h)' = "amount" /\ req'[h].read = read /\ req'[h].todo \in CheckPlans
          /\ req'[h].kind = "checkout"
          BY <1>1, <2>4, NextStage
    <2>12. CheckRead(h)'
      <3>1. read = [offer |-> read.offer, basket |-> read.basket, credit |-> read.credit, rate |-> read.rate]
            BY DEF read
      <3> QED  BY <2>2, <2>5, <2>7, <2>9, <2>11, <3>1 DEF CheckRead
    <2>13. RowsKeep  BY <2>10, RestatedRows DEF QuotesInv
    <2>14. (OpenRight(h) => OpenRight(h)') /\ \A was \in Past : PastTrue(was) => CheckTrue(h, was)'
          BY <1>1, <1>2, <2>1, <2>4, <2>5, <2>9, <2>13, StageKeeps
    <2>15. Writing(h) /\ req'[h].read.basket = req[h].read.basket
          BY <1>1, <2>1, <2>5, <2>11 DEF Writing
    <2>16. OpenBaskets' \subseteq OpenBaskets /\ UNCHANGED <<offer, lastCharge, epoch>>
          /\ \A c \in Baskets : basket'[c].state = "CONSUMED" => basket[c].state = "CONSUMED"
          BY <1>2, <2>9
    <2> QED  BY <1>1, <2>4, <2>9, <2>10, <2>11, <2>12, <2>14, <2>15, <2>16, CheckKeeps
  <1> QED  BY <1>4, <1>5, <1>6

-----------------------------------------------------------------------------
(* The others are ousted one after another.                                  *)
LEMMA OustKeeps ==
    ASSUME DeskInv, QuotesInv, NEW h \in Handlers, Concerns(h, QuoteKinds), Oust(h)
    PROVE  QuotesInv'
  <1>1. Checking(h) /\ Stage(h) = "oust"  BY AtStage DEF Oust
  <1>2. PICK read : read = req[h].read  OBVIOUS
  <1>3. /\ read.offer \in OfferRow /\ read.basket \in Baskets /\ basket[read.basket] # NoBasket
        BY <1>1, <1>2 DEF QuotesInv, QuotesRead, CheckRead
  <1>4. CASE OpenBaskets \ {read.basket} = {} /\ Proceed(h) /\ UNCHANGED quotes
    <2>1. GoOn(h, Tail(req[h].todo), read)  BY <1>2, <1>4 DEF Proceed
    <2>2. /\ Busy(h)' /\ Stage(h)' = "charge" /\ req'[h].read = read /\ req'[h].todo \in CheckPlans
          /\ req'[h].kind = "checkout"
          BY <1>1, <2>1, NextStage
    <2>3. /\ Restated /\ QuotesType' /\ OpenBaskets' = OpenBaskets /\ Now' = Now
          /\ \A c \in Baskets : basket'[c].state = basket[c].state
          /\ offer' = offer /\ lastCharge' = lastCharge /\ epoch' = epoch /\ basket' = basket
          BY <1>4, NothingNew DEF QuotesInv, quotes
    <2>4. CheckRead(h)' /\ ~ Writing(h)'  BY <1>3, <2>2, <2>3 DEF CheckRead, Writing
    <2>5. OpenRight(h)'  BY <1>4, <2>2, <2>3 DEF OpenRight
    <2>6. ASSUME NEW was \in Past, PastTrue(was) PROVE CheckTrue(h, was)'
      <3>1. OfferTrue(read.offer, was) /\ read.offer.at <= epoch /\ Fits(read.offer, basket[read.basket], was)
            BY <1>1, <1>2, <2>6 DEF PastTrue, CheckTrue
      <3> QED  BY <2>2, <2>3, <3>1 DEF CheckTrue
    <2>7. OpenBaskets' \subseteq OpenBaskets /\ UNCHANGED <<offer, lastCharge, epoch>>
          /\ \A c \in Baskets : basket'[c].state = "CONSUMED" => basket[c].state = "CONSUMED"
          BY <2>3
    <2> QED  BY <1>1, <2>1, <2>2, <2>3, <2>4, <2>5, <2>6, <2>7, CheckKeeps
  <1>5. ASSUME NEW b \in OpenBaskets \ {read.basket}, Given(b, "FAILED"),
               UNCHANGED <<desk, offer, lastCharge, epoch>>
        PROVE  QuotesInv'
    <2>1. b \in Baskets /\ basket[b] # NoBasket  BY <1>5, OpenIs DEF OpenBaskets
    <2>2. /\ Restated /\ QuotesType' /\ OpenBaskets' \subseteq OpenBaskets \ {b} /\ Now' = Now
          /\ \A c \in Baskets : basket'[c].state = "CONSUMED" => basket[c].state = "CONSUMED"
          BY <1>5, <2>1, GivenDoes DEF QuotesInv
    <2>3. /\ req' = req /\ crossed' = crossed /\ crashed' = crashed /\ offer' = offer
          /\ lastCharge' = lastCharge /\ epoch' = epoch
          BY <1>5 DEF desk
    <2>4. OthersStay(h) /\ (Busy(h)' <=> Busy(h)) /\ (Checking(h)' <=> Checking(h)) /\ Stage(h)' = Stage(h)
          /\ (Writing(h)' <=> Writing(h))
          BY <2>3 DEF OthersStay, DeskInv, Busy, Checking, Stage, Writing
    <2>5. RowsKeep  BY <2>2, RestatedRows DEF QuotesInv
    <2>6. CheckRead(h)'  BY <1>1, <2>3, <2>5, CheckStays DEF QuotesInv, QuotesRead, RowsKeep
    <2>7. QuotesRead' /\ QuotesPriced' /\ QuotesPaid'
          BY <1>1, <2>2, <2>3, <2>4, <2>6, RestatedKeeps DEF QuotesInv, Writing
    <2>8. QuotesOpen'
      <3>1. OpenRight(h) => OpenRight(h)'  BY <2>2, <2>3, OpenStays
      <3>2. req'[h].kind = "checkout" /\ Busy(h)'  BY <1>1, <2>4, <2>6 DEF CheckRead, Checking
      <3> QED  BY <1>1, <2>3, <2>4, <3>1, <3>2, OpenGoes DEF QuotesInv
    <2>9. PICK was \in Past : PastTrue(was)  BY DEF QuotesInv
    <2>10. PastTrue(was)'
      <3>1. \A c \in Baskets : basket[c] = NoBasket => basket'[c] = NoBasket  BY <2>2 DEF Restated
      <3>2. epoch \in Nat /\ was[epoch] = Now /\ QuotesType /\ QuotesRead
            BY <2>9 DEF QuotesInv, QuotesType, PastTrue
      <3>3. CheckRead(h) /\ CheckTrue(h, was)  BY <1>1, <2>9 DEF QuotesInv, QuotesRead, PastTrue
      <3>4. epoch' \in Nat /\ epoch <= epoch' /\ was[epoch'] = Now' /\ req'[h] = req[h]
            BY <2>2, <2>3, <3>2
      <3>5. CheckTrue(h, was)'  BY <2>5, <3>2, <3>3, <3>4, CheckStill
      <3> QED  BY <2>3, <2>4, <2>5, <2>9, <3>1, <3>2, <3>4, <3>5, PastGoes
    <2>11. (\E before \in Past : PastTrue(before))'  BY <2>9, <2>10 DEF Past
    <2>12. SavesAsSaid'  BY <2>3, SavesStays DEF QuotesInv
    <2> QED  BY <2>2, <2>7, <2>8, <2>11, <2>12 DEF QuotesInv
  <1> QED  BY <1>2, <1>4, <1>5, Zenon DEF Oust

(* The amounts are those of the row's goods, and of the rate and the credit    *)
(* that were read.                                                           *)
LEMMA WriteAmountsKeeps ==
    ASSUME DeskInv, QuotesInv, NEW h \in Handlers, Concerns(h, QuoteKinds), WriteAmounts(h)
    PROVE  QuotesInv'
  <1>1. Checking(h) /\ Stage(h) = "amount"  BY AtStage DEF WriteAmounts
  <1>2. PICK read : read = req[h].read  OBVIOUS
  <1>3. PICK b : b = read.basket  OBVIOUS
  <1>4. /\ read.offer \in OfferRow /\ b \in Baskets /\ basket[b] # NoBasket /\ read.rate \in FareRow
        /\ read.credit \in Int
        BY <1>1, <1>2, <1>3 DEF QuotesInv, QuotesRead, CheckRead
  <1>5. QuotesType /\ basket[b] \in BasketRow /\ epoch \in Nat  BY <1>4 DEF QuotesInv, QuotesType
  <1>6. PICK row : row = basket[b]  OBVIOUS
  <1>7. PICK ship : ship = Waived(row.subtotal, read.rate.amount)  OBVIOUS
  <1>8. PICK total : total = Payable(row.subtotal, ship, row.dues, read.credit)  OBVIOUS
  <1> DEFINE new == [row EXCEPT !.rate = read.rate, !.shipping = ship, !.credit = read.credit,
                                !.done = TRUE, !.total = total]
  <1>9. basket' = [basket EXCEPT ![b] = new]
        BY <1>2, <1>3, <1>4, <1>6, <1>7, <1>8 DEF WriteAmounts, QuotesInv, QuotesType
  <1>10. tag' = tag /\ buyer' = buyer /\ offer' = offer /\ lastCharge' = lastCharge /\ epoch' = epoch
        BY DEF WriteAmounts
  <1>11. ship \in Int /\ total \in Int
    <2>1. row.subtotal \in Int /\ row.dues \in Int /\ read.rate.amount \in Int
          BY <1>4, <1>5, <1>6, DuesInt DEF BasketRow, FareRow
    <2>2. ship \in Int  BY <1>7, <2>1, WaivedInt
    <2>3. total \in Nat  BY <1>4, <1>8, <2>1, <2>2, PayableIs
    <2> QED  BY <2>2, <2>3
  <1>12. /\ new \in BasketRow /\ SameRow(row, new) /\ new.state = row.state /\ new.charge = row.charge
         /\ new.done /\ new.rate = read.rate /\ new.shipping = ship /\ new.credit = read.credit
         /\ new.total = total
        BY <1>4, <1>5, <1>6, <1>11 DEF BasketRow, SameRow
  <1> HIDE DEF new
  <1>13. Priced(new)  BY <1>7, <1>8, <1>12 DEF Priced, SameRow
  <1>14. basket'[b] = new /\ \A c \in Baskets \ {b} : basket'[c] = basket[c]
        BY <1>4, <1>5, <1>9 DEF QuotesType
  <1>15. QuotesType'
    <2>1. basket' \in [Baskets -> BasketRow \cup {NoBasket}]  BY <1>5, <1>9, <1>12 DEF QuotesType
    <2> QED  BY <1>5, <1>10, <2>1 DEF QuotesType
  <1>16. RowsKeep
    <2>1. ASSUME NEW c \in Baskets, basket[c] # NoBasket
          PROVE  basket'[c] # NoBasket /\ SameRow(basket[c], basket'[c])
      <3>1. CASE c = b  BY <1>6, <1>12, <1>14, <3>1, NoneIsNoRow
      <3>2. CASE c # b  BY <1>14, <2>1, <3>2 DEF SameRow
      <3> QED  BY <3>1, <3>2
    <2> QED  BY <2>1 DEF RowsKeep
  <1>17. GoOn(h, Tail(req[h].todo), read)  BY <1>2 DEF WriteAmounts, Proceed
  <1>18. /\ OthersStay(h) /\ Busy(h)' /\ Stage(h)' = "oust" /\ req'[h].read = read
         /\ req'[h].todo \in CheckPlans /\ req'[h].kind = "checkout"
         /\ crossed' = crossed /\ crashed' = crashed
        BY <1>1, <1>17, NextStage
  <1>19. CheckRead(h)'  BY <1>3, <1>4, <1>12, <1>14, <1>18, NoneIsNoRow DEF CheckRead
  <1>20. QuotesRead'  BY <1>16, <1>18, <1>19, ReadGoes DEF QuotesInv, RowsKeep
  <1>21. OpenBaskets' = OpenBaskets
    <2>1. \A c \in Baskets : basket'[c].state = basket[c].state  BY <1>6, <1>12, <1>14
    <2> QED  BY <2>1 DEF OpenBaskets
  <1>22. QuotesPriced'
    <2>1. \A c \in Baskets : basket'[c] # NoBasket => Priced(basket'[c])
          BY <1>13, <1>14 DEF QuotesInv, QuotesPriced
    <2> QED  BY <1>10, <2>1 DEF QuotesInv, QuotesPriced
  <1>23. QuotesPaid'
    <2>1. \A c \in Baskets : basket'[c].state = "CONSUMED" => basket'[c].charge > 0
          BY <1>6, <1>12, <1>14 DEF QuotesInv, QuotesPaid
    <2>2. ASSUME Apart("checkout", "checkout")'
          PROVE  /\ \A c \in Baskets : basket'[c].state # "none" /\ basket'[c].done /\ basket'[c].charge > 0
                      => basket'[c].charge = basket'[c].total
                 /\ \A g \in Handlers : Checking(g)' /\ Stage(g)' \in {"fare", "apply", "amount"} =>
                      basket'[req'[g].read.basket].charge = 0
      <3>1. Apart("checkout", "checkout")  BY <1>18, <2>2 DEF Apart
      <3>2. row.charge = 0  BY <1>1, <1>2, <1>3, <1>6, <3>1 DEF QuotesInv, QuotesPaid
      <3>3. ASSUME NEW g \in Handlers, Checking(g)' PROVE g = h
            BY <1>1, <1>18, <3>1, <3>3, CheckingStays, OneCheckout DEF QuotesInv
      <3>4. ~ (new.charge > 0)  BY <1>12, <3>2
      <3>5. \A c \in Baskets \ {b} : basket[c].state # "none" /\ basket[c].done /\ basket[c].charge > 0
                      => basket[c].charge = basket[c].total
            BY <3>1 DEF QuotesInv, QuotesPaid
      <3> QED  BY <1>14, <1>18, <3>3, <3>4, <3>5
    <2> QED  BY <2>1, <2>2 DEF QuotesPaid
  <1>24. (OpenRight(h) => OpenRight(h)') /\ \A was \in Past : PastTrue(was) => CheckTrue(h, was)'
        BY <1>1, <1>2, <1>10, <1>16, <1>17, <1>21, StageKeeps
  <1>25. QuotesOpen'  BY <1>1, <1>18, <1>24, OpenGoes DEF QuotesInv
  <1>26. PICK was \in Past : PastTrue(was)  BY DEF QuotesInv
  <1>27. PastTrue(was)'
    <2>1. \A c \in Baskets : basket[c] = NoBasket => basket'[c] = NoBasket  BY <1>4, <1>14
    <2>2. was[epoch] = Now /\ Now' = Now /\ QuotesRead  BY <1>10, <1>26 DEF PastTrue, Now, QuotesInv
    <2>3. epoch' \in Nat /\ epoch <= epoch' /\ was[epoch'] = Now' /\ offer' = offer
          BY <1>5, <1>10, <2>2
    <2> QED  BY <1>5, <1>10, <1>16, <1>18, <1>24, <1>26, <2>1, <2>2, <2>3, PastGoes
  <1>28. (\E before \in Past : PastTrue(before))'  BY <1>26, <1>27 DEF Past
  <1>29. SavesAsSaid'  BY <1>10, SavesStays DEF QuotesInv
  <1> QED  BY <1>15, <1>20, <1>22, <1>23, <1>25, <1>28, <1>29 DEF QuotesInv

-----------------------------------------------------------------------------
(* The basket is booked at the prices of now, for who bought when it was read. *)
LEMMA BookKeeps ==
    ASSUME DeskInv, QuotesInv, NEW h \in Handlers, Concerns(h, QuoteKinds), Book(h)
    PROVE  QuotesInv'
  <1>1. Checking(h) /\ Stage(h) = "book"  BY AtStage DEF Book
  <1>2. PICK read : read = req[h].read  OBVIOUS
  <1>3. PICK n : n = read.offer.n  OBVIOUS
  <1>4. buyer' = buyer /\ offer' = offer /\ lastCharge' = lastCharge /\ epoch' = epoch  BY DEF Book
  <1>5. CASE Stop(h) /\ UNCHANGED <<tag, basket>>
    <2>1. GoOn(h, <<>>, {}) /\ ~ Busy(h)' /\ OpenRight(h)'  BY <1>1, <1>5, CheckStops
    <2>2. UNCHANGED quotes  BY <1>4, <1>5 DEF quotes
    <2>3. /\ Restated /\ QuotesType' /\ OpenBaskets' = OpenBaskets /\ Now' = Now
          /\ \A c \in Baskets : basket'[c].state = basket[c].state
          BY <2>2, NothingNew DEF QuotesInv
    <2>4. OpenRight(h) => AtMostOne(OpenBaskets)'  BY <1>1, <2>3 DEF OpenRight, AtMostOne
    <2>5. OpenBaskets' \subseteq OpenBaskets /\ UNCHANGED <<offer, lastCharge, epoch>>
          /\ \A c \in Baskets : basket'[c].state = "CONSUMED" => basket[c].state = "CONSUMED"
          BY <1>4, <2>3
    <2> QED  BY <1>1, <2>1, <2>3, <2>4, <2>5, CheckKeeps
  <1>6. ASSUME NEW b \in Baskets, basket[b] = NoBasket,
               tag' = [tag EXCEPT !.reserved = @ + n],
               basket' = [basket EXCEPT ![b] =
                        [state |-> "PENDING", n |-> n, rate |-> AnyRate, credit |-> 0,
                         subtotal |-> n * UnitPrice(tag.cost, read.access), shipping |-> 0,
                         dues |-> read.dues,
                         total |-> n * UnitPrice(tag.cost, read.access) + read.dues,
                         shared |-> read.shared,
                         from |-> IF read.at = epoch THEN epoch ELSE Mixed,
                         done |-> FALSE, charge |-> 0]],
               GoOn(h, Tail(req[h].todo), [offer |-> read.offer, rate |-> read.rate, access |-> read.access,
                                           basket |-> b])
        PROVE  QuotesInv'
    <2>1. PICK subtotal, from : /\ subtotal = n * UnitPrice(tag.cost, read.access)
                                /\ from = IF read.at = epoch THEN epoch ELSE Mixed
          OBVIOUS
    <2> DEFINE row == [state |-> "PENDING", n |-> n, rate |-> AnyRate, credit |-> 0,
                       subtotal |-> subtotal, shipping |-> 0, dues |-> read.dues,
                       total |-> subtotal + read.dues, shared |-> read.shared, from |-> from,
                       done |-> FALSE, charge |-> 0]
               then == [offer |-> read.offer, rate |-> read.rate, access |-> read.access, basket |-> b]
               plan == Tail(req[h].todo)
    <2>2. /\ read.offer \in OfferRow /\ read.rate \in FareRow /\ read.at \in Nat
          /\ read.access \in BOOLEAN /\ read.shared \in BOOLEAN /\ read.dues \in {0, Dues}
          /\ req[h].todo \in CheckPlans /\ req[h].kind = "checkout"
          BY <1>1, <1>2 DEF QuotesInv, QuotesRead, CheckRead
    <2>3. n \in Nat /\ epoch \in Nat /\ QuotesType /\ tag.cost \in Tags
          BY <1>3, <2>2 DEF OfferRow, QuotesInv, QuotesType
    <2>4. subtotal \in Int /\ from \in Int /\ read.dues \in Int /\ (from \in Nat => from = epoch /\ read.at = epoch)
      <3>1. UnitPrice(tag.cost, read.access) \in Nat  BY <2>2, <2>3, UnitPrices
      <3>2. subtotal \in Int  BY <2>1, <2>3, <3>1, ProductInt
      <3>3. from \in Int /\ (from \in Nat => from = epoch /\ read.at = epoch)
            BY <2>1, <2>3 DEF Mixed
      <3> QED  BY <2>2, <3>2, <3>3, DuesInt
    <2>5. row \in BasketRow
      <3>1. subtotal + read.dues \in Int /\ n \in Int /\ AnyRate \in FareRow
            BY <2>3, <2>4 DEF AnyRate, FareRow
      <3> QED  BY <2>2, <2>4, <3>1 DEF BasketRow
    <2>6. /\ row.state = "PENDING" /\ row.n = n /\ row.subtotal = subtotal /\ row.dues = read.dues
          /\ row.shared = read.shared /\ row.from = from /\ row.done = FALSE /\ row.charge = 0
          /\ then.offer = read.offer /\ then.rate = read.rate /\ then.access = read.access
          /\ then.basket = b
          OBVIOUS
    <2>7. basket' = [basket EXCEPT ![b] = row] /\ GoOn(h, plan, then)  BY <1>6, <2>1
    <2>8. plan \in CheckPlans /\ plan # <<>> /\ Head(plan) = "fare"
          BY <1>1, <2>2, CheckStages DEF Stage
    <2> HIDE DEF row, then, plan
    <2>9. basket'[b] = row /\ basket'[b] # NoBasket /\ \A c \in Baskets \ {b} : basket'[c] = basket[c]
          BY <2>3, <2>5, <2>7, NoneIsNoRow DEF QuotesType
    <2>10. QuotesType' /\ Now' = Now
      <3>1. basket' \in [Baskets -> BasketRow \cup {NoBasket}]  BY <2>3, <2>5, <2>7 DEF QuotesType
      <3>2. tag' \in [cost : Tags, listed : BOOLEAN, units : Int, reserved : Int] /\ tag'.cost = tag.cost
            BY <1>6, <2>3 DEF QuotesType
      <3> QED  BY <1>4, <2>3, <3>1, <3>2 DEF QuotesType, Now
    <2>11. RowsKeep  BY <1>6, <2>9 DEF RowsKeep, SameRow
    <2>12. /\ OthersStay(h) /\ Busy(h)' /\ Stage(h)' = "fare" /\ req'[h].read = then
           /\ req'[h].todo \in CheckPlans /\ req'[h].kind = "checkout"
           /\ crossed' = crossed /\ crashed' = crashed
      <3>1. Busy(h)  BY <1>1 DEF Checking
      <3>2. /\ OthersStay(h) /\ Busy(h)' /\ req'[h].read = then /\ req'[h].todo = plan
            /\ req'[h].kind = req[h].kind /\ crossed' = crossed /\ crashed' = crashed
            BY <2>7, <2>8, <3>1, AfterGoOn
      <3> QED  BY <2>2, <2>8, <3>2 DEF Stage
    <2>13. CheckRead(h)'  BY <2>2, <2>6, <2>9, <2>12 DEF CheckRead
    <2>14. QuotesRead'  BY <2>11, <2>12, <2>13, ReadGoes DEF QuotesInv, RowsKeep
    <2>15. QuotesPriced'
      <3>1. \A c \in Baskets : basket'[c] # NoBasket => Priced(basket'[c])
            BY <2>6, <2>9 DEF Priced, QuotesInv, QuotesPriced
      <3> QED  BY <1>4, <3>1 DEF QuotesInv, QuotesPriced
    <2>16. QuotesPaid'
      <3>1. \A c \in Baskets : basket'[c].state = "CONSUMED" => basket'[c].charge > 0
            BY <2>6, <2>9 DEF QuotesInv, QuotesPaid
      <3>2. ASSUME Apart("checkout", "checkout")'
            PROVE  /\ \A c \in Baskets : basket'[c].state # "none" /\ basket'[c].done /\ basket'[c].charge > 0
                        => basket'[c].charge = basket'[c].total
                   /\ \A g \in Handlers : Checking(g)' /\ Stage(g)' \in {"fare", "apply", "amount"} =>
                        basket'[req'[g].read.basket].charge = 0
        <4>1. Apart("checkout", "checkout")  BY <2>12, <3>2 DEF Apart
        <4>2. ASSUME NEW g \in Handlers, Checking(g)' PROVE g = h
              BY <1>1, <2>12, <4>1, <4>2, CheckingStays, OneCheckout DEF QuotesInv
        <4>3. \A c \in Baskets \ {b} : basket[c].state # "none" /\ basket[c].done /\ basket[c].charge > 0
                        => basket[c].charge = basket[c].total
              BY <4>1 DEF QuotesInv, QuotesPaid
        <4>4. ~ (row.charge > 0) /\ row.charge = 0  BY <2>6
        <4> QED  BY <2>6, <2>9, <2>12, <4>2, <4>3, <4>4
      <3> QED  BY <3>1, <3>2 DEF QuotesPaid
    <2>17. OpenRight(h) => OpenRight(h)'
      <3>1. OpenBaskets' \ {b} \subseteq OpenBaskets  BY <2>9 DEF OpenBaskets
      <3>2. ASSUME OpenRight(h) PROVE AtMostOne(OpenBaskets' \ {b})
            BY <1>1, <3>1, <3>2, AtMostOneOf DEF OpenRight
      <3> QED  BY <2>6, <2>12, <3>2 DEF OpenRight, AtMostOne
    <2>18. QuotesOpen'  BY <1>1, <2>12, <2>17, OpenGoes DEF QuotesInv
    <2>19. PICK was \in Past : PastTrue(was)  BY DEF QuotesInv
    <2>20. was[epoch] = Now /\ was[epoch].cost = tag.cost /\ was[epoch].access = buyer.access
           /\ buyer.access \in BOOLEAN
          BY <2>3, <2>19 DEF PastTrue, Now, QuotesType
    <2>21. CheckTrue(h, was)  BY <1>1, <2>19 DEF PastTrue
    <2>22. OfferTrue(read.offer, was) /\ read.offer.at <= epoch /\ BuyerTrue(read, was)
          BY <1>1, <1>2, <2>21 DEF CheckTrue
    <2>23. ASSUME from \in Nat
           PROVE  LET joins == JoinsThen(read.offer, was[epoch])
                      code == CodeThen(read.offer, was[epoch])
                  IN  /\ joins \in BOOLEAN /\ code \in BOOLEAN
                      /\ read.dues > 0 <=> joins
                      /\ read.shared <=> code
                      /\ read.access <=> was[epoch].access \/ joins \/ code
                      /\ was[epoch].access => ~ joins /\ ~ code
                      /\ joins => ~ code
                      /\ was[epoch].access => read.dues = 0
      <3>1. read.at = epoch  BY <2>4, <2>23
      <3>2. read.offer.wish.joins \in BOOLEAN /\ read.offer.wish.code \in BOOLEAN
            BY <2>2, QuotesAssumption DEF OfferRow
      <3> QED  BY <2>20, <2>22, <3>1, <3>2, DuesInt DEF BuyerTrue, JoinsThen, CodeThen
    <2>24. RowTrue(row, was)
      <3>1. ASSUME from \in Nat
            PROVE  /\ subtotal = Subtotal(n, was[epoch], read.dues > 0, read.shared)
                   /\ was[epoch].access => read.dues = 0 /\ ~ read.shared
                   /\ read.dues > 0 => ~ read.shared
        <4>1. read.access = (was[epoch].access \/ read.dues > 0 \/ read.shared)
              BY <2>2, <2>20, <2>23, <3>1
        <4>2. subtotal = Subtotal(n, was[epoch], read.dues > 0, read.shared)
              BY <2>1, <2>20, <4>1 DEF Subtotal
        <4> QED  BY <2>23, <3>1, <4>2
      <3> QED  BY <2>4, <2>6, <3>1 DEF RowTrue
    <2>25. Fits(read.offer, row, was)
      <3>1. read.offer.at \in Nat  BY <2>2 DEF OfferRow
      <3>2. ASSUME row.from = read.offer.at
            PROVE  /\ JoinsThen(read.offer, was[read.offer.at]) <=> row.dues > 0
                   /\ CodeThen(read.offer, was[read.offer.at]) <=> row.shared
        <4>1. from \in Nat /\ read.offer.at = epoch  BY <2>4, <2>6, <3>1, <3>2
        <4> QED  BY <2>6, <2>23, <4>1
      <3> QED  BY <1>3, <2>6, <3>2 DEF Fits
    <2>26. CheckTrue(h, was)'  BY <1>4, <2>6, <2>9, <2>12, <2>22, <2>25 DEF CheckTrue
    <2>27. PastTrue(was)'
      <3>1. \A c \in Baskets : basket[c] = NoBasket /\ basket'[c] # NoBasket =>
                RowTrue(basket'[c], was) /\ basket'[c].from <= epoch'
        <4>1. row.from <= epoch  BY <2>1, <2>3, <2>6 DEF Mixed
        <4> QED  BY <1>4, <2>9, <2>24, <4>1
      <3>2. epoch' \in Nat /\ epoch <= epoch' /\ was[epoch'] = Now' /\ offer' = offer /\ QuotesRead
            BY <1>4, <2>3, <2>10, <2>20 DEF QuotesInv
      <3> QED  BY <1>4, <2>3, <2>11, <2>12, <2>19, <2>26, <3>1, <3>2, PastGoes
    <2>28. (\E before \in Past : PastTrue(before))'  BY <2>19, <2>27 DEF Past
    <2>29. SavesAsSaid'  BY <1>4, SavesStays DEF QuotesInv
    <2> QED  BY <2>10, <2>14, <2>15, <2>16, <2>18, <2>28, <2>29 DEF QuotesInv
  <1> QED  BY <1>2, <1>3, <1>5, <1>6, Zenon DEF Book

(* What the row now says is charged, and remembered.                         *)
LEMMA ChargeKeeps ==
    ASSUME DeskInv, QuotesInv, NEW h \in Handlers, Concerns(h, QuoteKinds), Charge(h)
    PROVE  QuotesInv'
  <1>1. Checking(h) /\ Stage(h) = "charge"  BY AtStage DEF Charge
  <1>2. PICK o, b : o = req[h].read.offer /\ b = req[h].read.basket  OBVIOUS
  <1>3. /\ GoOn(h, <<>>, {}) /\ OthersStay(h) /\ ~ Busy(h)' /\ ~ Checking(h)' /\ OpenRight(h)'
        /\ crossed' = crossed /\ crashed' = crashed
        BY <1>1, CheckStops DEF Charge
  <1>4. tag' = tag /\ buyer' = buyer /\ offer' = offer /\ epoch' = epoch  BY DEF Charge
  <1>5. o \in OfferRow /\ b \in Baskets /\ basket[b] # NoBasket /\ basket[b] \in BasketRow
        BY <1>1, <1>2 DEF QuotesInv, QuotesRead, CheckRead, QuotesType
  <1>6. CASE UNCHANGED <<basket, lastCharge>>
    <2>1. UNCHANGED quotes  BY <1>4, <1>6 DEF quotes
    <2>2. /\ Restated /\ QuotesType' /\ OpenBaskets' = OpenBaskets /\ Now' = Now
          /\ \A c \in Baskets : basket'[c].state = basket[c].state
          BY <2>1, NothingNew DEF QuotesInv
    <2>3. OpenRight(h) => AtMostOne(OpenBaskets)'  BY <1>1, <2>2 DEF OpenRight, AtMostOne
    <2>4. OpenBaskets' \subseteq OpenBaskets /\ UNCHANGED <<offer, lastCharge, epoch>>
          /\ \A c \in Baskets : basket'[c].state = "CONSUMED" => basket[c].state = "CONSUMED"
          BY <1>4, <1>6, <2>2
    <2> QED  BY <1>1, <1>3, <2>2, <2>3, <2>4, CheckKeeps
  <1>7. CASE /\ ~ (basket[b].total < MinCharge)
             /\ basket' = [basket EXCEPT ![b].charge = basket[b].total]
             /\ lastCharge' = [offer |-> o, row |-> basket[b]]
    <2>1. PICK row : row = basket[b]  OBVIOUS
    <2>2. row.total \in Int /\ row.total > 0
      <3>1. MinCharge \in Nat \ {0} /\ row.total \in Int
            BY <1>5, <2>1, QuotesAssumption DEF BasketRow
      <3> QED  BY <1>7, <2>1, <3>1
    <2> DEFINE new == [row EXCEPT !.charge = row.total]
    <2>3. basket' = [basket EXCEPT ![b] = new]  BY <1>5, <1>7, <2>1 DEF QuotesInv, QuotesType
    <2>4. /\ new \in BasketRow /\ SameRow(row, new) /\ new.state = row.state /\ new.charge = row.total
          /\ new.done = row.done /\ new.rate = row.rate /\ new.shipping = row.shipping
          /\ new.credit = row.credit /\ new.total = row.total
          BY <1>5, <2>1, <2>2 DEF BasketRow, SameRow
    <2> HIDE DEF new
    <2>5. basket'[b] = new /\ \A c \in Baskets \ {b} : basket'[c] = basket[c]
          BY <1>5, <2>3 DEF QuotesInv, QuotesType
    <2>6. lastCharge'.offer = o /\ lastCharge'.row = row  BY <1>7, <2>1
    <2>7. QuotesType' /\ Now' = Now
      <3>1. basket' \in [Baskets -> BasketRow \cup {NoBasket}]
            BY <2>3, <2>4 DEF QuotesInv, QuotesType
      <3> QED  BY <1>4, <1>5, <2>1, <2>6, <3>1 DEF QuotesInv, QuotesType, Now
    <2>8. RowsKeep
      <3>1. ASSUME NEW c \in Baskets, basket[c] # NoBasket
            PROVE  basket'[c] # NoBasket /\ SameRow(basket[c], basket'[c])
        <4>1. CASE c = b  BY <2>1, <2>4, <2>5, <4>1, NoneIsNoRow
        <4>2. CASE c # b  BY <2>5, <3>1, <4>2 DEF SameRow
        <4> QED  BY <4>1, <4>2
      <3> QED  BY <3>1 DEF RowsKeep
    <2>9. QuotesRead'  BY <1>3, <2>8, ReadGoes DEF QuotesInv, RowsKeep
    <2>10. QuotesPriced'
      <3>1. Priced(row)  BY <1>5, <2>1 DEF QuotesInv, QuotesPriced
      <3>2. Priced(new)  BY <2>4, <3>1 DEF Priced, SameRow
      <3>3. \A c \in Baskets : basket'[c] # NoBasket => Priced(basket'[c])
            BY <2>5, <3>2 DEF QuotesInv, QuotesPriced
      <3> QED  BY <2>6, <3>1, <3>3 DEF QuotesPriced
    <2>11. QuotesPaid'
      <3>1. \A c \in Baskets : basket'[c].state = "CONSUMED" => basket'[c].charge > 0
            BY <2>2, <2>4, <2>5 DEF QuotesInv, QuotesPaid
      <3>2. ASSUME Apart("checkout", "checkout")'
            PROVE  /\ \A c \in Baskets : basket'[c].state # "none" /\ basket'[c].done /\ basket'[c].charge > 0
                        => basket'[c].charge = basket'[c].total
                   /\ \A g \in Handlers : Checking(g)' /\ Stage(g)' \in {"fare", "apply", "amount"} =>
                        basket'[req'[g].read.basket].charge = 0
        <4>1. Apart("checkout", "checkout")  BY <1>3, <3>2 DEF Apart
        <4>2. ASSUME NEW g \in Handlers, Checking(g)' PROVE FALSE
              BY <1>1, <1>3, <4>1, <4>2, CheckingStays, OneCheckout DEF QuotesInv
        <4>3. \A c \in Baskets \ {b} : basket[c].state # "none" /\ basket[c].done /\ basket[c].charge > 0
                        => basket[c].charge = basket[c].total
              BY <4>1 DEF QuotesInv, QuotesPaid
        <4> QED  BY <2>4, <2>5, <4>2, <4>3
      <3> QED  BY <3>1, <3>2 DEF QuotesPaid
    <2>12. QuotesOpen'
      <3>1. OpenBaskets' = OpenBaskets
        <4>1. \A c \in Baskets : basket'[c].state = basket[c].state  BY <2>1, <2>4, <2>5
        <4> QED  BY <4>1 DEF OpenBaskets
      <3>2. ASSUME OpenRight(h) PROVE AtMostOne(OpenBaskets)'
            BY <1>1, <3>1, <3>2 DEF OpenRight, AtMostOne
      <3> QED  BY <1>1, <1>3, <3>2, OpenGoes DEF QuotesInv
    <2>13. PICK was \in Past : PastTrue(was)  BY DEF QuotesInv
    <2>14. PastTrue(was)'
      <3>1. \A c \in Baskets : basket[c] = NoBasket => basket'[c] = NoBasket  BY <1>5, <2>5
      <3>2. epoch \in Nat /\ was[epoch] = Now /\ QuotesType /\ QuotesRead
            BY <2>13 DEF QuotesInv, QuotesType, PastTrue
      <3>3. ChargeTrue(lastCharge', was, epoch')
        <4>1. OfferTrue(o, was) /\ o.at <= epoch /\ Fits(o, row, was)
              BY <1>1, <1>2, <2>1, <2>13 DEF PastTrue, CheckTrue
        <4>2. RowTrue(row, was) /\ row.from <= epoch  BY <1>5, <2>1, <2>13 DEF PastTrue
        <4> QED  BY <1>4, <2>6, <4>1, <4>2 DEF ChargeTrue
      <3>4. epoch' \in Nat /\ epoch <= epoch' /\ was[epoch'] = Now' /\ offer' = offer
            BY <1>4, <2>7, <3>2
      <3> QED  BY <1>3, <1>4, <2>8, <2>13, <3>1, <3>2, <3>3, <3>4, PastGoes
    <2>15. (\E before \in Past : PastTrue(before))'  BY <2>13, <2>14 DEF Past
    <2>16. SavesAsSaid'  BY <1>4, SavesStays DEF QuotesInv
    <2> QED  BY <2>7, <2>9, <2>10, <2>11, <2>12, <2>15, <2>16 DEF QuotesInv
  <1> QED  BY <1>2, <1>6, <1>7, Zenon DEF Charge

-----------------------------------------------------------------------------
(* Steps of other parts, and a process that stops                            *)
LEMMA QuotesLeft ==
    ASSUME QuotesInv, UNCHANGED quotes, QuotesOpen', crossed \subseteq crossed',
           \A g \in Handlers : Checking(g)' => Checking(g) /\ req'[g] = req[g]
    PROVE  QuotesInv'
  <1>1. /\ Restated /\ QuotesType' /\ Now' = Now /\ offer' = offer /\ lastCharge' = lastCharge
        /\ epoch' = epoch /\ basket' = basket
        BY NothingNew DEF QuotesInv, quotes
  <1>2. RowsKeep  BY <1>1, RestatedRows DEF QuotesInv
  <1>3. QuotesRead'
    <2>1. ASSUME NEW g \in Handlers, Checking(g)' PROVE CheckRead(g)'
          BY <1>1, <2>1, CheckStays DEF QuotesInv, QuotesRead
    <2> QED  BY <2>1 DEF QuotesRead
  <1>4. QuotesPriced'  BY <1>1 DEF QuotesInv, QuotesPriced
  <1>5. QuotesPaid'
    <2>1. Apart("checkout", "checkout")' => Apart("checkout", "checkout")  BY DEF Apart
    <2>2. \A g \in Handlers : Checking(g)' => Stage(g)' = Stage(g)  BY DEF Stage
    <2> QED  BY <1>1, <2>1, <2>2 DEF QuotesInv, QuotesPaid
  <1>6. PICK was \in Past : PastTrue(was)  BY DEF QuotesInv
  <1>7. \A g \in Handlers : Checking(g)' => CheckTrue(g, was)'
    <2>1. ASSUME NEW g \in Handlers, Checking(g)' PROVE CheckTrue(g, was)'
      <3>1. CheckRead(g) /\ CheckTrue(g, was) /\ req'[g] = req[g]
            BY <1>6, <2>1 DEF QuotesInv, QuotesRead, PastTrue
      <3>2. QuotesType /\ epoch' \in Nat /\ epoch <= epoch'  BY <1>1 DEF QuotesInv, QuotesType
      <3> QED  BY <1>2, <3>1, <3>2, CheckStill
    <2> QED  BY <2>1
  <1>8. PastTrue(was)'  BY <1>1, <1>6, <1>7 DEF PastTrue
  <1>9. (\E before \in Past : PastTrue(before))'  BY <1>6, <1>8 DEF Past
  <1>10. SavesAsSaid'  BY <1>1, SavesStays DEF QuotesInv
  <1> QED  BY <1>1, <1>3, <1>4, <1>5, <1>9, <1>10 DEF QuotesInv

LEMMA QuotesBeside ==
    ASSUME QuotesInv, StoodBy(QuoteKinds), UNCHANGED quotes
    PROVE  QuotesInv'
  <1>1. \A g \in Handlers : Checking(g)' => Checking(g) /\ req'[g] = req[g]
        BY DEF StoodBy, Checking, Busy
  <1>2. \A g \in Handlers : Checking(g) => Checking(g)'  BY DEF StoodBy, Checking, Busy
  <1>3. OpenBaskets' = OpenBaskets  BY DEF quotes, OpenBaskets
  <1>4. QuotesOpen'
    <2>1. SUFFICES ASSUME InTurn({"checkout"})'
                   PROVE  /\ Quiet({"checkout"})' => AtMostOne(OpenBaskets)'
                          /\ \A g \in Handlers : OpenRight(g)'
          BY QuotesOpenIs DEF QuotesOpen, OpenRight
    <2>2. InTurn({"checkout"})  BY <2>1, TurnsWere DEF StoodBy
    <2>3. Quiet({"checkout"})' => Quiet({"checkout"})
      <3>1. \A g \in Handlers : Busy(g) /\ req[g].kind = "checkout" => Busy(g)' /\ req'[g].kind = "checkout"
            BY DEF StoodBy, QuoteKinds, Busy
      <3> QED  BY <3>1 DEF Quiet, Doing
    <2>4. AtMostOne(OpenBaskets) => AtMostOne(OpenBaskets)'  BY <1>3 DEF AtMostOne
    <2>5. ASSUME NEW g \in Handlers PROVE OpenRight(g)'
      <3>1. CASE Checking(g)'
        <4>1. OpenRight(g) /\ req'[g] = req[g]  BY <1>1, <2>2, <3>1, QuotesOpenIs DEF QuotesInv
        <4> QED  BY <1>3, <4>1, OpenStays
      <3>2. CASE ~ Checking(g)'  BY <3>2 DEF OpenRight
      <3> QED  BY <3>1, <3>2
    <2>6. Quiet({"checkout"}) => AtMostOne(OpenBaskets)  BY <2>2, QuotesOpenIs DEF QuotesInv
    <2> QED  BY <2>3, <2>4, <2>5, <2>6
  <1> QED  BY <1>1, <1>4, QuotesLeft DEF StoodBy

LEMMA QuotesCrash ==
    ASSUME DeskInv, QuotesInv, NEW h \in Handlers, Crash(h), UNCHANGED quotes
    PROVE  QuotesInv'
  <1>1. /\ OthersStay(h) /\ Busy(h) /\ ~ Busy(h)'
        /\ crossed' = crossed /\ crashed' = crashed \cup {req[h].kind}
        BY AfterCrash
  <1>2. \A g \in Handlers : Checking(g)' => Checking(g) /\ req'[g] = req[g] /\ g # h
        BY <1>1 DEF OthersStay, Checking
  <1>3. OpenBaskets' = OpenBaskets  BY DEF quotes, OpenBaskets
  <1>4. QuotesOpen'
    <2>1. SUFFICES ASSUME InTurn({"checkout"})'
                   PROVE  /\ Quiet({"checkout"})' => AtMostOne(OpenBaskets)'
                          /\ \A g \in Handlers : OpenRight(g)'
          BY QuotesOpenIs DEF QuotesOpen, OpenRight
    <2>2. InTurn({"checkout"}) /\ req[h].kind # "checkout"  BY <1>1, <2>1, TurnsWere DEF InTurn
    <2>3. Quiet({"checkout"})' => Quiet({"checkout"})  BY <1>1, <2>2 DEF Quiet, Doing, OthersStay
    <2>4. AtMostOne(OpenBaskets) => AtMostOne(OpenBaskets)'  BY <1>3 DEF AtMostOne
    <2>5. ASSUME NEW g \in Handlers PROVE OpenRight(g)'
      <3>1. CASE Checking(g)'
        <4>1. OpenRight(g) /\ req'[g] = req[g]  BY <1>2, <2>2, <3>1, QuotesOpenIs DEF QuotesInv
        <4> QED  BY <1>3, <4>1, OpenStays
      <3>2. CASE ~ Checking(g)'  BY <3>2 DEF OpenRight
      <3> QED  BY <3>1, <3>2
    <2>6. Quiet({"checkout"}) => AtMostOne(OpenBaskets)  BY <2>2, QuotesOpenIs DEF QuotesInv
    <2> QED  BY <2>3, <2>4, <2>5, <2>6
  <1> QED  BY <1>1, <1>2, <1>4, QuotesLeft

LEMMA QuotesStepKeeps ==
    ASSUME DeskInv, QuotesInv, NEW h \in Handlers, Concerns(h, QuoteKinds), QuotesStep(h)
    PROVE  QuotesInv'
  BY QuoteKeeps, AskToPayKeeps, UseAgainKeeps, MakeAnewKeeps, BookKeeps, AskRatesKeeps, ApplyCreditKeeps,
     WriteAmountsKeeps, OustKeeps, ChargeKeeps, BasketPaidKeeps, BasketLapsesKeeps, ShopChangesKeeps,
     Zenon DEF QuotesStep

LEMMA QuotesKept ==
    ASSUME DeskInv, QuotesInv, NEW h \in Handlers, Step(h)
    PROVE  QuotesInv'
  BY QuotesOrNot, QuotesStepKeeps, QuotesBeside, QuotesCrash, Zenon

LEMMA QuotesBegin == Init => QuotesInv
  <1>1. SUFFICES ASSUME Init PROVE QuotesInv  OBVIOUS
  <1>2. QuotesInit  BY <1>1 DEF Init
  <1>3. \A h \in Handlers : ~ Checking(h)  BY <1>1 DEF Init, DeskInit, Busy, Idle, Checking
  <1>4. /\ \A b \in Baskets : basket[b] = NoBasket
        /\ basket = [b \in Baskets |-> NoBasket] /\ offer = NoOffer
        /\ lastCharge.row = NoBasket /\ epoch = 0
        BY <1>2 DEF QuotesInit
  <1>5. tag \in [cost : Tags, listed : BOOLEAN, units : Int, reserved : Int]
    <2>1. Units \in Int  BY QuotesAssumption
    <2> QED  BY <1>2, <2>1 DEF QuotesInit
  <1>6. buyer \in [access : BOOLEAN, code : BOOLEAN, balance : Int, held : Int]
    <2>1. PICK credit \in {w.credit : w \in Wishes} :
              buyer = [access |-> FALSE, code |-> TRUE, balance |-> credit, held |-> 0]
          BY <1>2 DEF QuotesInit
    <2>2. credit \in Int  BY QuotesAssumption
    <2> QED  BY <2>1, <2>2
  <1>7. QuotesType  BY <1>4, <1>5, <1>6 DEF QuotesType
  <1>8. \A b \in Baskets : basket[b].state = "none"  BY <1>4 DEF NoBasket
  <1>9. OpenBaskets = {}  BY <1>8 DEF OpenBaskets
  <1>10. QuotesRead /\ QuotesPriced /\ QuotesPaid /\ QuotesOpen /\ SavesAsSaid
        BY <1>3, <1>4, <1>8, <1>9 DEF QuotesRead, QuotesPriced, QuotesPaid, QuotesOpen, SavesAsSaid, AtMostOne
  <1>11. \E was \in Past : PastTrue(was)
    <2> DEFINE was == [i \in Nat |-> Now]
    <2>1. was \in Past /\ was[epoch] = Now  BY <1>4, <1>5, <1>6 DEF Past, Now
    <2> HIDE DEF was
    <2>2. PastTrue(was)  BY <1>3, <1>4, <2>1 DEF PastTrue
    <2> QED  BY <2>1, <2>2
  <1> QED  BY <1>7, <1>10, <1>11 DEF QuotesInv

-----------------------------------------------------------------------------
LEMMA ChargeShows == QuotesInv => ChargedAsShown
  <1>1. SUFFICES ASSUME QuotesInv, lastCharge.row # NoBasket, lastCharge.row.done,
                        lastCharge.row.from = lastCharge.offer.at,
                        lastCharge.row.rate = lastCharge.offer.rate,
                        lastCharge.row.credit = lastCharge.offer.credit
                 PROVE  lastCharge.row.total = lastCharge.offer.total
        BY DEF ChargedAsShown
  <1>2. PICK r, o : r = lastCharge.row /\ o = lastCharge.offer  OBVIOUS
  <1>3. PICK was \in Past : PastTrue(was)  BY <1>1 DEF QuotesInv
  <1>4. /\ r \in BasketRow /\ o \in OfferRow /\ Priced(r) /\ r.done /\ r.from = o.at /\ r.rate = o.rate
        /\ r.credit = o.credit /\ OfferTrue(o, was) /\ RowTrue(r, was) /\ Fits(o, r, was)
        BY <1>1, <1>2, <1>3 DEF QuotesInv, QuotesType, QuotesPriced, PastTrue
  <1>5. PICK joins, code, then : /\ then = was[o.at] /\ joins = JoinsThen(o, then) /\ code = CodeThen(o, then)
        OBVIOUS
  <1>6. /\ o.wish.joins \in BOOLEAN /\ o.wish.code \in BOOLEAN /\ o.at \in Nat /\ r.shared \in BOOLEAN
        /\ r.dues \in {0, Dues}
        BY <1>4, QuotesAssumption DEF OfferRow, BasketRow
  <1>7. joins \in BOOLEAN /\ code \in BOOLEAN  BY <1>5, <1>6 DEF JoinsThen, CodeThen
  <1>8. r.n = o.n /\ joins = (r.dues > 0) /\ code = r.shared  BY <1>4, <1>5, <1>6, <1>7 DEF Fits
  <1>9. PICK s : s = Subtotal(o.n, then, joins, code)  OBVIOUS
  <1>10. r.subtotal = s /\ s \in Int  BY <1>4, <1>5, <1>6, <1>8, <1>9 DEF RowTrue, BasketRow
  <1>11. r.dues = (IF joins THEN Dues ELSE 0) /\ r.dues \in Int
    <2>1. PICK d : d = r.dues  OBVIOUS
    <2>2. d \in {0, Dues} /\ joins = (d > 0)  BY <1>6, <1>8, <2>1
    <2>3. CASE d = 0
      <3>1. (d > 0) = FALSE  BY <2>3
      <3>2. ~ joins  BY <2>2, <3>1, Zenon
      <3> QED  BY <2>1, <2>3, <3>2
    <2>4. CASE d = Dues
      <3>1. joins = TRUE  BY <2>2, <2>4, DuesInt
      <3> QED  BY <2>1, <2>4, <3>1, DuesInt
    <2> QED  BY <2>2, <2>3, <2>4
  <1>12. PICK ship : ship = Waived(s, o.rate.amount)  OBVIOUS
  <1>13. ship \in Int /\ o.credit \in Int  BY <1>4, <1>10, <1>12, WaivedInt DEF OfferRow, FareRow
  <1>14. r.total = Payable(s, ship, r.dues, o.credit)  BY <1>4, <1>10, <1>12 DEF Priced
  <1>15. o.total = QuotedTotal(s, ship, r.dues, o.credit)
        BY <1>4, <1>5, <1>9, <1>11, <1>12 DEF OfferTrue
  <1>16. r.total = o.total
    <2>1. PICK d, c : d = r.dues /\ c = o.credit  OBVIOUS
    <2>2. d \in Int /\ c \in Int /\ s \in Int /\ ship \in Int  BY <1>10, <1>11, <1>13, <2>1
    <2>3. Payable(s, ship, d, c) = QuotedTotal(s, ship, d, c)  BY <2>2, PayableIs
    <2> QED  BY <1>14, <1>15, <2>1, <2>3
  <1> QED  BY <1>2, <1>16

LEMMA PaidShows == QuotesInv => PaidInFull
  <1>1. SUFFICES ASSUME QuotesInv, NEW b \in Baskets, basket[b].state = "CONSUMED", basket[b].done,
                        Apart("checkout", "checkout")
                 PROVE  basket[b].charge + basket[b].credit
                          = basket[b].subtotal + basket[b].shipping + basket[b].dues
                              + Tax(basket[b].subtotal, basket[b].credit)
        BY DEF PaidInFull
  <1>2. PICK r : r = basket[b]  OBVIOUS
  <1>3. r.charge > 0 /\ r.charge = r.total  BY <1>1, <1>2 DEF QuotesInv, QuotesPaid
  <1>4. r # NoBasket  BY <1>1, <1>2 DEF NoBasket
  <1>5. r \in BasketRow /\ Priced(r) /\ r.done
        BY <1>1, <1>2, <1>4 DEF QuotesInv, QuotesType, QuotesPriced
  <1>6. PICK s, sh, d, c : s = r.subtotal /\ sh = r.shipping /\ d = r.dues /\ c = r.credit  OBVIOUS
  <1>7. s \in Int /\ sh \in Int /\ d \in Int /\ c \in Int  BY <1>5, <1>6, DuesInt DEF BasketRow
  <1>8. r.total = Payable(s, sh, d, c)  BY <1>5, <1>6 DEF Priced
  <1>9. r.total = s + sh + d - c + Tax(s, c)  BY <1>3, <1>7, <1>8, PayableIs
  <1>10. Tax(s, c) \in Int  BY <1>7, TaxInt
  <1>11. r.charge + c = s + sh + d + Tax(s, c)  BY <1>3, <1>7, <1>9, <1>10
  <1> QED  BY <1>2, <1>6, <1>11

LEMMA OpenShows == QuotesInv => OneOpen
  <1>1. SUFFICES ASSUME QuotesInv, InTurn({"checkout"}), Quiet({"checkout"})
                 PROVE  Cardinality(OpenBaskets) <= 1
        BY DEF OneOpen
  <1>2. AtMostOne(OpenBaskets)  BY <1>1 DEF QuotesInv, QuotesOpen
  <1>3. CASE OpenBaskets = {}  BY <1>3, FS_EmptySet
  <1>4. ASSUME NEW b \in OpenBaskets PROVE Cardinality(OpenBaskets) <= 1
    <2>1. OpenBaskets = {b}  BY <1>2, <1>4 DEF AtMostOne
    <2>2. Cardinality({b}) = 1  BY FS_Singleton
    <2> QED  BY <2>1, <2>2
  <1> QED  BY <1>3, <1>4

LEMMA QuotesShow == QuotesInv => QuotesAreKept
  BY ChargeShows, PaidShows, OpenShows DEF QuotesAreKept, QuotesInv

(* However quotes, checkouts, payments and changes of prices, access, codes and   *)
(* credit interleave and stop midway: a shopper is charged to the cent what the    *)
(* quote showed him if nothing it depends on changed between                      *)
(* (calculateCheckoutQuote of order.service.js and createCheckoutIntent of         *)
(* checkout-intent.service.js compute one amount in two ways), money and credit    *)
(* pay for what was bought, one checkout at a time is open for him, and            *)
(* membership saves what it is said to save.                                     *)
THEOREM QuotesStayTrue == Spec => []QuotesAreKept
  <1>1. Init => DeskInv /\ QuotesInv  BY DeskBegins, QuotesBegin
  <1>2. DeskInv /\ QuotesInv /\ [Next]_<<desk, everything>> => DeskInv' /\ QuotesInv'
    <2>1. ASSUME DeskInv, QuotesInv, NEW h \in Handlers, Step(h) PROVE QuotesInv'
          BY <2>1, QuotesKept
    <2>2. ASSUME DeskInv, QuotesInv, UNCHANGED <<desk, everything>> PROVE QuotesInv'
      <3>1. UNCHANGED desk /\ UNCHANGED quotes  BY <2>2, Zenon DEF everything, funds
      <3> QED  BY <2>2, <3>1, DeskStutters, QuotesBeside
    <2> QED  BY <2>1, <2>2, DeskIsKept, Zenon DEF Next
  <1>3. QuotesInv => QuotesAreKept  BY QuotesShow
  <1> QED  BY <1>1, <1>2, <1>3, PTL DEF Spec

-----------------------------------------------------------------------------
(* Transfers: what the rows at Stripe are,                                   *)
PayRow ==
    [hosted : BOOLEAN, amount : Nat \ {0}, known : BOOLEAN, paid : BOOLEAN, late : BOOLEAN,
     refunded : Nat, totals : SUBSET Nat]
LegRow == [amount : Nat, charge : Nat, reversed : Nat]
SoundPay(p) ==
    /\ p.paid => p.known
    /\ ~ p.paid => p.refunded = 0
    /\ p.refunded <= p.amount /\ \A t \in p.totals : p.paid /\ t <= p.refunded
TransfersType ==
    /\ bill \in [bundled : BOOLEAN, total : Nat \ {0}, current : Nat, pending : BOOLEAN]
    /\ pay \in Seq(PayRow) /\ \A p \in DOMAIN pay : SoundPay(pay[p])
    /\ bill.current \in {NoPayment} \cup DOMAIN pay
    /\ leg \in [Legs -> LegRow] /\ \A r \in reversals : r.key.target \in Nat
    /\ split \in [seen : BOOLEAN, second : BOOLEAN, failed : BOOLEAN, followed : SUBSET Nat]

(* what its requests have read,                                              *)
Moving(h) == Busy(h) /\ req[h].kind \in TransferKinds
HasList(h) == req[h].todo # <<"list">>
MoneyRead(h) ==
    LET read == req[h].read
    IN  \/ /\ req[h].kind = "card" /\ req[h].todo = <<"payment">>
           /\ read.total \in Nat \ {0} /\ read.had \in {NoPayment} \cup DOMAIN pay
        \/ req[h].kind = "hosted" /\ req[h].todo = <<"session">>
        \/ /\ req[h].kind \in {"card", "hosted"} /\ req[h].todo = <<"point">>
           /\ read.which \in DOMAIN pay /\ read.whole \in BOOLEAN
           /\ req[h].kind = "hosted" => pay[read.which].hosted /\ ~ read.whole
        \/ /\ req[h].kind = "event" /\ req[h].todo \in {<<"membership", "store">>, <<"store">>}
           /\ read.which \in DOMAIN pay /\ pay[read.which].paid
        \/ /\ req[h].kind = "undo" /\ (req[h].todo = <<"list">> \/ req[h].todo \in Seq({"reverse"}))
           /\ read.charge \in DOMAIN pay /\ read.total \in pay[read.charge].totals
           /\ HasList(h) => /\ {"charge", "total", "seen", "left"} \subseteq DOMAIN read
                           /\ DOMAIN read.seen \subseteq Made /\ read.left \subseteq DOMAIN read.seen
                           /\ \A l \in DOMAIN read.seen : read.seen[l] \in Nat
MoneyReads == \A h \in Handlers : Moving(h) => MoneyRead(h)

(* that one call at a time asks for the one payment there is, of the whole total *)
(* once a call that saw it has ended,                                        *)
CardsAlone == Apart("card", "card") /\ ~ split.second /\ \A p \in DOMAIN pay : ~ pay[p].hosted
CardKnows(h) ==
    LET read == req[h].read
    IN  /\ req[h].todo = <<"payment">> =>
              read.had = bill.current /\ (split.seen => read.total = Whole)
              /\ (read.total = Whole => bill.total = Whole)
        /\ req[h].todo = <<"point">> =>
              /\ bill.current = NoPayment
              /\ read.whole => pay[read.which].amount = Whole /\ bill.total = Whole
OnePayment ==
    CardsAlone =>
        /\ \A p \in DOMAIN pay : /\ pay[p].known => p = bill.current
                                 /\ pay[p].paid /\ pay[p].late => pay[p].amount = Whole
        /\ split.seen => bill.total = Whole /\ bill.current # NoPayment /\ pay[bill.current].amount = Whole
        /\ \A h \in Handlers : Busy(h) /\ req[h].kind = "card" => CardKnows(h)

(* that each transfer is its part of a charge,                               *)
LegsApart ==
    \A l \in Made : /\ leg[l].charge \in DOMAIN pay /\ pay[leg[l].charge].paid
                    /\ leg[l].amount = Part(l, pay[leg[l].charge].amount)

(* and that of the one charge each is reversed as far as its refunds were followed. *)
OneCharge == Apart("undo", "undo") /\ \A p, q \in Paid : p = q
OwedBack(l, total) == Share(leg[l].amount, total, pay[leg[l].charge].amount)
UndoKnows(h) ==
    LET read == req[h].read
    IN  HasList(h) =>
            /\ \A l \in read.left : read.seen[l] = leg[l].reversed
            /\ \/ split.failed
               \/ \A l \in DOMAIN read.seen \ read.left : leg[l].reversed >= OwedBack(l, read.total)
LegsReversed ==
    OneCharge =>
        /\ \A l \in Made : leg[l].reversed <= OwedBack(l, pay[leg[l].charge].refunded)
        /\ \A r \in reversals : r.key.leg \in Made /\ leg[r.key.leg].reversed >= r.key.target
        /\ \/ split.failed
           \/ \A t \in split.followed, l \in Legs : l \in Made /\ leg[l].reversed >= OwedBack(l, t)
        /\ \A h \in Handlers : Busy(h) /\ req[h].kind = "undo" => UndoKnows(h)

TransfersInv == TransfersType /\ MoneyReads /\ OnePayment /\ LegsApart /\ LegsReversed

-----------------------------------------------------------------------------
(* Rounded shares of an amount (SumTheorems: Quotient)                       *)
LEMMA ShareIsNat ==
    ASSUME NEW a \in Nat, NEW t \in Nat, NEW w \in Nat \ {0}
    PROVE  Share(a, t, w) \in Nat
  <1>1. 2 * a * t + w \in Nat /\ 2 * w \in Nat \ {0}
    <2>1. 2 * a \in Nat  OBVIOUS
    <2>2. 2 * a * t \in Nat  BY <2>1
    <2> QED  BY <2>2
  <1> QED  BY <1>1, QuotientNat DEF Share

LEMMA ShareGrows ==
    ASSUME NEW a \in Nat, NEW t \in Nat, NEW u \in Nat, t <= u, NEW w \in Nat \ {0}
    PROVE  Share(a, t, w) <= Share(a, u, w)
  <1>1. PICK x, y, d : x = 2 * a * t + w /\ y = 2 * a * u + w /\ d = 2 * w  OBVIOUS
  <1>2. 2 * a \in Nat /\ d \in Nat \ {0}  BY <1>1
  <1>3. t * (2 * a) <= u * (2 * a) /\ t * (2 * a) \in Int /\ u * (2 * a) \in Int  BY <1>2, TimesUp
  <1>4. t * (2 * a) = 2 * a * t /\ u * (2 * a) = 2 * a * u  OBVIOUS
  <1>5. x \in Int /\ y \in Int /\ x <= y  BY <1>1, <1>3, <1>4
  <1>6. PICK q : q = y \div d  OBVIOUS
  <1>7. q \in Int /\ y < q * d + d  BY <1>2, <1>5, <1>6, Quotient
  <1>8. q * d \in Int  BY <1>2, <1>7
  <1>9. x < q * d + d  BY <1>2, <1>5, <1>7, <1>8
  <1>10. x \div d <= q  BY <1>2, <1>5, <1>7, <1>9, QuotientAtMost
  <1> QED  BY <1>1, <1>6, <1>10 DEF Share

LEMMA ShareWithin ==
    ASSUME NEW a \in Nat, NEW t \in Nat, NEW w \in Nat \ {0}, t <= w
    PROVE  Share(a, t, w) <= a
  <1>1. PICK x, d : x = 2 * a * t + w /\ d = 2 * w  OBVIOUS
  <1>2. t * (2 * a) <= w * (2 * a) /\ t * (2 * a) \in Int /\ w * (2 * a) \in Int
    <2>1. 2 * a \in Nat  OBVIOUS
    <2> QED  BY <2>1, TimesUp
  <1>3. t * (2 * a) = 2 * a * t /\ w * (2 * a) = a * (2 * w)  OBVIOUS
  <1>4. a * d \in Int /\ x \in Int /\ d \in Nat \ {0} /\ x <= a * d + w  BY <1>1, <1>2, <1>3
  <1>5. w < d  BY <1>1
  <1>6. x < a * d + d  BY <1>4, <1>5
  <1>7. x \div d <= a  BY <1>4, <1>6, QuotientAtMost
  <1> QED  BY <1>1, <1>7 DEF Share

(* The parts of a charge owe no more than a cent beyond what was refunded of it. *)
LEMMA SharesOfTwo ==
    ASSUME NEW a \in Nat, NEW b \in Nat, NEW t \in Nat, NEW w \in Nat \ {0}, a + b <= w
    PROVE  Share(a, t, w) + Share(b, t, w) <= t + 1
  <1>1. PICK x, y, d : x = 2 * a * t + w /\ y = 2 * b * t + w /\ d = 2 * w  OBVIOUS
  <1>2. PICK p, q : p = x \div d /\ q = y \div d  OBVIOUS
  <1>3. x \in Int /\ y \in Int /\ d \in Nat \ {0}  BY <1>1
  <1>4. p \in Int /\ p * d <= x /\ q \in Int /\ q * d <= y  BY <1>2, <1>3, Quotient
  <1>5. p * d \in Int /\ q * d \in Int /\ (p + q) * d = p * d + q * d /\ (p + q) * d \in Int
        BY <1>3, <1>4
  <1>6. (a + b) * (2 * t) <= w * (2 * t)
    <2>1. 2 * t \in Nat /\ a + b \in Int  OBVIOUS
    <2> QED  BY <2>1, TimesUp
  <1>7. (a + b) * (2 * t) = 2 * a * t + 2 * b * t  OBVIOUS
  <1>8. w * (2 * t) = t * d /\ t * d \in Int  BY <1>1
  <1>9. x + y <= t * d + d  BY <1>1, <1>6, <1>7, <1>8
  <1>10. (p + q) * d <= t * d + d  BY <1>3, <1>4, <1>5, <1>8, <1>9
  <1>11. ASSUME ~ (p + q <= t + 1) PROVE FALSE
    <2>1. t + 2 <= p + q /\ t + 2 \in Int /\ p + q \in Int  BY <1>4, <1>11
    <2>2. (t + 2) * d <= (p + q) * d  BY <1>3, <2>1, TimesUp
    <2>3. (t + 2) * d = t * d + 2 * d  BY <1>3
    <2> QED  BY <1>3, <1>5, <1>8, <1>10, <2>2, <2>3
  <1> QED  BY <1>1, <1>2, <1>4, <1>11 DEF Share

-----------------------------------------------------------------------------
(* What the transfers see of a step                                          *)
LEMMA TransfersOrNot ==
    ASSUME DeskInv, NEW h \in Handlers, Step(h)
    PROVE  \/ Concerns(h, TransferKinds) /\ TransfersStep(h)
           \/ StoodBy(TransferKinds) /\ UNCHANGED transfers
           \/ Crash(h) /\ UNCHANGED transfers
  <1>1. CASE MoneyStep(h)
    <2>1. CASE Concerns(h, WalletKinds) /\ WalletStep(h) /\ UNCHANGED transfers
          BY <2>1, WalletDesk, StoodBesideMoney
    <2>2. CASE Concerns(h, QuoteKinds) /\ QuotesStep(h) /\ UNCHANGED transfers
          BY <2>2, QuotesDesk, StoodBesideMoney
    <2> QED  BY <1>1, <2>1, <2>2, Zenon DEF MoneyStep
  <1>2. CASE StoodBy(MoneyKinds) /\ UNCHANGED funds  BY <1>2, StoodByFewer DEF MoneyKinds, funds
  <1>3. CASE Crash(h) /\ UNCHANGED funds  BY <1>3, Zenon DEF funds
  <1> QED  BY <1>1, <1>2, <1>3, MoneyOrNot

(* The parts of a charge                                                     *)
LEMMA PartsAdd ==
    ASSUME NEW a \in Nat
    PROVE  /\ \A l \in Legs : Part(l, a) \in Nat
           /\ Part("membership", a) + Part("store", a) = a
  <1>1. Min({Fee, a}) \in Nat /\ Min({Fee, a}) <= a  BY TransfersAssumption, MinOfTwo
  <1>2. Part("membership", a) = Min({Fee, a}) /\ Part("store", a) = a - Min({Fee, a})  BY DEF Part
  <1> QED  BY <1>1, <1>2 DEF Legs

(* A payment is written, and another made.                                   *)
LEMMA PaySet ==
    ASSUME pay \in Seq(PayRow), NEW p \in DOMAIN pay, NEW new \in PayRow, pay' = [pay EXCEPT ![p] = new]
    PROVE  /\ pay' \in Seq(PayRow) /\ DOMAIN pay' = DOMAIN pay
           /\ \A q \in DOMAIN pay : pay'[q] = IF q = p THEN new ELSE pay[q]
  OBVIOUS

LEMMA PayAdd ==
    ASSUME pay \in Seq(PayRow), NEW new \in PayRow, pay' = Append(pay, new)
    PROVE  /\ pay' \in Seq(PayRow) /\ Len(pay) \in Nat
           /\ Len(pay) + 1 \in DOMAIN pay' /\ pay'[Len(pay) + 1] = new /\ Len(pay) + 1 \notin DOMAIN pay
           /\ DOMAIN pay' = DOMAIN pay \cup {Len(pay) + 1}
           /\ \A q \in DOMAIN pay : pay'[q] = pay[q]
  OBVIOUS

(* What stays of a payment, whatever happens to it                           *)
PayKeeps ==
    \A p \in DOMAIN pay :
        /\ p \in DOMAIN pay' /\ pay'[p].hosted = pay[p].hosted
        /\ pay[p].paid => pay'[p].paid /\ pay'[p].amount = pay[p].amount
        /\ pay[p].refunded <= pay'[p].refunded /\ pay[p].totals \subseteq pay'[p].totals

LEMMA PayKept ==
    ASSUME TransfersInv, pay' = pay
    PROVE  PayKeeps
  <1>1. \A p \in DOMAIN pay : pay[p] \in PayRow  BY DEF TransfersInv, TransfersType
  <1>2. \A p \in DOMAIN pay : pay[p].refunded \in Nat  BY <1>1 DEF PayRow
  <1> QED  BY <1>2 DEF PayKeeps

(* A request goes on as it was.                                              *)
AsItWas(g) == Busy(g) /\ req'[g] = req[g]

LEMMA OthersAsTheyWere ==
    ASSUME NEW h \in Handlers, OthersStay(h)
    PROVE  \A g \in Handlers : Busy(g)' => g = h \/ AsItWas(g)
  BY DEF OthersStay, AsItWas

LEMMA MoneyReadsGo ==
    ASSUME MoneyReads, PayKeeps, Made \subseteq Made',
           \A g \in Handlers : Moving(g)' => AsItWas(g) \/ MoneyRead(g)'
    PROVE  MoneyReads'
  <1>1. ASSUME NEW g \in Handlers, MoneyRead(g), req'[g] = req[g] PROVE MoneyRead(g)'
        BY <1>1 DEF MoneyRead, PayKeeps, HasList
  <1>2. ASSUME NEW g \in Handlers, AsItWas(g), Moving(g)' PROVE MoneyRead(g)
        BY <1>2 DEF AsItWas, Moving, MoneyReads
  <1> QED  BY <1>1, <1>2 DEF MoneyReads, AsItWas

LEMMA OneChargeWas ==
    ASSUME PayKeeps, crossed \subseteq crossed', OneCharge'
    PROVE  OneCharge
  BY DEF OneCharge, Apart, Paid, PayKeeps

(* No payment is made, asked for or shown: what one call at a time knows stays.  *)
LEMMA CardsStand ==
    ASSUME TransfersInv, crossed \subseteq crossed',
           bill'.bundled = bill.bundled, bill'.current = bill.current, bill'.total \in {bill.total, Whole},
           split'.seen = split.seen, split'.second = split.second, DOMAIN pay' = DOMAIN pay,
           \A p \in DOMAIN pay :
              /\ pay'[p].hosted = pay[p].hosted /\ pay'[p].known = pay[p].known
              /\ pay'[p].amount = pay[p].amount
              /\ pay'[p].paid /\ pay'[p].late =>
                    (pay[p].paid /\ pay[p].late) \/ (CardsAlone => pay[p].amount = Whole),
           \A g \in Handlers : Busy(g)' /\ req'[g].kind = "card" =>
              AsItWas(g) \/ (CardsAlone => CardKnows(g)')
    PROVE  OnePayment'
  <1>1. SUFFICES ASSUME CardsAlone' PROVE OnePayment'  BY DEF OnePayment
  <1>2. CardsAlone  BY <1>1 DEF CardsAlone, Apart
  <1>3. Whole' = Whole  BY DEF Whole
  <1>4. \A p \in DOMAIN pay : /\ pay[p].known => p = bill.current
                              /\ pay[p].paid /\ pay[p].late => pay[p].amount = Whole
        BY <1>2 DEF TransfersInv, OnePayment
  <1>5. split.seen => bill.total = Whole /\ bill.current # NoPayment /\ pay[bill.current].amount = Whole
        BY <1>2 DEF TransfersInv, OnePayment
  <1>6. bill.current \in {NoPayment} \cup DOMAIN pay  BY DEF TransfersInv, TransfersType
  <1>7. ASSUME NEW g \in Handlers, Busy(g)', req'[g].kind = "card" PROVE CardKnows(g)'
    <2>1. CASE AsItWas(g)
      <3>1. CardKnows(g) /\ MoneyRead(g) /\ req'[g] = req[g]
        <4>1. Busy(g) /\ req'[g] = req[g] /\ req[g].kind = "card"  BY <1>7, <2>1 DEF AsItWas
        <4>2. Moving(g)  BY <4>1 DEF Moving, TransferKinds
        <4> QED  BY <1>2, <4>1, <4>2 DEF TransfersInv, OnePayment, MoneyReads
      <3>2. req[g].todo = <<"point">> => req[g].read.which \in DOMAIN pay  BY <3>1 DEF MoneyRead
      <3> QED  BY <1>3, <3>1, <3>2 DEF CardKnows
    <2> QED  BY <1>2, <1>7, <2>1
  <1>8. ASSUME NEW p \in DOMAIN pay'
        PROVE  /\ pay'[p].known => p = bill'.current
               /\ pay'[p].paid /\ pay'[p].late => pay'[p].amount = Whole'
        BY <1>2, <1>3, <1>4, <1>8
  <1>9. split'.seen => bill'.total = Whole' /\ bill'.current # NoPayment /\ pay'[bill'.current].amount = Whole'
    <2>1. SUFFICES ASSUME split.seen PROVE bill'.total = Whole' /\ bill'.current # NoPayment /\ pay'[bill'.current].amount = Whole'
          OBVIOUS
    <2>2. bill.current \in DOMAIN pay /\ bill.total = Whole /\ pay[bill.current].amount = Whole /\ bill.current # NoPayment
          BY <1>5, <1>6, <2>1
    <2> QED  BY <1>3, <2>2
  <1> QED  BY <1>7, <1>8, <1>9 DEF OnePayment

(* Nothing is transferred or reversed.                                       *)
LEMMA LegsStand ==
    ASSUME TransfersInv, crossed \subseteq crossed', PayKeeps,
           TransfersType', leg' = leg, reversals' = reversals, split.failed => split'.failed,
           split'.followed = split.followed,
           \A g \in Handlers : Busy(g)' /\ req'[g].kind = "undo" => AsItWas(g) \/ UndoKnows(g)'
    PROVE  LegsApart' /\ LegsReversed'
  <1>1. /\ leg \in [Legs -> LegRow] /\ pay \in Seq(PayRow) /\ pay' \in Seq(PayRow)
        /\ (\A p \in DOMAIN pay : SoundPay(pay[p])) /\ split.followed \subseteq Nat
        BY DEF TransfersInv, TransfersType
  <1>2. Made' = Made /\ LegsApart  BY DEF Made, TransfersInv
  <1>3. ASSUME NEW l \in Made
        PROVE  /\ leg[l].charge \in DOMAIN pay /\ pay[leg[l].charge].paid
               /\ leg[l].amount = Part(l, pay[leg[l].charge].amount)
               /\ leg[l].charge \in DOMAIN pay' /\ pay'[leg[l].charge].paid
               /\ pay'[leg[l].charge].amount = pay[leg[l].charge].amount
               /\ pay[leg[l].charge].refunded <= pay'[leg[l].charge].refunded
        BY <1>2 DEF LegsApart, PayKeeps
  <1>4. LegsApart'  BY <1>2, <1>3 DEF LegsApart
  <1>5. ASSUME NEW l \in Made, NEW t PROVE OwedBack(l, t)' = OwedBack(l, t)
        BY <1>3 DEF OwedBack, Share
  <1>6. ASSUME NEW l \in Made
        PROVE  OwedBack(l, pay[leg[l].charge].refunded) <= OwedBack(l, pay'[leg[l].charge].refunded)
    <2>1. PICK p : p = leg[l].charge  OBVIOUS
    <2>2. pay[p] \in PayRow /\ pay'[p] \in PayRow /\ leg[l].amount \in Nat
          BY <1>1, <1>3, <2>1 DEF LegRow, Made
    <2>3. pay[p].refunded \in Nat /\ pay'[p].refunded \in Nat /\ pay[p].amount \in Nat \ {0}
          /\ pay[p].refunded <= pay'[p].refunded
          BY <1>3, <2>1, <2>2 DEF PayRow
    <2> QED  BY <2>1, <2>2, <2>3, ShareGrows DEF OwedBack
  <1>7. ASSUME OneCharge' PROVE OneCharge  BY <1>7, OneChargeWas
  <1>8. ASSUME OneCharge, NEW l \in Made PROVE leg[l].reversed <= OwedBack(l, pay[leg[l].charge].refunded)'
    <2>1. leg[l].reversed <= OwedBack(l, pay[leg[l].charge].refunded)
          BY <1>8 DEF TransfersInv, LegsReversed
    <2>2. PICK t : t = pay'[leg[l].charge].refunded  OBVIOUS
    <2>3. OwedBack(l, t)' = OwedBack(l, t)  BY <1>5
    <2>4. PICK p : p = leg[l].charge  OBVIOUS
    <2>5. pay[p] \in PayRow /\ pay'[p] \in PayRow /\ leg[l] \in LegRow  BY <1>1, <1>3, <2>4 DEF Made
    <2>6. OwedBack(l, pay[p].refunded) \in Nat /\ OwedBack(l, t) \in Nat /\ leg[l].reversed \in Nat
          BY <2>2, <2>4, <2>5, ShareIsNat DEF OwedBack, PayRow, LegRow
    <2>7. OwedBack(l, pay[p].refunded) <= OwedBack(l, t)  BY <1>6, <2>2, <2>4
    <2>8. OwedBack(l, pay[leg[l].charge].refunded)' = OwedBack(l, t)  BY <2>2, <2>3 DEF OwedBack
    <2> QED  BY <2>1, <2>4, <2>6, <2>7, <2>8
  <1>9. ASSUME OneCharge, NEW g \in Handlers, Busy(g)', req'[g].kind = "undo" PROVE UndoKnows(g)'
    <2>1. CASE AsItWas(g)
      <3>1. req'[g] = req[g] /\ Busy(g) /\ Moving(g) /\ (HasList(g)' <=> HasList(g))
            BY <1>9, <2>1 DEF AsItWas, Moving, TransferKinds, HasList
      <3>2. UndoKnows(g) /\ MoneyRead(g)  BY <1>9, <3>1 DEF TransfersInv, LegsReversed, MoneyReads
      <3>3. HasList(g) => DOMAIN req[g].read.seen \subseteq Made  BY <1>9, <3>1, <3>2 DEF MoneyRead
      <3> QED  BY <1>5, <3>1, <3>2, <3>3 DEF UndoKnows
    <2> QED  BY <1>9, <2>1
  <1>10. LegsReversed'  BY <1>2, <1>5, <1>7, <1>8, <1>9 DEF TransfersInv, LegsReversed
  <1> QED  BY <1>4, <1>10

(* A request of theirs ends, or nothing of theirs happens.                   *)
LEMMA TransfersLeft ==
    ASSUME TransfersInv, UNCHANGED transfers, crossed \subseteq crossed',
           \A g \in Handlers : Moving(g)' => AsItWas(g)
    PROVE  TransfersInv'
  <1>1. bill' = bill /\ pay' = pay /\ leg' = leg /\ reversals' = reversals /\ split' = split
        BY DEF transfers
  <1>2. TransfersType'  BY <1>1 DEF TransfersInv, TransfersType
  <1>3. PayKeeps /\ Made' = Made  BY <1>1, PayKept DEF Made
  <1>4. MoneyReads'  BY <1>3, MoneyReadsGo DEF TransfersInv
  <1>5. \A g \in Handlers : Busy(g)' /\ req'[g].kind \in {"card", "undo"} => AsItWas(g)
        BY DEF Moving, TransferKinds
  <1>6. OnePayment'  BY <1>1, <1>5, CardsStand
  <1>7. LegsApart' /\ LegsReversed'  BY <1>1, <1>2, <1>3, <1>5, LegsStand
  <1> QED  BY <1>2, <1>4, <1>6, <1>7 DEF TransfersInv

LEMMA TransfersBeside ==
    ASSUME TransfersInv, StoodBy(TransferKinds), UNCHANGED transfers
    PROVE  TransfersInv'
  <1>1. \A g \in Handlers : Moving(g)' => AsItWas(g)  BY DEF StoodBy, Busy, Moving, AsItWas
  <1> QED  BY <1>1, TransfersLeft DEF StoodBy

LEMMA TransfersCrash ==
    ASSUME DeskInv, TransfersInv, NEW h \in Handlers, Crash(h), UNCHANGED transfers
    PROVE  TransfersInv'
  <1>1. OthersStay(h) /\ ~ Busy(h)' /\ crossed' = crossed  BY AfterCrash
  <1>2. \A g \in Handlers : Moving(g)' => AsItWas(g)  BY <1>1, OthersAsTheyWere DEF Moving
  <1> QED  BY <1>1, <1>2, TransfersLeft

(* What the payments and transfers are stays so.                             *)
LEMMA RestStands ==
    ASSUME TransfersInv, NEW h \in Handlers, OthersStay(h), crossed \subseteq crossed', PayKeeps,
           TransfersType', leg' = leg, reversals' = reversals, split.failed => split'.failed,
           split'.followed = split.followed,
           Busy(h)' => MoneyRead(h)' /\ (req'[h].kind = "undo" => UndoKnows(h)'),
           OnePayment'
    PROVE  TransfersInv'
  <1>1. \A g \in Handlers : Busy(g)' => g = h \/ AsItWas(g)  BY OthersAsTheyWere
  <1>2. Made' = Made  BY DEF Made
  <1>3. MoneyReads'
    <2>1. \A g \in Handlers : Moving(g)' => AsItWas(g) \/ MoneyRead(g)'  BY <1>1 DEF Moving
    <2> QED  BY <1>2, <2>1, MoneyReadsGo DEF TransfersInv
  <1>4. LegsApart' /\ LegsReversed'
    <2>1. \A g \in Handlers : Busy(g)' /\ req'[g].kind = "undo" => AsItWas(g) \/ UndoKnows(g)'
          BY <1>1
    <2> QED  BY <2>1, LegsStand
  <1> QED  BY <1>3, <1>4 DEF TransfersInv

LEMMA AddRatesKeeps ==
    ASSUME DeskInv, TransfersInv, NEW h \in Handlers, AddRates(h)
    PROVE  TransfersInv'
  <1>1. /\ Begin(h, "rates", <<>>, {}) /\ bill' = [bill EXCEPT !.total = Whole]
        /\ pay' = pay /\ leg' = leg /\ reversals' = reversals /\ split' = split
        BY DEF AddRates
  <1>2. OthersStay(h) /\ ~ Busy(h)' /\ crossed \subseteq crossed'  BY <1>1, AfterBegin
  <1>3. bill \in [bundled : BOOLEAN, total : Nat \ {0}, current : Nat, pending : BOOLEAN]
        BY DEF TransfersInv, TransfersType
  <1>4. Whole \in Nat \ {0}  BY TransfersAssumption DEF Whole
  <1>5. /\ bill' \in [bundled : BOOLEAN, total : Nat \ {0}, current : Nat, pending : BOOLEAN]
        /\ bill'.bundled = bill.bundled /\ bill'.total = Whole /\ bill'.current = bill.current
        BY <1>1, <1>3, <1>4
  <1>6. TransfersType'  BY <1>1, <1>5 DEF TransfersInv, TransfersType
  <1>7. OnePayment'
    <2>1. \A g \in Handlers : Busy(g)' => AsItWas(g)  BY <1>2, OthersAsTheyWere
    <2> QED  BY <1>1, <1>2, <1>5, <2>1, CardsStand
  <1>8. PayKeeps  BY <1>1, PayKept
  <1> QED  BY <1>1, <1>2, <1>6, <1>7, <1>8, RestStands

LEMMA AskPaymentKeeps ==
    ASSUME DeskInv, TransfersInv, NEW h \in Handlers, AskPayment(h)
    PROVE  TransfersInv'
  <1>1. PICK read : /\ read = [total |-> bill.total, had |-> bill.current]
                    /\ Begin(h, "card", <<"payment">>, read)
        BY DEF AskPayment
  <1>2. bill' = bill /\ pay' = pay /\ leg' = leg /\ reversals' = reversals /\ split' = split
        BY DEF AskPayment, transfers
  <1>3. PICK plan : plan = <<"payment">> /\ Begin(h, "card", plan, read)  BY <1>1
  <1>4. OthersStay(h) /\ crossed \subseteq crossed'  BY <1>3, AfterBegin
  <1>5. Busy(h)' => req'[h].todo = plan /\ req'[h].kind = "card" /\ req'[h].read = read
        BY <1>3, AfterBegin
  <1>6. TransfersType'  BY <1>2 DEF TransfersInv, TransfersType
  <1>7. bill.total \in Nat \ {0} /\ bill.current \in {NoPayment} \cup DOMAIN pay
        BY DEF TransfersInv, TransfersType
  <1>8. Busy(h)' => MoneyRead(h)'  BY <1>1, <1>2, <1>3, <1>5, <1>7 DEF MoneyRead
  <1>9. Busy(h)' => (CardsAlone => CardKnows(h)')
    <2>1. SUFFICES ASSUME Busy(h)', CardsAlone PROVE CardKnows(h)'  OBVIOUS
    <2>2. split.seen => bill.total = Whole  BY <2>1 DEF TransfersInv, OnePayment
    <2>3. Whole' = Whole  BY <1>2 DEF Whole
    <2>4. req'[h].todo # <<"point">>  BY <1>3, <1>5, <2>1
    <2>5. req'[h].read.total = bill.total /\ req'[h].read.had = bill.current  BY <1>1, <1>5, <2>1
    <2> QED  BY <1>2, <2>2, <2>3, <2>4, <2>5 DEF CardKnows
  <1>10. OnePayment'
    <2>1. \A g \in Handlers : Busy(g)' /\ req'[g].kind = "card" => AsItWas(g) \/ (CardsAlone => CardKnows(g)')
          BY <1>4, <1>9, OthersAsTheyWere
    <2> QED  BY <1>2, <1>4, <2>1, CardsStand
  <1>11. PayKeeps  BY <1>2, PayKept
  <1> QED  BY <1>2, <1>4, <1>5, <1>6, <1>8, <1>10, <1>11, RestStands

LEMMA OpenPageKeeps ==
    ASSUME DeskInv, TransfersInv, NEW h \in Handlers, OpenPage(h)
    PROVE  TransfersInv'
  <1>1. PICK plan, read : plan = <<"session">> /\ read = <<>> /\ Begin(h, "hosted", plan, read)
        BY DEF OpenPage
  <1>2. bill' = bill /\ pay' = pay /\ leg' = leg /\ reversals' = reversals /\ split' = split
        BY DEF OpenPage, transfers
  <1>3. OthersStay(h) /\ crossed \subseteq crossed'  BY <1>1, AfterBegin
  <1>4. Busy(h)' => req'[h].todo = plan /\ req'[h].kind = "hosted" /\ req'[h].read = read
        BY <1>1, AfterBegin
  <1>5. TransfersType'  BY <1>2 DEF TransfersInv, TransfersType
  <1>6. Busy(h)' => MoneyRead(h)' /\ req'[h].kind # "undo"  BY <1>1, <1>4 DEF MoneyRead
  <1>7. OnePayment'
    <2>1. \A g \in Handlers : Busy(g)' /\ req'[g].kind = "card" => AsItWas(g)
          BY <1>3, <1>4, OthersAsTheyWere
    <2> QED  BY <1>2, <1>3, <2>1, CardsStand
  <1>8. PayKeeps  BY <1>2, PayKept
  <1> QED  BY <1>2, <1>3, <1>5, <1>6, <1>7, <1>8, RestStands

(* A payment is written, and another one made.                               *)
LEMMA PayWritten ==
    ASSUME TransfersInv, NEW p \in DOMAIN pay, NEW new \in PayRow, SoundPay(new),
           new.hosted = pay[p].hosted, pay[p].paid => new.paid /\ new.amount = pay[p].amount,
           pay[p].refunded <= new.refunded, pay[p].totals \subseteq new.totals,
           pay' = [pay EXCEPT ![p] = new]
    PROVE  /\ pay' \in Seq(PayRow) /\ DOMAIN pay' = DOMAIN pay /\ PayKeeps
           /\ pay'[p] = new /\ \A q \in DOMAIN pay : q # p => pay'[q] = pay[q]
           /\ \A q \in DOMAIN pay' : SoundPay(pay'[q])
  <1>1. pay \in Seq(PayRow) /\ \A q \in DOMAIN pay : SoundPay(pay[q])
        BY DEF TransfersInv, TransfersType
  <1>2. pay' \in Seq(PayRow) /\ DOMAIN pay' = DOMAIN pay  BY <1>1, PaySet
  <1>3. \A q \in DOMAIN pay : pay'[q] = IF q = p THEN new ELSE pay[q]  BY <1>1, PaySet
  <1>4. \A q \in DOMAIN pay : pay[q] \in PayRow  BY <1>1
  <1>5. \A q \in DOMAIN pay : pay[q].refunded \in Nat  BY <1>4 DEF PayRow
  <1>6. PayKeeps  BY <1>2, <1>3, <1>5 DEF PayKeeps
  <1> QED  BY <1>1, <1>2, <1>3, <1>6

LEMMA PayMade ==
    ASSUME TransfersInv, NEW hosted \in BOOLEAN, NEW amount \in Nat \ {0},
           pay' = Append(pay, NewPayment(hosted, amount))
    PROVE  /\ pay' \in Seq(PayRow) /\ PayKeeps
           /\ Len(pay) + 1 \in DOMAIN pay' /\ Len(pay) + 1 \notin DOMAIN pay
           /\ pay'[Len(pay) + 1].hosted = hosted /\ pay'[Len(pay) + 1].amount = amount
           /\ ~ pay'[Len(pay) + 1].known /\ ~ pay'[Len(pay) + 1].paid
           /\ DOMAIN pay' = DOMAIN pay \cup {Len(pay) + 1} /\ Len(pay) + 1 \in Nat
           /\ \A q \in DOMAIN pay : pay'[q] = pay[q]
           /\ \A q \in DOMAIN pay' : SoundPay(pay'[q])
  <1>1. pay \in Seq(PayRow) /\ \A q \in DOMAIN pay : SoundPay(pay[q])
        BY DEF TransfersInv, TransfersType
  <1>2. PICK new : new = NewPayment(hosted, amount)  OBVIOUS
  <1>3. new \in PayRow  BY <1>2 DEF NewPayment, PayRow
  <1>4. SoundPay(new) /\ new.hosted = hosted /\ new.amount = amount /\ ~ new.known /\ ~ new.paid
        BY <1>2 DEF NewPayment, SoundPay
  <1>5. PICK n : n = Len(pay) + 1  OBVIOUS
  <1>6. pay' \in Seq(PayRow) /\ n \in Nat /\ n \in DOMAIN pay' /\ n \notin DOMAIN pay /\ pay'[n] = new
        /\ DOMAIN pay' = DOMAIN pay \cup {n}
        BY <1>1, <1>2, <1>3, <1>5, PayAdd
  <1>7. \A q \in DOMAIN pay : pay'[q] = pay[q]  BY <1>1, <1>2, <1>3, PayAdd
  <1>8. \A q \in DOMAIN pay : pay[q] \in PayRow  BY <1>1
  <1>9. \A q \in DOMAIN pay : pay[q].refunded \in Nat  BY <1>8 DEF PayRow
  <1>10. PayKeeps  BY <1>6, <1>7, <1>9 DEF PayKeeps
  <1>11. \A q \in DOMAIN pay' : SoundPay(pay'[q])  BY <1>1, <1>4, <1>6, <1>7
  <1> QED  BY <1>4, <1>5, <1>6, <1>7, <1>10, <1>11

(* No other asks for a payment, if one call at a time does.                   *)
LEMMA NoOtherCard ==
    ASSUME DeskInv, NEW h \in Handlers, Busy(h), req[h].kind = "card", Apart("card", "card"), OthersStay(h)
    PROVE  \A g \in Handlers : Busy(g)' /\ req'[g].kind = "card" => g = h
  BY DEF DeskInv, Apart, OthersStay

LEMMA PaysKeeps ==
    ASSUME DeskInv, TransfersInv, NEW h \in Handlers, Pays(h)
    PROVE  TransfersInv'
  <1>1. PICK p \in DOMAIN pay :
            /\ pay[p].known /\ ~ pay[p].paid /\ Begin(h, "buyer", <<>>, {})
            /\ pay' = [pay EXCEPT ![p].paid = TRUE, ![p].late = split.seen]
        BY DEF Pays
  <1>2. bill' = bill /\ leg' = leg /\ reversals' = reversals /\ split' = split  BY DEF Pays
  <1>3. OthersStay(h) /\ ~ Busy(h)' /\ crossed \subseteq crossed'  BY <1>1, AfterBegin
  <1>4. pay \in Seq(PayRow) /\ pay[p] \in PayRow /\ SoundPay(pay[p]) /\ split.seen \in BOOLEAN
        BY DEF TransfersInv, TransfersType
  <1>5. PICK new : new = [pay[p] EXCEPT !.paid = TRUE, !.late = split.seen]  OBVIOUS
  <1>6. new \in PayRow /\ new.hosted = pay[p].hosted /\ new.amount = pay[p].amount /\ new.known = pay[p].known
        /\ new.refunded = pay[p].refunded /\ new.totals = pay[p].totals /\ new.paid /\ new.late = split.seen
        BY <1>4, <1>5 DEF PayRow
  <1>7. pay' = [pay EXCEPT ![p] = new]  BY <1>1, <1>4, <1>5
  <1>8. pay[p].refunded \in Nat  BY <1>4 DEF PayRow
  <1>9. SoundPay(new) /\ new.refunded <= pay[p].refunded /\ pay[p].refunded <= new.refunded
        BY <1>1, <1>4, <1>6, <1>8 DEF SoundPay
  <1>10. /\ pay' \in Seq(PayRow) /\ DOMAIN pay' = DOMAIN pay /\ PayKeeps
         /\ pay'[p] = new /\ \A q \in DOMAIN pay : q # p => pay'[q] = pay[q]
         /\ \A q \in DOMAIN pay' : SoundPay(pay'[q])
        BY <1>1, <1>6, <1>7, <1>9, PayWritten
  <1>11. TransfersType'  BY <1>2, <1>10 DEF TransfersInv, TransfersType
  <1>12. CardsAlone /\ split.seen => pay[p].amount = Whole  BY <1>1 DEF TransfersInv, OnePayment
  <1>13. OnePayment'
    <2>1. ASSUME NEW q \in DOMAIN pay
          PROVE  /\ pay'[q].hosted = pay[q].hosted /\ pay'[q].known = pay[q].known
                 /\ pay'[q].amount = pay[q].amount
                 /\ pay'[q].paid /\ pay'[q].late =>
                       (pay[q].paid /\ pay[q].late) \/ (CardsAlone => pay[q].amount = Whole)
      <3>1. CASE q = p  BY <1>6, <1>10, <1>12, <3>1
      <3>2. CASE q # p  BY <1>10, <3>2
      <3> QED  BY <3>1, <3>2
    <2>2. \A g \in Handlers : Busy(g)' => AsItWas(g)  BY <1>3, OthersAsTheyWere
    <2> QED  BY <1>2, <1>3, <1>10, <2>1, <2>2, CardsStand
  <1> QED  BY <1>2, <1>3, <1>10, <1>11, <1>13, RestStands

LEMMA RefundsKeeps ==
    ASSUME DeskInv, TransfersInv, NEW h \in Handlers, Refunds(h)
    PROVE  TransfersInv'
  <1>1. PICK p, total :
            /\ p \in DOMAIN pay /\ total \in pay[p].refunded + 1 .. pay[p].amount
            /\ pay[p].paid /\ Begin(h, "refund", <<>>, {})
            /\ pay' = [pay EXCEPT ![p].refunded = total, ![p].totals = @ \cup {total}]
        BY DEF Refunds
  <1>2. bill' = bill /\ leg' = leg /\ reversals' = reversals /\ split' = split  BY DEF Refunds
  <1>3. OthersStay(h) /\ ~ Busy(h)' /\ crossed \subseteq crossed'  BY <1>1, AfterBegin
  <1>4. pay \in Seq(PayRow) /\ pay[p] \in PayRow /\ SoundPay(pay[p])
        BY <1>1 DEF TransfersInv, TransfersType
  <1>5. PICK new : new = [pay[p] EXCEPT !.refunded = total, !.totals = @ \cup {total}]  OBVIOUS
  <1>6. pay[p].refunded \in Nat /\ pay[p].amount \in Nat /\ total \in Nat /\ pay[p].refunded <= total
        /\ total <= pay[p].amount
        BY <1>1, <1>4 DEF PayRow
  <1>7. new \in PayRow /\ new.hosted = pay[p].hosted /\ new.amount = pay[p].amount /\ new.known = pay[p].known
        /\ new.paid = pay[p].paid /\ new.late = pay[p].late
        /\ new.refunded = total /\ new.totals = pay[p].totals \cup {total}
        BY <1>4, <1>5, <1>6 DEF PayRow
  <1>8. pay' = [pay EXCEPT ![p] = new]  BY <1>1, <1>4, <1>5
  <1>9. SoundPay(new)
    <2>1. ASSUME NEW t \in new.totals PROVE new.paid /\ t <= new.refunded
      <3>1. CASE t \in pay[p].totals
        <4>1. t <= pay[p].refunded /\ t \in Nat  BY <1>4, <3>1 DEF SoundPay, PayRow
        <4> QED  BY <1>1, <1>6, <1>7, <4>1
      <3>2. CASE t = total  BY <1>1, <1>6, <1>7, <3>2
      <3> QED  BY <1>7, <2>1, <3>1, <3>2
    <2> QED  BY <1>1, <1>4, <1>6, <1>7, <2>1 DEF SoundPay
  <1>10. /\ pay' \in Seq(PayRow) /\ DOMAIN pay' = DOMAIN pay /\ PayKeeps
         /\ pay'[p] = new /\ \A q \in DOMAIN pay : q # p => pay'[q] = pay[q]
         /\ \A q \in DOMAIN pay' : SoundPay(pay'[q])
        BY <1>1, <1>6, <1>7, <1>8, <1>9, PayWritten
  <1>11. TransfersType'  BY <1>2, <1>10 DEF TransfersInv, TransfersType
  <1>12. OnePayment'
    <2>1. ASSUME NEW q \in DOMAIN pay
          PROVE  /\ pay'[q].hosted = pay[q].hosted /\ pay'[q].known = pay[q].known
                 /\ pay'[q].amount = pay[q].amount
                 /\ pay'[q].paid /\ pay'[q].late => pay[q].paid /\ pay[q].late
          BY <1>7, <1>10
    <2>2. \A g \in Handlers : Busy(g)' => AsItWas(g)  BY <1>3, OthersAsTheyWere
    <2> QED  BY <1>2, <1>3, <1>10, <2>1, <2>2, CardsStand
  <1> QED  BY <1>2, <1>3, <1>10, <1>11, <1>12, RestStands

(* Where a request is says what it has read.                                 *)
LEMMA Heads ==
    /\ Head(<<"payment">>) = "payment" /\ Head(<<"session">>) = "session" /\ Head(<<"point">>) = "point"
    /\ Head(<<"membership", "store">>) = "membership" /\ Head(<<"store">>) = "store"
    /\ Head(<<"list">>) = "list"
  OBVIOUS

LEMMA AtTransfer ==
    ASSUME TransfersInv, NEW h \in Handlers, Concerns(h, TransferKinds), Busy(h)
    PROVE  /\ Moving(h) /\ MoneyRead(h)
           /\ Head(req[h].todo) = "payment" => req[h].kind = "card" /\ req[h].todo = <<"payment">>
           /\ Head(req[h].todo) = "session" => req[h].kind = "hosted"
           /\ Head(req[h].todo) = "point" => req[h].kind \in {"card", "hosted"} /\ req[h].todo = <<"point">>
           /\ Head(req[h].todo) \in Legs =>
                 req[h].kind = "event" /\ req[h].todo \in {<<"membership", "store">>, <<"store">>}
           /\ Head(req[h].todo) = "list" => req[h].kind = "undo" /\ req[h].todo = <<"list">>
           /\ Head(req[h].todo) = "reverse" =>
                 req[h].kind = "undo" /\ req[h].todo \in Seq({"reverse"}) /\ HasList(h)
  <1>1. Moving(h) /\ MoneyRead(h)  BY DEF Concerns, Moving, TransfersInv, MoneyReads
  <1>2. req[h].todo # <<>>  BY DEF Busy
  <1>3. req[h].todo \in Seq({"reverse"}) => Head(req[h].todo) = "reverse"  BY <1>2
  <1>4. \/ req[h].kind = "card" /\ req[h].todo = <<"payment">>
        \/ req[h].kind = "hosted" /\ req[h].todo = <<"session">>
        \/ req[h].kind \in {"card", "hosted"} /\ req[h].todo = <<"point">>
        \/ req[h].kind = "event" /\ req[h].todo \in {<<"membership", "store">>, <<"store">>}
        \/ req[h].kind = "undo" /\ (req[h].todo = <<"list">> \/ req[h].todo \in Seq({"reverse"}))
        BY <1>1, Zenon DEF MoneyRead
  <1>5. HasList(h) <=> req[h].todo # <<"list">>  BY DEF HasList
  <1>6. ASSUME NEW x, x \in Legs PROVE x \in {"membership", "store"}  BY <1>6 DEF Legs
  <1>7. PICK todo : todo = req[h].todo  OBVIOUS
  <1>8. /\ todo = <<"payment">> => Head(todo) = "payment"
        /\ todo = <<"session">> => Head(todo) = "session"
        /\ todo = <<"point">> => Head(todo) = "point"
        /\ todo = <<"list">> => Head(todo) = "list"
        /\ todo \in {<<"membership", "store">>, <<"store">>} => Head(todo) \in {"membership", "store"}
        BY Heads
  <1>9. \/ req[h].kind = "card" /\ todo = <<"payment">> /\ Head(todo) = "payment"
        \/ req[h].kind = "hosted" /\ Head(todo) = "session"
        \/ req[h].kind \in {"card", "hosted"} /\ todo = <<"point">> /\ Head(todo) = "point"
        \/ /\ req[h].kind = "event" /\ todo \in {<<"membership", "store">>, <<"store">>}
           /\ Head(todo) \in {"membership", "store"}
        \/ req[h].kind = "undo" /\ todo = <<"list">> /\ Head(todo) = "list"
        \/ req[h].kind = "undo" /\ todo \in Seq({"reverse"}) /\ Head(todo) = "reverse"
        BY <1>3, <1>4, <1>7, <1>8, Zenon
  <1>10. todo = <<"list">> => Head(todo) = "list"  BY <1>8
  <1> QED  BY <1>1, <1>5, <1>6, <1>7, <1>9, <1>10

LEMMA MakeSessionKeeps ==
    ASSUME DeskInv, TransfersInv, NEW h \in Handlers, Concerns(h, TransferKinds), MakeSession(h)
    PROVE  TransfersInv'
  <1>1. PICK amount : /\ amount = Items + (IF bill.bundled THEN Fee ELSE 0)
                      /\ pay' = Append(pay, NewPayment(TRUE, amount))
        BY DEF MakeSession
  <1>2. PICK plan, read : /\ plan = <<"point">> /\ read = [which |-> Len(pay) + 1, whole |-> FALSE]
                          /\ GoOn(h, plan, read)
        BY DEF MakeSession
  <1>3. bill' = bill /\ leg' = leg /\ reversals' = reversals /\ split' = split /\ Busy(h)
        /\ Head(req[h].todo) = "session"
        BY DEF MakeSession, At
  <1>4. amount \in Nat \ {0}  BY <1>1, TransfersAssumption
  <1>5. OthersStay(h) /\ crossed' = crossed  BY <1>2, <1>3, AfterGoOn
  <1>6. Busy(h)' => req'[h].todo = plan /\ req'[h].kind = req[h].kind /\ req'[h].read = read
    <2>1. GoOn(h, plan, read) /\ Busy(h)  BY <1>2, <1>3
    <2> QED  BY <2>1, AfterGoOn
  <1>7. /\ pay' \in Seq(PayRow) /\ PayKeeps
        /\ Len(pay) + 1 \in DOMAIN pay'
        /\ pay'[Len(pay) + 1].hosted = TRUE
        /\ DOMAIN pay' = DOMAIN pay \cup {Len(pay) + 1}
        /\ \A q \in DOMAIN pay' : SoundPay(pay'[q])
        BY <1>1, <1>4, PayMade
  <1>8. TransfersType'  BY <1>3, <1>7 DEF TransfersInv, TransfersType
  <1>9. OnePayment'  BY <1>7 DEF OnePayment, CardsAlone
  <1>10. req[h].kind = "hosted"  BY <1>3, AtTransfer
  <1>11. req'[h].kind = "undo" => "hosted" = "undo" \/ ~ Busy(h)'  BY <1>6, <1>10
  <1>12. Busy(h)' => MoneyRead(h)'
    <2>1. read.which = Len(pay) + 1 /\ read.whole = FALSE  BY <1>2
    <2> QED  BY <1>2, <1>6, <1>7, <1>10, <2>1 DEF MoneyRead
  <1> QED  BY <1>3, <1>5, <1>7, <1>8, <1>9, <1>11, <1>12, RestStands

LEMMA PointAtKeeps ==
    ASSUME DeskInv, TransfersInv, NEW h \in Handlers, Concerns(h, TransferKinds), PointAt(h)
    PROVE  TransfersInv'
  <1>1. PICK n, whole : n = req[h].read.which /\ whole = req[h].read.whole  OBVIOUS
  <1>2. /\ Busy(h) /\ Head(req[h].todo) = "point" /\ Stop(h)
        /\ bill' = [bill EXCEPT !.current = n] /\ pay' = [pay EXCEPT ![n].known = TRUE]
        /\ split' = [split EXCEPT !.seen = @ \/ whole]
        /\ leg' = leg /\ reversals' = reversals
        BY <1>1 DEF PointAt, At
  <1>3. /\ req[h].kind \in {"card", "hosted"} /\ req[h].todo = <<"point">> /\ MoneyRead(h) /\ Moving(h)
        BY <1>2, AtTransfer
  <1>4. n \in DOMAIN pay /\ whole \in BOOLEAN /\ (req[h].kind = "hosted" => pay[n].hosted)
        BY <1>1, <1>3 DEF MoneyRead
  <1>5. OthersStay(h) /\ ~ Busy(h)' /\ crossed' = crossed  BY <1>2, AfterGoOn DEF Stop
  <1>6. /\ pay \in Seq(PayRow) /\ pay[n] \in PayRow /\ SoundPay(pay[n]) /\ n \in Nat
        /\ bill \in [bundled : BOOLEAN, total : Nat \ {0}, current : Nat, pending : BOOLEAN]
        /\ split \in [seen : BOOLEAN, second : BOOLEAN, failed : BOOLEAN, followed : SUBSET Nat]
        BY <1>4 DEF TransfersInv, TransfersType
  <1>7. /\ bill' \in [bundled : BOOLEAN, total : Nat \ {0}, current : Nat, pending : BOOLEAN]
        /\ bill'.current = n /\ bill'.total = bill.total /\ bill'.bundled = bill.bundled
        BY <1>2, <1>6
  <1>8. /\ split' \in [seen : BOOLEAN, second : BOOLEAN, failed : BOOLEAN, followed : SUBSET Nat]
        /\ split'.seen = (split.seen \/ whole) /\ split'.second = split.second
        /\ split'.failed = split.failed /\ split'.followed = split.followed
    <2>1. (split.seen \/ whole) \in BOOLEAN  BY Zenon
    <2> QED  BY <1>2, <1>6, <2>1
  <1>9. PICK new : new = [pay[n] EXCEPT !.known = TRUE]  OBVIOUS
  <1>10. new \in PayRow /\ new.hosted = pay[n].hosted /\ new.amount = pay[n].amount /\ new.known
         /\ new.paid = pay[n].paid /\ new.late = pay[n].late
         /\ new.refunded = pay[n].refunded /\ new.totals = pay[n].totals
        BY <1>6, <1>9 DEF PayRow
  <1>11. pay' = [pay EXCEPT ![n] = new]  BY <1>2, <1>4, <1>6, <1>9
  <1>12. pay[n].refunded \in Nat  BY <1>6 DEF PayRow
  <1>13. SoundPay(new) /\ pay[n].refunded <= new.refunded  BY <1>6, <1>10, <1>12 DEF SoundPay
  <1>14. /\ pay' \in Seq(PayRow) /\ DOMAIN pay' = DOMAIN pay /\ PayKeeps
         /\ pay'[n] = new /\ \A q \in DOMAIN pay : q # n => pay'[q] = pay[q]
         /\ \A q \in DOMAIN pay' : SoundPay(pay'[q])
        BY <1>4, <1>10, <1>11, <1>13, PayWritten
  <1>15. TransfersType'  BY <1>2, <1>4, <1>7, <1>8, <1>14 DEF TransfersInv, TransfersType
  <1>16. ASSUME CardsAlone' PROVE OnePayment'
    <2>1. CardsAlone
      <3>1. Apart("card", "card") /\ ~ split.second  BY <1>5, <1>8, <1>16 DEF CardsAlone, Apart
      <3>2. \A p \in DOMAIN pay : ~ pay[p].hosted  BY <1>14, <1>16 DEF CardsAlone, PayKeeps
      <3> QED  BY <3>1, <3>2 DEF CardsAlone
    <2>2. req[h].kind = "card"  BY <1>3, <1>4, <2>1 DEF CardsAlone
    <2>3. bill.current = NoPayment /\ (whole => pay[n].amount = Whole /\ bill.total = Whole)
      <3>1. CardKnows(h)  BY <1>2, <2>1, <2>2 DEF TransfersInv, OnePayment
      <3> QED  BY <1>1, <1>3, <3>1 DEF CardKnows
    <2>4. /\ \A p \in DOMAIN pay : /\ pay[p].known => p = NoPayment
                                   /\ pay[p].paid /\ pay[p].late => pay[p].amount = Whole
          /\ ~ split.seen
          BY <2>1, <2>3 DEF TransfersInv, OnePayment
    <2>5. Whole' = Whole  BY <1>7 DEF Whole
    <2>6. NoPayment \notin DOMAIN pay  BY <1>6 DEF NoPayment
    <2>7. ASSUME NEW p \in DOMAIN pay'
          PROVE  /\ pay'[p].known => p = bill'.current
                 /\ pay'[p].paid /\ pay'[p].late => pay'[p].amount = Whole'
      <3>1. CASE p = n  BY <1>7, <1>10, <1>14, <2>4, <2>5, <3>1
      <3>2. CASE p # n  BY <1>14, <2>4, <2>5, <2>6, <2>7, <3>2
      <3> QED  BY <3>1, <3>2
    <2>8. split'.seen => bill'.total = Whole' /\ bill'.current # NoPayment
                           /\ pay'[bill'.current].amount = Whole'
          BY <1>4, <1>7, <1>8, <1>10, <1>14, <2>3, <2>4, <2>5, <2>6
    <2>9. \A g \in Handlers : ~ (Busy(g)' /\ req'[g].kind = "card")
          BY <1>2, <1>5, <2>1, <2>2, NoOtherCard DEF CardsAlone
    <2> QED  BY <2>7, <2>8, <2>9 DEF OnePayment
  <1>17. OnePayment'  BY <1>16 DEF OnePayment
  <1> QED  BY <1>2, <1>5, <1>8, <1>14, <1>15, <1>17, RestStands

LEMMA MakePaymentKeeps ==
    ASSUME DeskInv, TransfersInv, NEW h \in Handlers, Concerns(h, TransferKinds), MakePayment(h)
    PROVE  TransfersInv'
  <1>1. PICK had, total : had = req[h].read.had /\ total = req[h].read.total  OBVIOUS
  <1>2. /\ Busy(h) /\ Head(req[h].todo) = "payment"
        /\ bill' = bill /\ leg' = leg /\ reversals' = reversals
        BY DEF MakePayment, At
  <1>3. \/ /\ Reusable(had) /\ Stop(h) /\ pay' = [pay EXCEPT ![had].amount = total]
           /\ split' = [split EXCEPT !.seen = @ \/ total = Whole]
        \/ Stop(h) /\ UNCHANGED <<pay, split>>
        \/ /\ pay' = Append(pay, NewPayment(FALSE, total))
           /\ GoOn(h, <<"point">>, [which |-> Len(pay) + 1, whole |-> total = Whole])
           /\ split' = [split EXCEPT !.second = @ \/ Reusable(had) \/ Settled(had)]
        BY <1>1 DEF MakePayment
  <1>4. req[h].kind = "card" /\ req[h].todo = <<"payment">> /\ MoneyRead(h) /\ Moving(h)
        BY <1>2, AtTransfer
  <1>5. total \in Nat \ {0} /\ had \in {NoPayment} \cup DOMAIN pay  BY <1>1, <1>4 DEF MoneyRead
  <1>6. CardsAlone => /\ had = bill.current /\ (split.seen => total = Whole)
                      /\ (total = Whole => bill.total = Whole)
        BY <1>1, <1>2, <1>4 DEF TransfersInv, OnePayment, CardKnows
  <1>7. /\ pay \in Seq(PayRow)
        /\ split \in [seen : BOOLEAN, second : BOOLEAN, failed : BOOLEAN, followed : SUBSET Nat]
        BY DEF TransfersInv, TransfersType
  <1>8. CardsAlone => /\ \A p \in DOMAIN pay : pay[p].known => p = bill.current
                      /\ \A p \in DOMAIN pay : pay[p].paid /\ pay[p].late => pay[p].amount = Whole
                      /\ split.seen => /\ bill.total = Whole /\ bill.current # NoPayment
                                       /\ pay[bill.current].amount = Whole
        BY DEF TransfersInv, OnePayment
  <1>9. Whole' = Whole  BY <1>2 DEF Whole
  <1>10. CASE Reusable(had) /\ Stop(h) /\ pay' = [pay EXCEPT ![had].amount = total]
              /\ split' = [split EXCEPT !.seen = @ \/ total = Whole]
    <2>1. OthersStay(h) /\ ~ Busy(h)' /\ crossed' = crossed  BY <1>2, <1>10, AfterGoOn DEF Stop
    <2>2. had \in DOMAIN pay /\ ~ pay[had].paid /\ had # NoPayment  BY <1>5, <1>10 DEF Reusable
    <2>3. pay[had] \in PayRow /\ SoundPay(pay[had])  BY <2>2 DEF TransfersInv, TransfersType
    <2>4. PICK new : new = [pay[had] EXCEPT !.amount = total]  OBVIOUS
    <2>5. new \in PayRow /\ new.hosted = pay[had].hosted /\ new.amount = total /\ new.known = pay[had].known
          /\ new.paid = pay[had].paid /\ new.late = pay[had].late
          /\ new.refunded = pay[had].refunded /\ new.totals = pay[had].totals
          BY <1>5, <2>3, <2>4 DEF PayRow
    <2>6. pay' = [pay EXCEPT ![had] = new]  BY <1>10, <2>2, <2>3, <2>4
    <2>7. SoundPay(new) /\ pay[had].refunded <= new.refunded  BY <1>5, <2>2, <2>3, <2>5 DEF SoundPay
    <2>8. /\ pay' \in Seq(PayRow) /\ DOMAIN pay' = DOMAIN pay /\ PayKeeps
          /\ pay'[had] = new /\ \A q \in DOMAIN pay : q # had => pay'[q] = pay[q]
          /\ \A q \in DOMAIN pay' : SoundPay(pay'[q])
          BY <2>2, <2>5, <2>6, <2>7, PayWritten
    <2>9. /\ split' \in [seen : BOOLEAN, second : BOOLEAN, failed : BOOLEAN, followed : SUBSET Nat]
          /\ split'.seen = (split.seen \/ total = Whole) /\ split'.second = split.second
          /\ split'.failed = split.failed /\ split'.followed = split.followed
      <3>1. (split.seen \/ total = Whole) \in BOOLEAN  BY Zenon
      <3> QED  BY <1>7, <1>10, <3>1
    <2>10. TransfersType'  BY <1>2, <2>8, <2>9 DEF TransfersInv, TransfersType
    <2>11. ASSUME CardsAlone' PROVE OnePayment'
      <3>1. CardsAlone
        <4>1. Apart("card", "card") /\ ~ split.second  BY <2>1, <2>9, <2>11 DEF CardsAlone, Apart
        <4>2. \A p \in DOMAIN pay : ~ pay[p].hosted  BY <2>8, <2>11 DEF CardsAlone, PayKeeps
        <4> QED  BY <4>1, <4>2 DEF CardsAlone
      <3>2. ASSUME NEW p \in DOMAIN pay'
            PROVE  /\ pay'[p].known => p = bill'.current
                   /\ pay'[p].paid /\ pay'[p].late => pay'[p].amount = Whole'
        <4>1. CASE p = had
          <5>1. had = bill'.current  BY <1>2, <1>6, <3>1
          <5>2. ~ pay'[had].paid  BY <2>2, <2>5, <2>8
          <5> QED  BY <4>1, <5>1, <5>2
        <4>2. CASE p # had
          <5>1. /\ pay[p].known => p = bill.current
                /\ pay[p].paid /\ pay[p].late => pay[p].amount = Whole
                BY <1>8, <2>8, <3>1, <3>2
          <5>2. pay'[p] = pay[p]  BY <2>8, <3>2, <4>2
          <5> QED  BY <1>2, <1>9, <5>1, <5>2
        <4> QED  BY <4>1, <4>2
      <3>3. split'.seen => bill'.total = Whole' /\ bill'.current # NoPayment
                             /\ pay'[bill'.current].amount = Whole'
        <4>1. had = bill.current /\ (total = Whole => bill.total = Whole)  BY <1>6, <3>1
        <4>2. split.seen \/ total = Whole => total = Whole  BY <1>6, <3>1
        <4> QED  BY <1>2, <1>9, <2>2, <2>5, <2>8, <2>9, <4>1, <4>2
      <3>4. \A g \in Handlers : ~ (Busy(g)' /\ req'[g].kind = "card")
            BY <1>2, <1>4, <2>1, <3>1, NoOtherCard DEF CardsAlone
      <3> QED  BY <3>2, <3>3, <3>4 DEF OnePayment
    <2>12. OnePayment'  BY <2>11 DEF OnePayment
    <2> QED  BY <1>2, <2>1, <2>8, <2>9, <2>10, <2>12, RestStands
  <1>11. CASE Stop(h) /\ UNCHANGED <<pay, split>>
    <2>1. OthersStay(h) /\ ~ Busy(h)' /\ crossed' = crossed  BY <1>2, <1>11, AfterGoOn DEF Stop
    <2>2. \A g \in Handlers : Moving(g)' => AsItWas(g)  BY <2>1, OthersAsTheyWere DEF Moving
    <2> QED  BY <1>2, <1>11, <2>1, <2>2, TransfersLeft DEF transfers
  <1>12. CASE /\ pay' = Append(pay, NewPayment(FALSE, total))
              /\ GoOn(h, <<"point">>, [which |-> Len(pay) + 1, whole |-> total = Whole])
              /\ split' = [split EXCEPT !.second = @ \/ Reusable(had) \/ Settled(had)]
    <2>1. PICK n, plan, read : /\ n = Len(pay) + 1 /\ plan = <<"point">>
                               /\ read = [which |-> n, whole |-> total = Whole]
                               /\ GoOn(h, plan, read)
          BY <1>12
    <2>2. OthersStay(h) /\ crossed' = crossed  BY <1>2, <2>1, AfterGoOn
    <2>3. Busy(h)' => req'[h].todo = plan /\ req'[h].kind = "card" /\ req'[h].read = read
      <3>1. GoOn(h, plan, read) /\ Busy(h)  BY <1>2, <2>1
      <3> QED  BY <1>4, <3>1, AfterGoOn
    <2>4. /\ pay' \in Seq(PayRow) /\ PayKeeps /\ n \in DOMAIN pay' /\ n \notin DOMAIN pay
          /\ pay'[n].hosted = FALSE /\ pay'[n].amount = total
          /\ ~ pay'[n].known /\ ~ pay'[n].paid
          /\ DOMAIN pay' = DOMAIN pay \cup {n} /\ n \in Nat
          /\ \A q \in DOMAIN pay : pay'[q] = pay[q]
          /\ \A q \in DOMAIN pay' : SoundPay(pay'[q])
          BY <1>5, <1>12, <2>1, PayMade
    <2>5. /\ split' \in [seen : BOOLEAN, second : BOOLEAN, failed : BOOLEAN, followed : SUBSET Nat]
          /\ split'.second = (split.second \/ Reusable(had) \/ Settled(had)) /\ split'.seen = split.seen
          /\ split'.failed = split.failed /\ split'.followed = split.followed
      <3>1. (split.second \/ Reusable(had) \/ Settled(had)) \in BOOLEAN  BY Zenon
      <3> QED  BY <1>7, <1>12, <3>1
    <2>6. TransfersType'  BY <1>2, <2>4, <2>5 DEF TransfersInv, TransfersType
    <2>7. read.which = n /\ read.whole = (total = Whole) /\ (total = Whole) \in BOOLEAN  BY <2>1
    <2>8. Busy(h)' => MoneyRead(h)' /\ req'[h].kind # "undo"
          BY <2>1, <2>3, <2>4, <2>7 DEF MoneyRead
    <2>9. ASSUME CardsAlone' PROVE OnePayment'
      <3>1. CardsAlone /\ ~ Reusable(had) /\ ~ Settled(had)
        <4>1. Apart("card", "card") /\ ~ split.second /\ ~ Reusable(had) /\ ~ Settled(had)
              BY <2>2, <2>5, <2>9 DEF CardsAlone, Apart
        <4>2. \A p \in DOMAIN pay : ~ pay[p].hosted  BY <2>4, <2>9 DEF CardsAlone, PayKeeps
        <4> QED  BY <4>1, <4>2 DEF CardsAlone
      <3>2. had = NoPayment /\ bill.current = NoPayment
            BY <1>5, <1>6, <3>1 DEF Reusable, Settled, CardsAlone
      <3>3. ~ split.seen  BY <1>8, <3>1, <3>2
      <3>4. ASSUME NEW p \in DOMAIN pay'
            PROVE  /\ pay'[p].known => p = bill'.current
                   /\ pay'[p].paid /\ pay'[p].late => pay'[p].amount = Whole'
        <4>1. CASE p = n  BY <2>4, <4>1
        <4>2. CASE p # n
          <5>1. p \in DOMAIN pay  BY <2>4, <3>4, <4>2
          <5>2. /\ pay[p].known => p = bill.current
                /\ pay[p].paid /\ pay[p].late => pay[p].amount = Whole
                BY <1>8, <3>1, <5>1
          <5>3. pay'[p] = pay[p]  BY <2>4, <5>1
          <5> QED  BY <1>2, <1>9, <5>2, <5>3
        <4> QED  BY <4>1, <4>2
      <3>5. ASSUME NEW g \in Handlers, Busy(g)', req'[g].kind = "card" PROVE CardKnows(g)'
        <4>1. g = h  BY <1>2, <1>4, <2>2, <3>1, <3>5, NoOtherCard DEF CardsAlone
        <4>2. req'[h].todo = <<"point">> /\ req'[h].todo # <<"payment">>
              BY <2>1, <2>3, <3>5, <4>1, Heads
        <4>3. req'[h].read.whole => pay'[req'[h].read.which].amount = Whole' /\ bill'.total = Whole'
              BY <1>2, <1>6, <1>9, <2>3, <2>4, <2>7, <3>1, <3>5, <4>1
        <4> QED  BY <1>2, <3>2, <4>1, <4>2, <4>3 DEF CardKnows
      <3> QED  BY <2>5, <3>3, <3>4, <3>5 DEF OnePayment
    <2>10. OnePayment'  BY <2>9 DEF OnePayment
    <2> QED  BY <1>2, <2>2, <2>4, <2>5, <2>6, <2>8, <2>10, RestStands
  <1> QED  BY <1>3, <1>10, <1>11, <1>12, Zenon

LEMMA SucceededKeeps ==
    ASSUME DeskInv, TransfersInv, NEW h \in Handlers, Succeeded(h)
    PROVE  TransfersInv'
  <1>1. PICK p : /\ p \in DOMAIN pay /\ pay[p].paid /\ bill' = [bill EXCEPT !.pending = FALSE]
                 /\ Begin(h, "event", IF bill.bundled THEN <<"membership", "store">> ELSE <<>>, [which |-> p])
        BY DEF Succeeded
  <1>2. PICK plan, read : /\ plan = (IF bill.bundled THEN <<"membership", "store">> ELSE <<>>)
                          /\ read = [which |-> p] /\ Begin(h, "event", plan, read)
        BY <1>1
  <1>3. pay' = pay /\ leg' = leg /\ reversals' = reversals /\ split' = split  BY DEF Succeeded
  <1>4. OthersStay(h) /\ crossed \subseteq crossed' /\ (Busy(h)' <=> plan # <<>>)
        BY <1>2, AfterBegin
  <1>5. Busy(h)' => req'[h].todo = plan /\ req'[h].kind = "event" /\ req'[h].read = read
        BY <1>2, AfterBegin
  <1>6. bill \in [bundled : BOOLEAN, total : Nat \ {0}, current : Nat, pending : BOOLEAN]
        BY DEF TransfersInv, TransfersType
  <1>7. /\ bill' \in [bundled : BOOLEAN, total : Nat \ {0}, current : Nat, pending : BOOLEAN]
        /\ bill'.bundled = bill.bundled /\ bill'.total = bill.total /\ bill'.current = bill.current
        BY <1>1, <1>6
  <1>8. TransfersType'  BY <1>3, <1>7 DEF TransfersInv, TransfersType
  <1>9. Busy(h)' => MoneyRead(h)' /\ req'[h].kind # "undo"
    <2>1. Busy(h)' => plan = <<"membership", "store">>  BY <1>2, <1>4
    <2>2. read.which = p  BY <1>2
    <2> QED  BY <1>1, <1>3, <1>5, <2>1, <2>2 DEF MoneyRead
  <1>10. OnePayment'
    <2>1. \A g \in Handlers : Busy(g)' /\ req'[g].kind = "card" => AsItWas(g)
          BY <1>4, <1>5, OthersAsTheyWere
    <2> QED  BY <1>3, <1>4, <1>7, <2>1, CardsStand
  <1>11. PayKeeps  BY <1>3, PayKept
  <1> QED  BY <1>3, <1>4, <1>8, <1>9, <1>10, <1>11, RestStands

LEMMA RefundedKeeps ==
    ASSUME DeskInv, TransfersInv, NEW h \in Handlers, Refunded(h)
    PROVE  TransfersInv'
  <1>1. PICK p, total :
            /\ p \in DOMAIN pay /\ total \in pay[p].totals
            /\ Begin(h, "undo", IF bill.bundled THEN <<"list">> ELSE <<>>, [charge |-> p, total |-> total])
        BY DEF Refunded
  <1>2. PICK plan, read : /\ plan = (IF bill.bundled THEN <<"list">> ELSE <<>>)
                          /\ read = [charge |-> p, total |-> total] /\ Begin(h, "undo", plan, read)
        BY <1>1
  <1>3. bill' = bill /\ pay' = pay /\ leg' = leg /\ reversals' = reversals /\ split' = split
        BY DEF Refunded, transfers
  <1>4. OthersStay(h) /\ crossed \subseteq crossed' /\ (Busy(h)' <=> plan # <<>>)
    <2>1. Begin(h, "undo", plan, read)  BY <1>2
    <2> QED  BY <2>1, AfterBegin
  <1>5. Busy(h)' => req'[h].todo = plan /\ req'[h].kind = "undo" /\ req'[h].read = read
    <2>1. Begin(h, "undo", plan, read)  BY <1>2
    <2> QED  BY <2>1, AfterBegin
  <1>6. TransfersType'  BY <1>3 DEF TransfersInv, TransfersType
  <1>7. Busy(h)' => plan = <<"list">>  BY <1>2, <1>4
  <1>8. Busy(h)' => MoneyRead(h)' /\ UndoKnows(h)'
    <2>1. read.charge = p /\ read.total = total  BY <1>2
    <2> QED  BY <1>1, <1>3, <1>5, <1>7, <2>1 DEF MoneyRead, HasList, UndoKnows
  <1>9. OnePayment'
    <2>1. \A g \in Handlers : Busy(g)' /\ req'[g].kind = "card" => AsItWas(g)
          BY <1>4, <1>5, OthersAsTheyWere
    <2> QED  BY <1>3, <1>4, <2>1, CardsStand
  <1>10. PayKeeps  BY <1>3, PayKept
  <1> QED  BY <1>3, <1>4, <1>6, <1>8, <1>9, <1>10, RestStands

LEMMA SomeLegs == Legs = {"membership", "store"} /\ IsFiniteSet(Legs) /\ Cardinality(Made) \in Nat
  <1>1. IsFiniteSet({}) /\ IsFiniteSet({} \cup {"membership"}) /\ IsFiniteSet({} \cup {"membership"} \cup {"store"})
        BY FS_EmptySet, FS_AddElement
  <1>2. Legs = {} \cup {"membership"} \cup {"store"} /\ Made \subseteq Legs  BY DEF Legs, Made
  <1> QED  BY <1>1, <1>2, FS_Subset, FS_CardinalityType DEF Legs

LEMMA ListTransfersKeeps ==
    ASSUME DeskInv, TransfersInv, NEW h \in Handlers, Concerns(h, TransferKinds), ListTransfers(h)
    PROVE  TransfersInv'
  <1>1. Busy(h) /\ Head(req[h].todo) = "list"  BY DEF ListTransfers, At
  <1>2. req[h].kind = "undo" /\ req[h].todo = <<"list">> /\ MoneyRead(h) /\ Moving(h)
        BY <1>1, AtTransfer
  <1>3. PICK c, total : c = req[h].read.charge /\ total = req[h].read.total  OBVIOUS
  <1>4. c \in DOMAIN pay /\ total \in pay[c].totals  BY <1>2, <1>3 DEF MoneyRead
  <1>5. bill' = bill /\ pay' = pay /\ leg' = leg /\ reversals' = reversals  BY DEF ListTransfers
  <1>6. leg \in [Legs -> LegRow]
        /\ split \in [seen : BOOLEAN, second : BOOLEAN, failed : BOOLEAN, followed : SUBSET Nat]
        BY DEF TransfersInv, TransfersType
  <1>7. Made' = Made /\ PayKeeps  BY <1>5, PayKept DEF Made
  <1>8. ASSUME NEW plan, NEW read, GoOn(h, plan, read),
               \/ /\ plan = (IF Made = {} THEN <<>> ELSE [i \in 1 .. Cardinality(Made) |-> "reverse"])
                  /\ read = [charge |-> c, total |-> total,
                             seen |-> [l \in Made |-> leg[l].reversed], left |-> Made]
                  /\ split' = split
               \/ plan = <<>> /\ split' = [split EXCEPT !.failed = TRUE]
        PROVE  TransfersInv'
    <2>1. OthersStay(h) /\ crossed' = crossed /\ (Busy(h)' <=> plan # <<>>)
          BY <1>1, <1>8, AfterGoOn
    <2>2. Busy(h)' => req'[h].todo = plan /\ req'[h].kind = "undo" /\ req'[h].read = read
          BY <1>1, <1>2, <1>8, AfterGoOn
    <2>3. /\ split' \in [seen : BOOLEAN, second : BOOLEAN, failed : BOOLEAN, followed : SUBSET Nat]
          /\ split'.seen = split.seen /\ split'.second = split.second
          /\ (split.failed => split'.failed) /\ split'.followed = split.followed
          BY <1>6, <1>8
    <2>4. TransfersType'  BY <1>5, <2>3 DEF TransfersInv, TransfersType
    <2>5. ASSUME Busy(h)' PROVE MoneyRead(h)' /\ UndoKnows(h)'
      <3>1. /\ plan = [i \in 1 .. Cardinality(Made) |-> "reverse"]
            /\ read = [charge |-> c, total |-> total,
                       seen |-> [l \in Made |-> leg[l].reversed], left |-> Made]
            BY <1>8, <2>1, <2>5
      <3>2. plan \in Seq({"reverse"})  BY <3>1, SomeLegs
      <3>3. PICK seen : seen = [l \in Made |-> leg[l].reversed]  OBVIOUS
      <3>4. /\ read.charge = c /\ read.total = total /\ read.seen = seen /\ read.left = Made
            /\ {"charge", "total", "seen", "left"} \subseteq DOMAIN read
            BY <3>1, <3>3
      <3>5. DOMAIN seen = Made /\ \A l \in Made : seen[l] = leg[l].reversed /\ seen[l] \in Nat
            BY <1>6, <3>3 DEF LegRow, Made
      <3>6. MoneyRead(h)'  BY <1>4, <1>5, <1>7, <2>2, <2>5, <3>2, <3>4, <3>5 DEF MoneyRead
      <3>7. UndoKnows(h)'  BY <1>5, <2>2, <2>5, <3>4, <3>5 DEF UndoKnows
      <3> QED  BY <3>6, <3>7
    <2>6. OnePayment'
      <3>1. \A g \in Handlers : Busy(g)' /\ req'[g].kind = "card" => AsItWas(g)
            BY <2>1, <2>2, OthersAsTheyWere
      <3> QED  BY <1>5, <2>1, <2>3, <3>1, CardsStand
    <2> QED  BY <1>5, <1>7, <2>1, <2>3, <2>4, <2>5, <2>6, RestStands
  <1>9. \/ /\ GoOn(h, IF Made = {} THEN <<>> ELSE [i \in 1 .. Cardinality(Made) |-> "reverse"],
                   [charge |-> c, total |-> total,
                    seen |-> [l \in Made |-> leg[l].reversed], left |-> Made])
           /\ split' = split
        \/ GoOn(h, <<>>, {}) /\ split' = [split EXCEPT !.failed = TRUE]
        BY <1>3 DEF ListTransfers, Stop
  <1> QED  BY <1>8, <1>9

(* Two reversals are not at work at once, if refunds are followed one by one.   *)
LEMMA NoOtherUndo ==
    ASSUME DeskInv, NEW h \in Handlers, Busy(h), req[h].kind = "undo", Apart("undo", "undo"), OthersStay(h)
    PROVE  \A g \in Handlers : Busy(g)' /\ req'[g].kind = "undo" => g = h
  BY DEF DeskInv, Apart, OthersStay

LEMMA TransferLegKeeps ==
    ASSUME DeskInv, TransfersInv, NEW h \in Handlers, Concerns(h, TransferKinds), TransferLeg(h)
    PROVE  TransfersInv'
  <1>1. PICK p, l : /\ p = req[h].read.which /\ l \in Legs /\ At(h, l) /\ Proceed(h)
                    /\ \/ /\ Part(l, pay[p].amount) > 0 /\ l \notin Made
                          /\ leg' = [leg EXCEPT ![l] = [NoLeg EXCEPT !.amount = Part(l, pay[p].amount),
                                                                     !.charge = p]]
                          /\ UNCHANGED split
                       \/ \E failed : leg' = leg /\ split' = [split EXCEPT !.failed = @ \/ failed]
        BY DEF TransferLeg
  <1>2. bill' = bill /\ pay' = pay /\ reversals' = reversals  BY DEF TransferLeg
  <1>3. Busy(h) /\ Head(req[h].todo) = l  BY <1>1 DEF At
  <1>4. /\ req[h].kind = "event" /\ req[h].todo \in {<<"membership", "store">>, <<"store">>}
        /\ MoneyRead(h) /\ Moving(h)
        BY <1>1, <1>3, AtTransfer
  <1>5. p \in DOMAIN pay /\ pay[p].paid  BY <1>1, <1>4, Heads DEF MoneyRead
  <1>6. PICK plan, read : /\ plan = Tail(req[h].todo) /\ read = req[h].read /\ GoOn(h, plan, read)
        BY <1>1 DEF Proceed
  <1>7. OthersStay(h) /\ crossed' = crossed /\ (Busy(h)' <=> plan # <<>>)
    <2>1. GoOn(h, plan, read)  BY <1>6
    <2> QED  BY <1>3, <2>1, AfterGoOn
  <1>8. Busy(h)' => req'[h].todo = plan /\ req'[h].kind = "event" /\ req'[h].read = read
    <2>1. GoOn(h, plan, read)  BY <1>6
    <2> QED  BY <1>3, <1>4, <2>1, AfterGoOn
  <1>9. Busy(h)' => plan = <<"store">>
    <2>1. Tail(<<"membership", "store">>) = <<"store">> /\ Tail(<<"store">>) = <<>>  OBVIOUS
    <2> QED  BY <1>4, <1>6, <1>7, <2>1
  <1>10. Busy(h)' => MoneyRead(h)' /\ req'[h].kind # "undo"
         BY <1>1, <1>2, <1>5, <1>6, <1>8, <1>9 DEF MoneyRead
  <1>11. /\ leg \in [Legs -> LegRow] /\ pay[p] \in PayRow
         /\ split \in [seen : BOOLEAN, second : BOOLEAN, failed : BOOLEAN, followed : SUBSET Nat]
         BY <1>5 DEF TransfersInv, TransfersType
  <1>12. PayKeeps  BY <1>2, PayKept
  <1>13. ASSUME split'.seen = split.seen, split'.second = split.second PROVE OnePayment'
    <2>1. \A g \in Handlers : Busy(g)' /\ req'[g].kind = "card" => AsItWas(g)
          BY <1>7, <1>8, OthersAsTheyWere
    <2> QED  BY <1>2, <1>7, <1>13, <2>1, CardsStand
  <1>14. CASE \E failed : leg' = leg /\ split' = [split EXCEPT !.failed = @ \/ failed]
    <2>1. PICK failed : leg' = leg /\ split' = [split EXCEPT !.failed = @ \/ failed]  BY <1>14
    <2>2. (split.failed \/ failed) \in BOOLEAN  BY Zenon
    <2>3. /\ split' \in [seen : BOOLEAN, second : BOOLEAN, failed : BOOLEAN, followed : SUBSET Nat]
          /\ split'.seen = split.seen /\ split'.second = split.second
          /\ split'.failed = (split.failed \/ failed) /\ split'.followed = split.followed
          BY <1>11, <2>1, <2>2
    <2>4. TransfersType'  BY <1>2, <2>1, <2>3 DEF TransfersInv, TransfersType
    <2> QED  BY <1>2, <1>7, <1>10, <1>12, <1>13, <2>1, <2>3, <2>4, RestStands
  <1>15. CASE /\ Part(l, pay[p].amount) > 0 /\ l \notin Made /\ UNCHANGED split
              /\ leg' = [leg EXCEPT ![l] = [NoLeg EXCEPT !.amount = Part(l, pay[p].amount), !.charge = p]]
    <2>1. PICK amount : amount = Part(l, pay[p].amount)  OBVIOUS
    <2>2. amount \in Nat /\ p \in Nat
      <3>1. pay[p].amount \in Nat  BY <1>11 DEF PayRow
      <3>2. pay \in Seq(PayRow)  BY DEF TransfersInv, TransfersType
      <3> QED  BY <1>1, <1>5, <2>1, <3>1, <3>2, PartsAdd
    <2>3. PICK new : /\ new = [NoLeg EXCEPT !.amount = amount, !.charge = p]
                     /\ leg' = [leg EXCEPT ![l] = new]
          BY <1>15, <2>1
    <2>4. new \in LegRow /\ new.amount = amount /\ new.charge = p /\ new.reversed = 0
          BY <2>2, <2>3 DEF NoLeg, LegRow
    <2>5. leg' \in [Legs -> LegRow] /\ leg'[l] = new /\ \A m \in Legs : m # l => leg'[m] = leg[m]
          BY <1>1, <1>11, <2>3, <2>4
    <2>6. new # NoLeg  BY <1>15, <2>1, <2>4 DEF NoLeg
    <2>7. Made' = Made \cup {l}  BY <1>1, <2>5, <2>6 DEF Made
    <2>8. TransfersType'  BY <1>2, <1>15, <2>5 DEF TransfersInv, TransfersType
    <2>9. MoneyReads'
      <3>1. \A g \in Handlers : Moving(g)' => AsItWas(g) \/ MoneyRead(g)'
            BY <1>7, <1>10, OthersAsTheyWere DEF Moving
      <3> QED  BY <1>12, <2>7, <3>1, MoneyReadsGo DEF TransfersInv
    <2>10. \A m \in Made : m \in Legs /\ m # l /\ leg'[m] = leg[m]  BY <1>15, <2>5 DEF Made
    <2>11. LegsApart'
      <3>1. ASSUME NEW m \in Made'
            PROVE  /\ leg'[m].charge \in DOMAIN pay /\ pay[leg'[m].charge].paid
                   /\ leg'[m].amount = Part(m, pay[leg'[m].charge].amount)
        <4>1. CASE m = l  BY <1>5, <2>1, <2>4, <2>5, <4>1
        <4>2. CASE m # l  BY <2>7, <2>10, <3>1, <4>2 DEF TransfersInv, LegsApart
        <4> QED  BY <4>1, <4>2
      <3> QED  BY <1>2, <3>1 DEF LegsApart
    <2>12. ASSUME OneCharge' PROVE LegsReversed'
      <3>1. OneCharge  BY <1>2, <1>7, <2>12 DEF OneCharge, Apart, Paid
      <3>2. ASSUME NEW m \in Made, NEW t PROVE OwedBack(m, t)' = OwedBack(m, t)
            BY <1>2, <2>10 DEF OwedBack, Share
      <3>3. ASSUME NEW m \in Made' PROVE leg'[m].reversed <= OwedBack(m, pay[leg[m].charge].refunded)'
        <4>1. CASE m = l
          <5>1. pay[p].refunded \in Nat /\ pay[p].amount \in Nat \ {0}  BY <1>11 DEF PayRow
          <5>2. Share(amount, pay[p].refunded, pay[p].amount) \in Nat  BY <2>2, <5>1, ShareIsNat
          <5>3. OwedBack(m, pay[leg[m].charge].refunded)' = Share(amount, pay[p].refunded, pay[p].amount)
                BY <1>2, <2>4, <2>5, <4>1 DEF OwedBack, Share
          <5> QED  BY <2>4, <2>5, <4>1, <5>2, <5>3
        <4>2. CASE m # l
          <5>1. m \in Made  BY <2>7, <3>3, <4>2
          <5>2. leg[m].reversed <= OwedBack(m, pay[leg[m].charge].refunded)
                BY <3>1, <5>1 DEF TransfersInv, LegsReversed
          <5>3. PICK t : t = pay[leg[m].charge].refunded  OBVIOUS
          <5>4. OwedBack(m, t)' = OwedBack(m, t)  BY <3>2, <5>1
          <5>5. OwedBack(m, pay[leg[m].charge].refunded)' = OwedBack(m, t)
                BY <1>2, <2>10, <5>1, <5>3, <5>4 DEF OwedBack
          <5> QED  BY <2>10, <5>1, <5>2, <5>3, <5>5
        <4> QED  BY <4>1, <4>2
      <3>4. \A r \in reversals : r.key.leg \in Made' /\ leg'[r.key.leg].reversed >= r.key.target
            BY <2>7, <2>10, <3>1 DEF TransfersInv, LegsReversed
      <3>5. split.failed \/ \A t \in split.followed, m \in Legs : m \in Made' /\ leg'[m].reversed >= OwedBack(m, t)'
            BY <2>7, <2>10, <3>1, <3>2 DEF TransfersInv, LegsReversed
      <3>6. ASSUME NEW g \in Handlers, Busy(g)', req'[g].kind = "undo" PROVE UndoKnows(g)'
        <4>1. AsItWas(g)  BY <1>7, <1>8, <3>6, OthersAsTheyWere
        <4>2. /\ req'[g] = req[g] /\ Busy(g) /\ Moving(g) /\ (HasList(g)' <=> HasList(g))
              BY <3>6, <4>1 DEF AsItWas, Moving, TransferKinds, HasList
        <4>3. UndoKnows(g) /\ MoneyRead(g)
              BY <3>1, <3>6, <4>2 DEF TransfersInv, LegsReversed, MoneyReads
        <4>4. HasList(g) => DOMAIN req[g].read.seen \subseteq Made /\ req[g].read.left \subseteq Made
              BY <3>6, <4>2, <4>3 DEF MoneyRead
        <4> QED  BY <1>15, <2>10, <3>2, <4>2, <4>3, <4>4 DEF UndoKnows
      <3> QED  BY <1>2, <1>15, <3>3, <3>4, <3>5, <3>6 DEF LegsReversed
    <2>13. LegsReversed'  BY <2>12 DEF LegsReversed
    <2> QED  BY <1>13, <1>15, <2>8, <2>9, <2>11, <2>13 DEF TransfersInv
  <1> QED  BY <1>1, <1>14, <1>15

LEMMA UndoKeeps ==
    ASSUME DeskInv, TransfersInv, NEW h \in Handlers, Concerns(h, TransferKinds), Undo(h)
    PROVE  TransfersInv'
  <1>1. PICK old : old = req[h].read  OBVIOUS
  <1> DEFINE Target(m) == Min({leg[m].amount, Share(leg[m].amount, old.total, pay[old.charge].amount)})
             Gap(m) == Target(m) - old.seen[m]
             Taken(m) == [key |-> [leg |-> m, target |-> Target(m)], amount |-> Gap(m)]
             Follows(m) == IF old.left = {m} /\ DOMAIN old.seen = Legs
                           THEN split.followed \cup {old.total} ELSE split.followed
  <1>2. PICK l : /\ l \in Legs /\ At(h, "reverse") /\ l \in old.left
                 /\ GoOn(h, Tail(req[h].todo), [old EXCEPT !.left = @ \ {l}])
                 /\ \/ /\ Gap(l) > 0 /\ leg[l].reversed + Gap(l) <= leg[l].amount
                       /\ leg' = [leg EXCEPT ![l].reversed = @ + Gap(l)]
                       /\ reversals' = reversals \cup {Taken(l)}
                       /\ split' = [split EXCEPT !.failed = @ \/ FALSE, !.followed = Follows(l)]
                    \/ /\ leg' = leg /\ reversals' = reversals
                       /\ split' = [split EXCEPT !.failed = @ \/ (Gap(l) > 0 /\ Taken(l) \notin reversals),
                                                 !.followed = Follows(l)]
        BY <1>1 DEF Undo, Outstanding
  <1>3. bill' = bill /\ pay' = pay  BY DEF Undo
  <1>4. Busy(h) /\ Head(req[h].todo) = "reverse"  BY <1>2 DEF At
  <1>5. /\ req[h].kind = "undo" /\ req[h].todo \in Seq({"reverse"}) /\ HasList(h)
        /\ MoneyRead(h) /\ Moving(h)
        BY <1>4, AtTransfer
  <1>6. PICK c, total, was, target :
            /\ c = old.charge /\ total = old.total /\ was = old.seen[l] /\ target = Target(l)
        OBVIOUS
  <1>7. /\ c \in DOMAIN pay /\ total \in pay[c].totals
        /\ {"charge", "total", "seen", "left"} \subseteq DOMAIN old
        /\ DOMAIN old.seen \subseteq Made /\ old.left \subseteq DOMAIN old.seen
        /\ \A m \in DOMAIN old.seen : old.seen[m] \in Nat
        BY <1>1, <1>5, <1>6 DEF MoneyRead
  <1>8. /\ leg \in [Legs -> LegRow] /\ pay[c] \in PayRow /\ SoundPay(pay[c])
        /\ split \in [seen : BOOLEAN, second : BOOLEAN, failed : BOOLEAN, followed : SUBSET Nat]
        BY <1>7 DEF TransfersInv, TransfersType
  <1>9. /\ pay[c].amount \in Nat \ {0} /\ pay[c].refunded \in Nat /\ total \in Nat /\ pay[c].paid
        /\ total <= pay[c].refunded /\ pay[c].refunded <= pay[c].amount
        BY <1>7, <1>8 DEF PayRow, SoundPay
  <1>10. /\ was \in Nat /\ l \in Made /\ leg[l].amount \in Nat /\ leg[l].reversed \in Nat
         BY <1>2, <1>6, <1>7, <1>8 DEF LegRow
  <1>11. target = Share(leg[l].amount, total, pay[c].amount) /\ target \in Nat /\ target <= leg[l].amount
    <2>1. PICK share : share = Share(leg[l].amount, total, pay[c].amount)  OBVIOUS
    <2>2. share \in Nat  BY <1>9, <1>10, <2>1, ShareIsNat
    <2>3. total <= pay[c].amount  BY <1>9
    <2>4. share <= leg[l].amount  BY <1>9, <1>10, <2>1, <2>3, ShareWithin
    <2> QED  BY <1>6, <1>10, <2>1, <2>2, <2>4, MinOfTwo
  <1>12. PICK gap, taken, follow :
            /\ gap = target - was /\ taken = [key |-> [leg |-> l, target |-> target], amount |-> gap]
            /\ follow = IF old.left = {l} /\ DOMAIN old.seen = Legs
                        THEN split.followed \cup {total} ELSE split.followed
         OBVIOUS
  <1>13. gap = Gap(l) /\ taken = Taken(l) /\ follow = Follows(l) /\ gap \in Int /\ follow \in SUBSET Nat
         BY <1>6, <1>8, <1>9, <1>10, <1>11, <1>12
  <1>14. \/ /\ gap > 0 /\ leg[l].reversed + gap <= leg[l].amount
            /\ leg' = [leg EXCEPT ![l].reversed = @ + gap] /\ reversals' = reversals \cup {taken}
            /\ split' = [split EXCEPT !.failed = @ \/ FALSE, !.followed = follow]
         \/ /\ leg' = leg /\ reversals' = reversals
            /\ split' = [split EXCEPT !.failed = @ \/ (gap > 0 /\ taken \notin reversals), !.followed = follow]
         BY <1>2, <1>13
  <1> HIDE DEF Target, Gap, Taken, Follows
  <1>15. PICK failed : /\ failed \in BOOLEAN
                       /\ split' = [split EXCEPT !.failed = failed, !.followed = follow]
                       /\ split.failed => failed
                       /\ \/ /\ gap > 0 /\ leg[l].reversed + gap <= leg[l].amount
                             /\ leg' = [leg EXCEPT ![l].reversed = @ + gap] /\ reversals' = reversals \cup {taken}
                          \/ leg' = leg /\ reversals' = reversals /\ (failed \/ ~ (gap > 0) \/ taken \in reversals)
    <2>1. CASE /\ gap > 0 /\ leg[l].reversed + gap <= leg[l].amount
               /\ leg' = [leg EXCEPT ![l].reversed = @ + gap] /\ reversals' = reversals \cup {taken}
               /\ split' = [split EXCEPT !.failed = @ \/ FALSE, !.followed = follow]
      <3>1. PICK failed : failed = (split.failed \/ FALSE)  OBVIOUS
      <3>2. failed \in BOOLEAN /\ (split.failed => failed)  BY <3>1, Zenon
      <3> QED  BY <2>1, <3>1, <3>2
    <2>2. CASE /\ leg' = leg /\ reversals' = reversals
               /\ split' = [split EXCEPT !.failed = @ \/ (gap > 0 /\ taken \notin reversals), !.followed = follow]
      <3>1. PICK failed : failed = (split.failed \/ (gap > 0 /\ taken \notin reversals))  OBVIOUS
      <3>2. failed \in BOOLEAN /\ (split.failed => failed) /\ (failed \/ ~ (gap > 0) \/ taken \in reversals)
            BY <3>1, Zenon
      <3> QED  BY <2>2, <3>1, <3>2
    <2> QED  BY <1>14, <2>1, <2>2
  <1>16. /\ split' \in [seen : BOOLEAN, second : BOOLEAN, failed : BOOLEAN, followed : SUBSET Nat]
         /\ split'.seen = split.seen /\ split'.second = split.second
         /\ split'.failed = failed /\ split'.followed = follow
         BY <1>8, <1>13, <1>15
  <1>17. PICK plan, read : /\ plan = Tail(req[h].todo) /\ read = [old EXCEPT !.left = @ \ {l}]
                           /\ GoOn(h, plan, read)
         BY <1>2
  <1>18. OthersStay(h) /\ crossed' = crossed /\ (Busy(h)' <=> plan # <<>>)
    <2>1. GoOn(h, plan, read)  BY <1>17
    <2> QED  BY <1>4, <2>1, AfterGoOn
  <1>19. Busy(h)' => req'[h].todo = plan /\ req'[h].kind = "undo" /\ req'[h].read = read
    <2>1. GoOn(h, plan, read)  BY <1>17
    <2> QED  BY <1>4, <1>5, <2>1, AfterGoOn
  <1>20. plan \in Seq({"reverse"})  BY <1>4, <1>5, <1>17 DEF Busy
  <1>21. /\ read.charge = c /\ read.total = total /\ read.seen = old.seen /\ read.left = old.left \ {l}
         /\ DOMAIN read = DOMAIN old
    <2>1. "charge" \in DOMAIN old /\ "total" \in DOMAIN old /\ "seen" \in DOMAIN old /\ "left" \in DOMAIN old
          BY <1>7
    <2> QED  BY <1>6, <1>17, <2>1
  <1>22. /\ leg' \in [Legs -> LegRow] /\ Made' = Made
         /\ \A m \in Legs : leg'[m].amount = leg[m].amount /\ leg'[m].charge = leg[m].charge
         /\ \A m \in Legs : m # l => leg'[m] = leg[m]
         /\ leg'[l].reversed \in Nat /\ leg[l].reversed <= leg'[l].reversed
    <2>1. CASE leg' = leg  BY <1>2, <1>8, <1>10, <2>1 DEF Made, LegRow
    <2>2. CASE gap > 0 /\ leg' = [leg EXCEPT ![l].reversed = @ + gap]
      <3>1. leg[l] \in LegRow  BY <1>2, <1>8
      <3>2. PICK more : more = leg[l].reversed + gap  OBVIOUS
      <3>3. more \in Nat /\ more > 0 /\ leg[l].reversed <= more  BY <1>10, <1>13, <2>2, <3>2
      <3>4. PICK new : new = [leg[l] EXCEPT !.reversed = more]  OBVIOUS
      <3>5. new \in LegRow /\ new.reversed = more /\ new.amount = leg[l].amount /\ new.charge = leg[l].charge
            BY <3>1, <3>3, <3>4 DEF LegRow
      <3>6. leg' = [leg EXCEPT ![l] = new]  BY <1>2, <1>8, <2>2, <3>1, <3>2, <3>4
      <3>7. leg' \in [Legs -> LegRow] /\ leg'[l] = new /\ \A m \in Legs : m # l => leg'[m] = leg[m]
            BY <1>2, <1>8, <3>5, <3>6
      <3>8. new # NoLeg  BY <3>3, <3>5 DEF NoLeg
      <3>9. Made' = Made  BY <1>10, <3>7, <3>8 DEF Made
      <3> QED  BY <3>3, <3>5, <3>7, <3>9
    <2> QED  BY <1>15, <2>1, <2>2
  <1>23. TransfersType'
    <2>1. \A r \in reversals : r.key.target \in Nat  BY DEF TransfersInv, TransfersType
    <2>2. \A r \in reversals' : r.key.target \in Nat  BY <1>11, <1>12, <1>15, <2>1
    <2> QED  BY <1>3, <1>16, <1>22, <2>2 DEF TransfersInv, TransfersType
  <1>24. PayKeeps  BY <1>3, PayKept
  <1>25. Busy(h)' => MoneyRead(h)'  BY <1>3, <1>7, <1>19, <1>20, <1>21, <1>22 DEF MoneyRead
  <1>26. MoneyReads'
    <2>1. \A g \in Handlers : Moving(g)' => AsItWas(g) \/ MoneyRead(g)'
          BY <1>18, <1>25, OthersAsTheyWere DEF Moving
    <2> QED  BY <1>22, <1>24, <2>1, MoneyReadsGo DEF TransfersInv
  <1>27. OnePayment'
    <2>1. \A g \in Handlers : Busy(g)' /\ req'[g].kind = "card" => AsItWas(g)
          BY <1>18, <1>19, OthersAsTheyWere
    <2> QED  BY <1>3, <1>16, <1>18, <2>1, CardsStand
  <1>28. LegsApart'  BY <1>3, <1>22 DEF TransfersInv, LegsApart, Made
  <1>29. ASSUME OneCharge' PROVE LegsReversed'
    <2>1. OneCharge  BY <1>3, <1>18, <1>29 DEF OneCharge, Apart, Paid
    <2>2. UndoKnows(h)  BY <1>4, <1>5, <2>1 DEF TransfersInv, LegsReversed
    <2>3. \A m \in old.left : old.seen[m] = leg[m].reversed  BY <1>1, <1>5, <2>2 DEF UndoKnows
    <2>4. was = leg[l].reversed  BY <1>2, <1>6, <2>3
    <2>5. ASSUME NEW m \in Made PROVE leg[m].charge = c /\ m \in Legs
          BY <1>3, <1>7, <1>9, <2>1 DEF TransfersInv, LegsApart, OneCharge, Paid, Made
    <2>6. ASSUME NEW m \in Made, NEW t
          PROVE  OwedBack(m, t)' = OwedBack(m, t) /\ OwedBack(m, t) = Share(leg[m].amount, t, pay[c].amount)
          BY <1>3, <1>22, <2>5 DEF OwedBack, Share
    <2>7. target = OwedBack(l, total)  BY <1>10, <1>11, <2>6
    <2>8. leg'[l].reversed <= OwedBack(l, pay[c].refunded)
      <3>1. OwedBack(l, total) <= OwedBack(l, pay[c].refunded) /\ OwedBack(l, pay[c].refunded) \in Nat
        <4>1. /\ OwedBack(l, total) = Share(leg[l].amount, total, pay[c].amount)
              /\ OwedBack(l, pay[c].refunded) = Share(leg[l].amount, pay[c].refunded, pay[c].amount)
              BY <1>10, <2>6
        <4>2. Share(leg[l].amount, total, pay[c].amount) <= Share(leg[l].amount, pay[c].refunded, pay[c].amount)
              BY <1>9, <1>10, ShareGrows
        <4>3. Share(leg[l].amount, pay[c].refunded, pay[c].amount) \in Nat
              BY <1>9, <1>10, ShareIsNat
        <4> QED  BY <4>1, <4>2, <4>3
      <3>2. leg[l].reversed <= OwedBack(l, pay[c].refunded)
        <4>1. leg[l].reversed <= OwedBack(l, pay[leg[l].charge].refunded)
              BY <1>10, <2>1 DEF TransfersInv, LegsReversed
        <4> QED  BY <1>10, <2>5, <4>1
      <3>3. leg'[l].reversed = leg[l].reversed \/ leg'[l].reversed = leg[l].reversed + gap
        <4>1. CASE leg' = leg  BY <4>1
        <4>2. CASE leg' = [leg EXCEPT ![l].reversed = @ + gap]  BY <1>2, <1>8, <4>2
        <4> QED  BY <1>15, <4>1, <4>2
      <3> QED  BY <1>10, <1>11, <1>12, <2>4, <2>7, <3>1, <3>2, <3>3
    <2>9. /\ \A r \in reversals' : r.key.leg \in Made /\ leg'[r.key.leg].reversed >= r.key.target
          /\ failed \/ leg'[l].reversed >= target
      <3>1. \A r \in reversals : r.key.leg \in Made /\ leg[r.key.leg].reversed >= r.key.target
            BY <2>1 DEF TransfersInv, LegsReversed
      <3>2. taken.key.leg = l /\ taken.key.target = target  BY <1>12
      <3>3. CASE leg' = leg /\ reversals' = reversals /\ (failed \/ ~ (gap > 0) \/ taken \in reversals)
        <4>1. taken \in reversals => leg[l].reversed >= target  BY <3>1, <3>2
        <4>2. ~ (gap > 0) => leg[l].reversed >= target  BY <1>10, <1>11, <1>12, <2>4
        <4> QED  BY <3>1, <3>3, <4>1, <4>2
      <3>4. CASE /\ leg' = [leg EXCEPT ![l].reversed = @ + gap] /\ reversals' = reversals \cup {taken}
        <4>1. leg'[l].reversed = leg[l].reversed + gap  BY <1>2, <1>8, <3>4
        <4>2. leg'[l].reversed = target  BY <1>10, <1>11, <1>12, <2>4, <4>1
        <4>3. ASSUME NEW r \in reversals PROVE r.key.leg \in Made /\ leg'[r.key.leg].reversed >= r.key.target
          <5>1. r.key.leg \in Made /\ leg[r.key.leg].reversed >= r.key.target  BY <3>1
          <5>2. CASE r.key.leg = l
            <6>1. r.key.target \in Nat  BY DEF TransfersInv, TransfersType
            <6> QED  BY <1>10, <1>22, <5>1, <5>2, <6>1
          <5>3. CASE r.key.leg # l  BY <1>22, <5>1, <5>3 DEF Made
          <5> QED  BY <5>2, <5>3
        <4>4. taken.key.leg \in Made /\ leg'[taken.key.leg].reversed >= taken.key.target
              BY <1>10, <1>11, <3>2, <4>2
        <4> QED  BY <1>11, <3>4, <4>2, <4>3, <4>4
      <3> QED  BY <1>15, <3>3, <3>4
    <2>10. failed \/ leg'[l].reversed >= OwedBack(l, total)  BY <2>7, <2>9
    <2>11. ASSUME NEW m \in Made PROVE leg'[m].reversed <= OwedBack(m, pay[leg[m].charge].refunded)'
      <3>1. PICK t : t = pay[c].refunded  OBVIOUS
      <3>2. OwedBack(m, pay[leg[m].charge].refunded)' = OwedBack(m, t)
        <4>1. OwedBack(m, t)' = OwedBack(m, t)  BY <2>6
        <4> QED  BY <1>3, <1>22, <2>5, <3>1, <4>1 DEF OwedBack
      <3>3. CASE m = l  BY <2>8, <3>1, <3>2, <3>3
      <3>4. CASE m # l
        <4>1. leg[m].reversed <= OwedBack(m, pay[leg[m].charge].refunded)
              BY <2>1 DEF TransfersInv, LegsReversed
        <4> QED  BY <1>22, <2>5, <3>1, <3>2, <3>4, <4>1
      <3> QED  BY <3>3, <3>4
    <2>12. ASSUME NEW m \in Made, NEW t, leg[m].reversed >= OwedBack(m, t), OwedBack(m, t) \in Int
           PROVE  leg'[m].reversed >= OwedBack(m, t)'
      <3>1. PICK x : x = OwedBack(m, t) /\ x = OwedBack(m, t)'  BY <2>6
      <3>2. leg[m].reversed \in Nat  BY <1>8, <2>5 DEF LegRow
      <3> QED  BY <1>22, <2>5, <2>12, <3>1, <3>2
    <2>13. ASSUME NEW m \in Made, NEW t \in Nat PROVE OwedBack(m, t) \in Int
      <3>1. leg[m].amount \in Nat  BY <1>8, <2>5 DEF LegRow
      <3>2. Share(leg[m].amount, t, pay[c].amount) \in Nat  BY <1>9, <3>1, ShareIsNat
      <3> QED  BY <2>6, <3>2
    <2>14. failed \/ \A m \in DOMAIN old.seen \ (old.left \ {l}) : leg'[m].reversed >= OwedBack(m, total)'
      <3>1. SUFFICES ASSUME ~ failed, NEW m \in DOMAIN old.seen \ (old.left \ {l})
                     PROVE  leg'[m].reversed >= OwedBack(m, total)'
            OBVIOUS
      <3>2. CASE m = l  BY <1>10, <2>6, <2>10, <3>1, <3>2
      <3>3. CASE m # l
        <4>1. m \in DOMAIN old.seen \ old.left /\ m \in Made /\ ~ split.failed
              BY <1>7, <1>15, <3>1, <3>3
        <4>2. leg[m].reversed >= OwedBack(m, total)  BY <1>1, <1>5, <1>6, <2>2, <4>1 DEF UndoKnows
        <4> QED  BY <1>9, <2>12, <2>13, <4>1, <4>2
      <3> QED  BY <3>2, <3>3
    <2>15. failed \/ \A t \in follow, m \in Legs : m \in Made /\ leg'[m].reversed >= OwedBack(m, t)'
      <3>1. SUFFICES ASSUME ~ failed, NEW t \in follow, NEW m \in Legs
                     PROVE  m \in Made /\ leg'[m].reversed >= OwedBack(m, t)'
            OBVIOUS
      <3>2. CASE t \in split.followed
        <4>1. m \in Made /\ leg[m].reversed >= OwedBack(m, t)
              BY <1>15, <2>1, <3>1, <3>2 DEF TransfersInv, LegsReversed
        <4>2. t \in Nat  BY <1>8, <3>2
        <4> QED  BY <2>12, <2>13, <4>1, <4>2
      <3>3. CASE t \notin split.followed
        <4>1. t = total /\ old.left = {l} /\ DOMAIN old.seen = Legs  BY <1>12, <3>1, <3>3
        <4>2. m \in DOMAIN old.seen \ (old.left \ {l})  BY <4>1
        <4> QED  BY <1>7, <2>14, <3>1, <4>1, <4>2
      <3> QED  BY <3>2, <3>3
    <2>16. ASSUME NEW g \in Handlers, Busy(g)', req'[g].kind = "undo" PROVE UndoKnows(g)'
      <3>1. g = h  BY <1>4, <1>5, <1>18, <2>1, <2>16, NoOtherUndo DEF OneCharge
      <3>2. \A m \in old.left \ {l} : old.seen[m] = leg'[m].reversed
        <4>1. ASSUME NEW m \in old.left \ {l} PROVE m \in Legs  BY <1>7 DEF Made
        <4> QED  BY <1>22, <2>3, <4>1
      <3> QED  BY <1>16, <1>19, <1>21, <2>14, <2>16, <3>1, <3>2 DEF UndoKnows
    <2> QED  BY <1>16, <1>22, <2>9, <2>11, <2>15, <2>16 DEF LegsReversed
  <1>30. LegsReversed'  BY <1>29 DEF LegsReversed
  <1> QED  BY <1>23, <1>26, <1>27, <1>28, <1>30 DEF TransfersInv

LEMMA TransfersKept ==
    ASSUME DeskInv, TransfersInv, NEW h \in Handlers, Step(h)
    PROVE  TransfersInv'
  <1>1. CASE Concerns(h, TransferKinds) /\ TransfersStep(h)
        BY <1>1, AddRatesKeeps, AskPaymentKeeps, MakePaymentKeeps, OpenPageKeeps, MakeSessionKeeps,
           PointAtKeeps, PaysKeeps, SucceededKeeps, TransferLegKeeps, RefundsKeeps, RefundedKeeps,
           ListTransfersKeeps, UndoKeeps, Zenon DEF TransfersStep
  <1>2. CASE StoodBy(TransferKinds) /\ UNCHANGED transfers  BY <1>2, TransfersBeside
  <1>3. CASE Crash(h) /\ UNCHANGED transfers  BY <1>3, TransfersCrash
  <1> QED  BY <1>1, <1>2, <1>3, TransfersOrNot

LEMMA TransfersBegins == Init => TransfersInv
  <1>1. SUFFICES ASSUME Init PROVE TransfersInv  OBVIOUS
  <1>2. PICK bundled \in BOOLEAN :
            bill = [bundled |-> bundled, total |-> Items + (IF bundled THEN Fee ELSE 0),
                    current |-> NoPayment, pending |-> TRUE]
        BY <1>1 DEF Init, TransfersInit
  <1>3. /\ pay = <<>> /\ leg = [l \in Legs |-> NoLeg] /\ reversals = {}
        /\ split = [seen |-> FALSE, second |-> FALSE, failed |-> FALSE, followed |-> {}]
        BY <1>1 DEF Init, TransfersInit
  <1>4. \A h \in Handlers : ~ Busy(h)  BY <1>1 DEF Init, DeskInit, Idle, Busy
  <1>5. /\ bill \in [bundled : BOOLEAN, total : Nat \ {0}, current : Nat, pending : BOOLEAN]
        /\ bill.current = NoPayment
    <2>1. Items + (IF bundled THEN Fee ELSE 0) \in Nat \ {0}  BY TransfersAssumption
    <2> QED  BY <1>2, <2>1 DEF NoPayment
  <1>6. NoLeg \in LegRow /\ Made = {}  BY <1>3 DEF NoLeg, LegRow, NoPayment, Made
  <1>7. TransfersType  BY <1>3, <1>5, <1>6 DEF TransfersType
  <1>8. MoneyReads /\ OnePayment /\ LegsApart /\ LegsReversed
        BY <1>3, <1>4, <1>6 DEF MoneyReads, Moving, OnePayment, LegsApart, LegsReversed
  <1> QED  BY <1>7, <1>8 DEF TransfersInv

LEMMA TransfersShows == TransfersInv => SplitsAddUp
  <1>1. SUFFICES ASSUME TransfersInv PROVE SplitsAddUp  OBVIOUS
  <1>2. /\ pay \in Seq(PayRow) /\ leg \in [Legs -> LegRow] /\ \A p \in DOMAIN pay : SoundPay(pay[p])
        BY <1>1 DEF TransfersInv, TransfersType
  <1>3. ASSUME CardsAlone
        PROVE  Cardinality(Paid) <= 1 /\ \A p \in Paid : pay[p].late => pay[p].amount = Whole
    <2>1. /\ \A p \in DOMAIN pay : pay[p].known => p = bill.current
          /\ \A p \in DOMAIN pay : pay[p].paid /\ pay[p].late => pay[p].amount = Whole
          BY <1>1, <1>3 DEF TransfersInv, OnePayment
    <2>2. Paid \subseteq {bill.current}  BY <1>2, <2>1 DEF Paid, SoundPay
    <2>3. IsFiniteSet({bill.current}) /\ Cardinality({bill.current}) = 1  BY FS_Singleton
    <2>4. Cardinality(Paid) <= Cardinality({bill.current})  BY <2>2, <2>3, FS_Subset
    <2> QED  BY <2>1, <2>3, <2>4 DEF Paid
  <1>4. ASSUME Cardinality(Paid) = 1, Apart("undo", "undo"), NEW p \in Paid
        PROVE  /\ Made = Legs => leg["membership"].amount + leg["store"].amount = pay[p].amount
               /\ \A l \in Made : leg[l].reversed <= Share(leg[l].amount, pay[p].refunded, pay[p].amount)
               /\ ~ split.failed => \A total \in split.followed : \A l \in Made :
                     leg[l].reversed >= Share(leg[l].amount, total, pay[p].amount)
               /\ leg["membership"].reversed + leg["store"].reversed <= pay[p].refunded + 1
    <2>1. IsFiniteSet(Paid)
      <3>1. IsFiniteSet(1 .. Len(pay))  BY <1>2, FS_Interval
      <3>2. Paid \subseteq 1 .. Len(pay)  BY <1>2 DEF Paid
      <3> QED  BY <3>1, <3>2, FS_Subset
    <2>2. PICK x : Paid = {x}  BY <1>4, <2>1, FS_Singleton
    <2>3. \A q, r \in Paid : q = r  BY <2>2
    <2>4. OneCharge  BY <1>4, <2>3 DEF OneCharge
    <2>5. ASSUME NEW l \in Made
          PROVE  /\ l \in Legs /\ leg[l].charge = p /\ leg[l].amount = Part(l, pay[p].amount)
                 /\ leg[l].amount \in Nat /\ leg[l].reversed \in Nat
      <3>1. /\ leg[l].charge \in DOMAIN pay /\ pay[leg[l].charge].paid
            /\ leg[l].amount = Part(l, pay[leg[l].charge].amount) /\ l \in Legs
            BY <1>1 DEF TransfersInv, LegsApart, Made
      <3>2. leg[l].charge \in Paid  BY <3>1 DEF Paid
      <3>3. leg[l] \in LegRow  BY <1>2, <3>1
      <3> QED  BY <1>4, <2>3, <3>1, <3>2, <3>3 DEF LegRow
    <2>6. pay[p] \in PayRow /\ SoundPay(pay[p])  BY <1>2, <1>4 DEF Paid
    <2>7. /\ pay[p].amount \in Nat \ {0} /\ pay[p].refunded \in Nat /\ pay[p].refunded <= pay[p].amount
          BY <2>6 DEF PayRow, SoundPay
    <2>8. Part("membership", pay[p].amount) \in Nat /\ Part("store", pay[p].amount) \in Nat
          /\ Part("membership", pay[p].amount) + Part("store", pay[p].amount) = pay[p].amount
          BY <2>7, PartsAdd DEF Legs
    <2>9. "membership" \in Legs /\ "store" \in Legs /\ Legs = {"membership", "store"}  BY DEF Legs
    <2>10. Made = Legs => leg["membership"].amount + leg["store"].amount = pay[p].amount
           BY <2>5, <2>8, <2>9
    <2>11. \A l \in Made : leg[l].reversed <= Share(leg[l].amount, pay[p].refunded, pay[p].amount)
           BY <1>1, <2>4, <2>5 DEF TransfersInv, LegsReversed, OwedBack
    <2>12. ~ split.failed => \A total \in split.followed : \A l \in Made :
              leg[l].reversed >= Share(leg[l].amount, total, pay[p].amount)
           BY <1>1, <2>4, <2>5 DEF TransfersInv, LegsReversed, OwedBack
    <2>13. ASSUME NEW l \in Legs
           PROVE  leg[l].reversed \in Nat
                  /\ leg[l].reversed <= Share(Part(l, pay[p].amount), pay[p].refunded, pay[p].amount)
      <3>1. CASE l \in Made  BY <2>5, <2>11, <3>1
      <3>2. CASE l \notin Made
        <4>1. leg[l].reversed = 0  BY <3>2 DEF Made, NoLeg
        <4>2. Part(l, pay[p].amount) \in Nat  BY <2>7, PartsAdd
        <4>3. Share(Part(l, pay[p].amount), pay[p].refunded, pay[p].amount) \in Nat
              BY <2>7, <4>2, ShareIsNat
        <4> QED  BY <4>1, <4>3
      <3> QED  BY <3>1, <3>2
    <2>14. leg["membership"].reversed + leg["store"].reversed <= pay[p].refunded + 1
      <3>1. PICK a, b, w, t : /\ a = Part("membership", pay[p].amount) /\ b = Part("store", pay[p].amount)
                              /\ w = pay[p].amount /\ t = pay[p].refunded
            OBVIOUS
      <3>2. a \in Nat /\ b \in Nat /\ w \in Nat \ {0} /\ t \in Nat /\ a + b <= w
            BY <2>7, <2>8, <3>1
      <3>3. Share(a, t, w) + Share(b, t, w) <= t + 1  BY <3>2, SharesOfTwo
      <3>4. Share(a, t, w) \in Nat /\ Share(b, t, w) \in Nat  BY <3>2, ShareIsNat
      <3>5. /\ leg["membership"].reversed \in Nat /\ leg["membership"].reversed <= Share(a, t, w)
            /\ leg["store"].reversed \in Nat /\ leg["store"].reversed <= Share(b, t, w)
            BY <2>9, <2>13, <3>1
      <3> QED  BY <3>1, <3>2, <3>3, <3>4, <3>5
    <2> QED  BY <2>10, <2>11, <2>12, <2>14
  <1> QED  BY <1>3, <1>4 DEF SplitsAddUp, CardsAlone

(* However card forms, Stripe's page, events, refunds and crashes interleave, a     *)
(* checkout asked for by one call at a time is paid once, and with its whole total   *)
(* once a call has seen it; and of a checkout paid once, the two accounts got the     *)
(* charge, no transfer is reversed beyond the part of it refunded, refunds followed   *)
(* up are reversed in full, and both together within a cent of what was refunded     *)
(* (payment.service.js applyOrderTransferSplit, reverseOrderTransfersForCharge).    *)
THEOREM SplitsStayTrue == Spec => []SplitsAddUp
  <1>1. DeskInv /\ TransfersInv /\ [Next]_<<desk, everything>> => TransfersInv'
    <2>1. ASSUME DeskInv, TransfersInv, NEW h \in Handlers, Step(h) PROVE TransfersInv'
          BY <2>1, TransfersKept
    <2>2. ASSUME TransfersInv, UNCHANGED <<desk, everything>> PROVE TransfersInv'
          BY <2>2, DeskStutters, TransfersBeside DEF everything, funds
    <2> QED  BY <2>1, <2>2, Zenon DEF Next
  <1>2. Init => DeskInv  BY DeskBegins
  <1> QED  BY <1>1, <1>2, TransfersBegins, DeskIsKept, TransfersShows, PTL DEF Spec

-----------------------------------------------------------------------------
(* Alerts: rows are numbered in turn and never removed,                      *)
AlertRow(s) ==
    /\ s = [n |-> s.n, user |-> s.user, variant |-> s.variant, sku |-> s.sku, told |-> s.told]
    /\ s.told \in BOOLEAN
Numbered(rows) ==
    /\ IsFiniteSet(rows)
    /\ \A s \in rows : AlertRow(s) /\ s.n \in 1 .. Cardinality(rows)
    /\ \A s, t \in rows : s.n = t.n => s = t
AlertsType ==
    /\ Numbered(subs)
    /\ arms \in [Shoppers -> Int] /\ mails \in [Shoppers -> Nat]

(* a request asks for rows of its shopper, a notifier goes through its plan,    *)
Stands(n, u) == \E s \in subs : s.n = n /\ s.user = u
Unsaid(n, u) == \E s \in subs : s.n = n /\ s.user = u /\ ~ s.told
Asking(h) ==
    /\ req[h].todo = <<"arm">>
    /\ \A s \in req[h].read.known : Stands(s.n, req[h].read.user)
Notifying(h) ==
    req[h].todo \in {<<"enrol", "gather">>, <<"gather">>, <<"mail">>, <<"told">>}
AlertsRead ==
    \A h \in Handlers : Busy(h) =>
        /\ req[h].kind = "ask" => Asking(h)
        /\ req[h].kind = "notify" => Notifying(h)

(* and one that has no other beside it has a row that waits, for each mail it is *)
(* to send: a shopper waits or was mailed once for each time he asked.         *)
Telling(h) == Busy(h) /\ req[h].kind = "notify" /\ req[h].todo = <<"told">>
Sending(h) == Busy(h) /\ req[h].kind = "notify" /\ req[h].todo \in {<<"mail">>, <<"told">>}
Unsent(u) ==
    {s \in subs : s.user = u /\ ~ s.told /\ \A h \in Handlers : Telling(h) => req[h].read.sent # s.n}
QueueWaits(h) ==
    /\ \A q \in req[h].read.queue : Unsaid(q.n, q.user)
    /\ \A q, r \in req[h].read.queue : q.n = r.n => q = r
    /\ Telling(h) => \A q \in req[h].read.queue : q.n # req[h].read.sent
MailsOwed ==
    InTurn({"notify"}) =>
        /\ \A u \in Shoppers : mails[u] + Cardinality(Unsent(u)) <= arms[u]
        /\ \A h \in Handlers : Sending(h) => QueueWaits(h)

AlertsInv == AlertsType /\ AlertsRead /\ MailsOwed

-----------------------------------------------------------------------------
(* What the alerts see of a step                                             *)
LEMMA StockOrNot ==
    ASSUME DeskInv, NEW h \in Handlers, Step(h)
    PROVE  \/ StockStep(h)
           \/ StoodBy(StockKinds) /\ UNCHANGED stock
           \/ Crash(h) /\ UNCHANGED stock
  <1> DEFINE others == RefurbishKinds \cup ContentKinds \cup ReturnsKinds \cup MoneyKinds
  <1>0. StockKinds \cap others = {}
        BY DEF RefurbishKinds, StockKinds, ContentKinds, ReturnsKinds, MoneyKinds, ProductKinds,
               ScannerKinds, ShopperKinds, ReviewKinds, ArticleKinds, CategoryKinds, HomePageKinds,
               PhoneKinds, QueueKinds, ParcelKinds, SettlementKinds, TransferKinds, WalletKinds,
               QuoteKinds
  <1>1. CASE Concerns(h, RefurbishKinds) /\ RefurbishStep(h) /\ UNCHANGED stock
    <2>1. DeskStep(h, others)  BY <1>1, RefurbishDesk, OfMore
    <2> QED  BY <1>0, <1>1, <2>1, Beside
  <1>2. CASE ContentStep(h) /\ UNCHANGED stock
    <2>1. DeskStep(h, others)  BY <1>2, ContentDesk, OfMore
    <2> QED  BY <1>0, <1>2, <2>1, Beside
  <1>3. CASE ReturnsStep(h) /\ UNCHANGED stock
    <2>1. DeskStep(h, others)  BY <1>3, ReturnsDesk, OfMore
    <2> QED  BY <1>0, <1>3, <2>1, Beside
  <1>4. CASE MoneyStep(h) /\ UNCHANGED stock
    <2>1. DeskStep(h, others)  BY <1>4, MoneyDesk, OfMore
    <2> QED  BY <1>0, <1>4, <2>1, Beside
  <1> QED  BY <1>1, <1>2, <1>3, <1>4, Zenon DEF Step, everything

LEMMA AlertsOrNot ==
    ASSUME DeskInv, NEW h \in Handlers, Step(h)
    PROVE  \/ Concerns(h, ShopperKinds) /\ AlertsStep(h)
           \/ StoodBy(ShopperKinds) /\ UNCHANGED alerts
           \/ Crash(h) /\ UNCHANGED alerts
  <1>0. ShopperKinds \cap (ProductKinds \cup ScannerKinds) = {} /\ ShopperKinds \cap ScannerKinds = {}
        BY DEF ShopperKinds, ProductKinds, ScannerKinds
  <1>1. CASE StockStep(h)
    <2>1. CASE Concerns(h, ProductKinds \cup ScannerKinds) /\ CatalogueStep(h) /\ UNCHANGED alerts
          BY <1>0, <2>1, CatalogueDesk, Beside
    <2>2. CASE Concerns(h, ScannerKinds) /\ WarehouseStep(h) /\ UNCHANGED alerts
          BY <1>0, <2>2, WarehouseDesk, Beside
    <2> QED  BY <1>1, <2>1, <2>2, Zenon DEF StockStep
  <1>2. CASE StoodBy(StockKinds) /\ UNCHANGED stock  BY <1>2, StoodByFewer DEF StockKinds, stock
  <1>3. CASE Crash(h) /\ UNCHANGED stock  BY <1>3, Zenon DEF stock
  <1> QED  BY <1>1, <1>2, <1>3, StockOrNot

(* Rows written as told or as pending again                                  *)
RowKept(s, t) == t.n = s.n /\ t.user = s.user /\ t.variant = s.variant /\ t.sku = s.sku
Retold(rows, n, b) == {IF s.n = n THEN [s EXCEPT !.told = b] ELSE s : s \in rows}

LEMMA RowsRetold ==
    ASSUME NEW rows, Numbered(rows), NEW n, NEW b, b \in BOOLEAN, NEW new,
           new = Retold(rows, n, b)
    PROVE  /\ Numbered(new)
           /\ \A s \in rows : \E t \in new :
                 RowKept(s, t) /\ (s.n # n => t = s) /\ (s.n = n => t.told = b)
                 /\ (s.told = b => t = s)
           /\ \A t \in new : \E s \in rows :
                 RowKept(s, t) /\ (s.n # n => t = s) /\ (s.n = n => t.told = b)
  <1> DEFINE g == [s \in rows |-> IF s.n = n THEN [s EXCEPT !.told = b] ELSE s]
  <1>1. /\ IsFiniteSet(rows) /\ \A s \in rows : AlertRow(s) /\ s.n \in 1 .. Cardinality(rows)
        /\ \A s, t \in rows : s.n = t.n => s = t
        BY DEF Numbered
  <1>2. ASSUME NEW s \in rows
        PROVE  /\ RowKept(s, g[s]) /\ (s.n # n => g[s] = s) /\ (s.n = n => g[s].told = b)
               /\ AlertRow(g[s]) /\ (s.told = b => g[s] = s)
    <2>1. s = [n |-> s.n, user |-> s.user, variant |-> s.variant, sku |-> s.sku, told |-> s.told]
          BY <1>1 DEF AlertRow
    <2>2. s.n = n => g[s] = [n |-> s.n, user |-> s.user, variant |-> s.variant, sku |-> s.sku, told |-> b]
          BY <2>1
    <2> QED  BY <1>1, <2>1, <2>2 DEF RowKept, AlertRow
  <1>3. DOMAIN g = rows /\ g = [x \in rows |-> g[x]]  OBVIOUS
  <1>4. new = {g[x] : x \in rows}  BY DEF Retold
  <1>5. \A x, y \in rows : g[x] = g[y] => x = y
    <2>1. \A x \in rows : g[x].n = x.n  BY <1>2 DEF RowKept
    <2> HIDE DEF g
    <2> QED  BY <1>1, <2>1
  <1> HIDE DEF g
  <1>6. IsFiniteSet(new) /\ Cardinality(new) = Cardinality(rows)
        BY <1>1, <1>3, <1>4, <1>5, MappedCounts
  <1>7. \A t \in new : \E x \in rows : t = g[x]  BY <1>4
  <1>8. Numbered(new)
    <2>1. ASSUME NEW t \in new PROVE AlertRow(t) /\ t.n \in 1 .. Cardinality(new)
          BY <1>1, <1>2, <1>6, <1>7 DEF RowKept
    <2>2. \A s, t \in new : s.n = t.n => s = t  BY <1>1, <1>2, <1>7 DEF RowKept
    <2> QED  BY <1>6, <2>1, <2>2 DEF Numbered
  <1> QED  BY <1>2, <1>4, <1>7, <1>8

(* and a row made or made pending again                                      *)
LEMMA ArmedGrows ==
    ASSUME Numbered(subs), NEW u, NEW id, NEW known, NEW new \in Armed(subs, u, id, known),
           \A found \in known : Stands(found.n, u)
    PROVE  /\ Numbered(new)
           /\ \A s \in subs : \E t \in new : RowKept(s, t) /\ (~ s.told => t = s)
           /\ \A v : v # u => {s \in new : s.user = v /\ ~ s.told} = {s \in subs : s.user = v /\ ~ s.told}
           /\ \A t \in new : \/ \E s \in subs : RowKept(s, t)
                             \/ known = {} /\ t.variant = id /\ t.sku = SkuAt(product, id)
  <1>1. /\ IsFiniteSet(subs) /\ \A s \in subs : AlertRow(s) /\ s.n \in 1 .. Cardinality(subs)
        /\ \A s, t \in subs : s.n = t.n => s = t
        BY DEF Numbered
  <1>2. CASE new = subs  BY <1>2 DEF RowKept
  <1>3. ASSUME NEW found \in known, new = Again(subs, found), found.told
        PROVE  /\ Numbered(new)
               /\ \A s \in subs : \E t \in new : RowKept(s, t) /\ (~ s.told => t = s)
               /\ \A v : v # u => {s \in new : s.user = v /\ ~ s.told} = {s \in subs : s.user = v /\ ~ s.told}
               /\ \A t \in new : \E s \in subs : RowKept(s, t)
    <2>1. PICK b, n : b = FALSE /\ n = found.n  OBVIOUS
    <2>2. new = Retold(subs, n, b)  BY <1>3, <2>1 DEF Again, Retold
    <2>3. b \in BOOLEAN  BY <2>1
    <2>4. /\ Numbered(new)
          /\ \A s \in subs : \E t \in new :
                 RowKept(s, t) /\ (s.n # n => t = s) /\ (s.n = n => t.told = b)
                 /\ (s.told = b => t = s)
          /\ \A t \in new : \E s \in subs :
                 RowKept(s, t) /\ (s.n # n => t = s) /\ (s.n = n => t.told = b)
          BY <2>2, <2>3, RowsRetold
    <2>5. \A s \in subs : ~ s.told => s.told = b  BY <1>1, <2>1 DEF AlertRow
    <2>6. \A s \in subs : s.n = n => s.user = u  BY <1>1, <1>3, <2>1 DEF Stands
    <2>7. ASSUME NEW v, v # u PROVE \A s : s.user = v => (s \in new <=> s \in subs)
          BY <2>4, <2>6, <2>7 DEF RowKept
    <2> QED  BY <2>4, <2>5, <2>7
  <1>4. ASSUME new = subs \cup {[n |-> Cardinality(subs) + 1, user |-> u, variant |-> id,
                                 sku |-> SkuAt(product, id), told |-> FALSE]}, known = {}
        PROVE  /\ Numbered(new)
               /\ \A s \in subs : \E t \in new : RowKept(s, t) /\ (~ s.told => t = s)
               /\ \A v : v # u => {s \in new : s.user = v /\ ~ s.told} = {s \in subs : s.user = v /\ ~ s.told}
               /\ \A t \in new : \/ \E s \in subs : RowKept(s, t)
                                 \/ known = {} /\ t.variant = id /\ t.sku = SkuAt(product, id)
    <2>1. PICK r : r = [n |-> Cardinality(subs) + 1, user |-> u, variant |-> id,
                        sku |-> SkuAt(product, id), told |-> FALSE]
          OBVIOUS
    <2>2. /\ r.n = Cardinality(subs) + 1 /\ r.user = u /\ r.variant = id /\ r.sku = SkuAt(product, id)
          /\ AlertRow(r) /\ new = subs \cup {r}
          BY <1>4, <2>1 DEF AlertRow
    <2>3. Cardinality(subs) \in Nat  BY <1>1, FS_CardinalityType
    <2>4. r \notin subs  BY <1>1, <2>2, <2>3
    <2>5. IsFiniteSet(new) /\ Cardinality(new) = Cardinality(subs) + 1
          BY <1>1, <2>2, <2>4, FS_AddElement
    <2>6. Numbered(new)
      <3>1. \A s \in subs : s.n \in 1 .. Cardinality(new) /\ s.n # r.n  BY <1>1, <2>2, <2>3, <2>5
      <3>2. r.n \in 1 .. Cardinality(new)  BY <2>2, <2>3, <2>5
      <3> QED  BY <1>1, <2>2, <2>5, <3>1, <3>2 DEF Numbered
    <2> QED  BY <1>4, <2>2, <2>6 DEF RowKept
  <1>5. CASE known # {}
    <2>1. PICK found \in known : new = Again(subs, found)  BY <1>5 DEF Armed
    <2>2. ~ found.told => new = subs  BY <2>1 DEF Again
    <2> QED  BY <1>2, <1>3, <2>1, <2>2
  <1>6. CASE known = {}
    <2>1. new = Added(subs, u, id)  BY <1>6 DEF Armed
    <2> QED  BY <1>2, <1>4, <1>6, <2>1 DEF Added
  <1> QED  BY <1>5, <1>6

(* Rows that only grow, each one that waits with the asking for it            *)
Grown ==
    /\ AlertsType' /\ mails' = mails
    /\ \A v \in Shoppers : arms'[v] = arms[v] + Waiting(v, subs') - Waiting(v, subs)
    /\ \A s \in subs : \E t \in subs' : RowKept(s, t) /\ (~ s.told => t = s)

LEMMA WaitingCounts ==
    ASSUME NEW rows, IsFiniteSet(rows), NEW u
    PROVE  Waiting(u, rows) \in Nat /\ IsFiniteSet({s \in rows : s.user = u /\ ~ s.told})
  <1>1. IsFiniteSet({s \in rows : s.user = u /\ ~ s.told})  BY FS_Subset
  <1> QED  BY <1>1, FS_CardinalityType DEF Waiting

LEMMA GrownSame ==
    ASSUME AlertsInv, subs' = subs, arms' = arms, mails' = mails
    PROVE  Grown
  <1>1. IsFiniteSet(subs) /\ arms \in [Shoppers -> Int] /\ AlertsType
        BY DEF AlertsInv, AlertsType, Numbered
  <1>2. \A v \in Shoppers : Waiting(v, subs) \in Nat  BY <1>1, WaitingCounts
  <1>3. AlertsType'  BY <1>1 DEF AlertsType
  <1>4. \A v \in Shoppers : arms'[v] = arms[v] + Waiting(v, subs') - Waiting(v, subs)  BY <1>1, <1>2
  <1> QED  BY <1>3, <1>4 DEF Grown, RowKept

LEMMA GrownArmed ==
    ASSUME AlertsInv, NEW u, NEW id, NEW known, ArmFor(u, id, known),
           \A found \in known : Stands(found.n, u)
    PROVE  Grown
  <1>1. Numbered(subs) /\ arms \in [Shoppers -> Int] /\ mails \in [Shoppers -> Nat]
        BY DEF AlertsInv, AlertsType
  <1>2. /\ arms' = [arms EXCEPT ![u] = @ + Waiting(u, subs') - Waiting(u, subs)]
        /\ mails' = mails
        /\ subs' \in Armed(subs, u, id, known) \/ subs' = subs
        BY DEF ArmFor
  <1>3. /\ Numbered(subs')
        /\ \A s \in subs : \E t \in subs' : RowKept(s, t) /\ (~ s.told => t = s)
        /\ \A v : v # u => {s \in subs' : s.user = v /\ ~ s.told} = {s \in subs : s.user = v /\ ~ s.told}
    <2>1. CASE subs' = subs  BY <1>1, <2>1 DEF RowKept
    <2>2. CASE subs' \in Armed(subs, u, id, known)
      <3>1. PICK new \in Armed(subs, u, id, known) : new = subs'  BY <2>2
      <3>2. /\ Numbered(new)
            /\ \A s \in subs : \E t \in new : RowKept(s, t) /\ (~ s.told => t = s)
            /\ \A v : v # u => {s \in new : s.user = v /\ ~ s.told} = {s \in subs : s.user = v /\ ~ s.told}
            BY <1>1, ArmedGrows
      <3> QED  BY <3>1, <3>2
    <2> QED  BY <1>2, <2>1, <2>2
  <1>4. \A v : Waiting(v, subs) \in Nat /\ Waiting(v, subs') \in Nat
        BY <1>1, <1>3, WaitingCounts DEF Numbered
  <1>5. \A v : v # u => Waiting(v, subs') = Waiting(v, subs)  BY <1>3 DEF Waiting
  <1>6. \A v \in Shoppers : arms'[v] = arms[v] + Waiting(v, subs') - Waiting(v, subs)
    <2>1. ASSUME NEW v \in Shoppers, v = u PROVE arms'[v] = arms[v] + Waiting(v, subs') - Waiting(v, subs)
          BY <1>1, <1>2, <2>1
    <2>2. ASSUME NEW v \in Shoppers, v # u PROVE arms'[v] = arms[v] + Waiting(v, subs') - Waiting(v, subs)
      <3>1. arms'[v] = arms[v] /\ arms[v] \in Int  BY <1>1, <1>2, <2>2
      <3> QED  BY <1>4, <1>5, <2>2, <3>1
    <2> QED  BY <2>1, <2>2
  <1>7. arms' \in [Shoppers -> Int]
    <2>1. \A v \in Shoppers : arms'[v] \in Int  BY <1>1, <1>4, <1>6
    <2>2. arms' = [v \in Shoppers |-> arms'[v]]  BY <1>1, <1>2
    <2> QED  BY <2>1, <2>2
  <1> QED  BY <1>1, <1>2, <1>3, <1>6, <1>7 DEF Grown, AlertsType

(* What was never so is not made so later; and of notifiers in turn one is at work. *)
LEMMA NotifiersWereInTurn ==
    ASSUME crossed \subseteq crossed', crashed \subseteq crashed', InTurn({"notify"})'
    PROVE  InTurn({"notify"})
  BY DEF InTurn, Apart

LEMMA OneNotifies ==
    ASSUME DeskInv, InTurn({"notify"}), NEW g \in Handlers, NEW h \in Handlers,
           Busy(g), req[g].kind = "notify", Busy(h), req[h].kind = "notify"
    PROVE  g = h
  BY DEF DeskInv, InTurn, Apart

(* Whoever mails goes on as he did: what is owed stays owed.                 *)
LEMMA MailsStayOwed ==
    ASSUME AlertsInv, Grown,
           InTurn({"notify"})' =>
               /\ InTurn({"notify"})
               /\ \A g \in Handlers : (Sending(g)' <=> Sending(g)) /\ (Sending(g) => req'[g] = req[g])
    PROVE  MailsOwed'
  <1>1. SUFFICES ASSUME InTurn({"notify"})'
                 PROVE  /\ \A u \in Shoppers : mails'[u] + Cardinality(Unsent(u)') <= arms'[u]
                        /\ \A h \in Handlers : Sending(h)' => QueueWaits(h)'
        BY DEF MailsOwed
  <1>2. /\ InTurn({"notify"})
        /\ \A g \in Handlers : (Sending(g)' <=> Sending(g)) /\ (Sending(g) => req'[g] = req[g])
        BY <1>1
  <1>3. \A g \in Handlers : Telling(g)' <=> Telling(g)
    <2>1. \A g \in Handlers : (Telling(g) => Sending(g)) /\ (Telling(g)' => Sending(g)')
          BY DEF Telling, Sending
    <2> QED  BY <1>2, <2>1 DEF Telling, Busy
  <1>4. \A g \in Handlers : Telling(g) => req'[g] = req[g]  BY <1>2 DEF Telling, Sending
  <1>5. \A s \in subs : ~ s.told => s \in subs'  BY DEF Grown
  <1>6. ASSUME NEW u \in Shoppers PROVE mails'[u] + Cardinality(Unsent(u)') <= arms'[u]
    <2> DEFINE a == {s \in subs : s.user = u /\ ~ s.told}
               b == {s \in subs' : s.user = u /\ ~ s.told}
    <2>1. /\ IsFiniteSet(subs) /\ IsFiniteSet(subs')
          /\ mails \in [Shoppers -> Nat] /\ arms \in [Shoppers -> Int] /\ mails' = mails
          /\ arms'[u] = arms[u] + Cardinality(b) - Cardinality(a)
          BY DEF Grown, AlertsInv, AlertsType, Numbered, Waiting
    <2>2. a \subseteq b  BY <1>5
    <2>3. Unsent(u) \subseteq Unsent(u)'  BY <1>3, <1>4, <1>5 DEF Unsent
    <2>4. Unsent(u)' \ Unsent(u) \subseteq b \ a  BY <1>3, <1>4 DEF Unsent
    <2>5. IsFiniteSet(b) /\ IsFiniteSet(Unsent(u)')  BY <2>1, FS_Subset DEF Unsent
    <2>6. PICK c, d : c = Unsent(u) /\ d = Unsent(u)'  OBVIOUS
    <2>7. /\ Cardinality(a) \in Nat /\ Cardinality(b) \in Nat
          /\ Cardinality(c) \in Nat /\ Cardinality(d) \in Nat
          /\ Cardinality(d) - Cardinality(c) <= Cardinality(b) - Cardinality(a)
      <3> HIDE DEF a, b
      <3> QED  BY <2>2, <2>3, <2>4, <2>5, <2>6, GrowthCounts
    <2>8. mails[u] + Cardinality(c) <= arms[u]  BY <1>2, <2>6 DEF AlertsInv, MailsOwed
    <2> HIDE DEF a, b
    <2>9. mails[u] \in Nat /\ arms[u] \in Int /\ mails'[u] = mails[u]  BY <2>1
    <2>10. arms'[u] = arms[u] + Cardinality(b) - Cardinality(a)  BY <2>1
    <2>11. mails'[u] + Cardinality(d) <= arms'[u]  BY <2>7, <2>8, <2>9, <2>10
    <2> QED  BY <2>6, <2>11
  <1>7. ASSUME NEW h \in Handlers, Sending(h)' PROVE QueueWaits(h)'
    <2>1. QueueWaits(h) /\ req'[h] = req[h] /\ (Telling(h)' <=> Telling(h))
          BY <1>2, <1>3, <1>7 DEF AlertsInv, MailsOwed
    <2>2. ASSUME NEW n, NEW u, Unsaid(n, u) PROVE Unsaid(n, u)'  BY <1>5, <2>2 DEF Unsaid
    <2> QED  BY <2>1, <2>2 DEF QueueWaits
  <1> QED  BY <1>6, <1>7

LEMMA AlertsGrow ==
    ASSUME AlertsInv, Grown, crossed \subseteq crossed', crashed \subseteq crashed',
           \A g \in Handlers : Busy(g)' /\ req'[g].kind \in ShopperKinds =>
              \/ Busy(g) /\ req'[g] = req[g]
              \/ /\ req'[g].kind = "ask" => Asking(g)'
                 /\ req'[g].kind = "notify" => Notifying(g)',
           InTurn({"notify"})' =>
               \A g \in Handlers : (Sending(g)' <=> Sending(g)) /\ (Sending(g) => req'[g] = req[g])
    PROVE  AlertsInv'
  <1>1. MailsOwed'  BY NotifiersWereInTurn, MailsStayOwed
  <1>2. ASSUME NEW n, NEW u, Stands(n, u) PROVE Stands(n, u)'  BY <1>2 DEF Stands, Grown, RowKept
  <1>3. ASSUME NEW g \in Handlers, Busy(g)'
        PROVE  /\ req'[g].kind = "ask" => Asking(g)'
               /\ req'[g].kind = "notify" => Notifying(g)'
    <2>1. CASE Busy(g) /\ req'[g] = req[g]
          BY <1>2, <2>1 DEF AlertsInv, AlertsRead, Asking, Notifying
    <2>2. req'[g].kind \in {"ask", "notify"} => req'[g].kind \in ShopperKinds  BY DEF ShopperKinds
    <2> QED  BY <1>3, <2>1, <2>2
  <1>4. AlertsType'  BY DEF Grown
  <1> QED  BY <1>1, <1>3, <1>4 DEF AlertsInv, AlertsRead

(* No request comes to mail by this step.                                    *)
SendersStay == \A g \in Handlers : Sending(g)' => Sending(g) /\ req'[g] = req[g]

LEMMA AlertsBeside ==
    ASSUME AlertsInv, StoodBy(ShopperKinds), UNCHANGED alerts
    PROVE  AlertsInv' /\ SendersStay
  <1>1. /\ crossed \subseteq crossed' /\ crashed \subseteq crashed'
        /\ \A g \in Handlers :
              /\ Busy(g) /\ req[g].kind \in ShopperKinds => req'[g] = req[g]
              /\ Busy(g)' /\ req'[g].kind \in ShopperKinds => req'[g] = req[g]
        BY DEF StoodBy
  <1>2. Grown  BY GrownSame DEF alerts
  <1>3. \A g \in Handlers : (Sending(g)' <=> Sending(g)) /\ (Sending(g) => req'[g] = req[g])
        BY <1>1 DEF Sending, ShopperKinds, Busy
  <1>4. \A g \in Handlers : Busy(g)' /\ req'[g].kind \in ShopperKinds => Busy(g) /\ req'[g] = req[g]
        BY <1>1 DEF Busy
  <1>5. SendersStay  BY <1>3 DEF SendersStay
  <1> QED  BY <1>1, <1>2, <1>3, <1>4, <1>5, AlertsGrow

LEMMA AlertsCrash ==
    ASSUME DeskInv, AlertsInv, NEW h \in Handlers, Crash(h), UNCHANGED alerts
    PROVE  AlertsInv' /\ SendersStay
  <1>1. /\ OthersStay(h) /\ Busy(h) /\ ~ Busy(h)'
        /\ crossed' = crossed /\ crashed' = crashed \cup {req[h].kind}
        BY AfterCrash
  <1>2. Grown  BY GrownSame DEF alerts
  <1>3. InTurn({"notify"})' => req[h].kind # "notify"  BY <1>1 DEF InTurn
  <1>4. InTurn({"notify"})' =>
            \A g \in Handlers : (Sending(g)' <=> Sending(g)) /\ (Sending(g) => req'[g] = req[g])
        BY <1>1, <1>3 DEF Sending, OthersStay
  <1>5. \A g \in Handlers : Busy(g)' => Busy(g) /\ req'[g] = req[g]  BY <1>1 DEF OthersStay
  <1>6. SendersStay  BY <1>5 DEF SendersStay, Sending
  <1> QED  BY <1>1, <1>2, <1>4, <1>5, <1>6, AlertsGrow

(* A request that sends no mail                                              *)
LEMMA AlertsWent ==
    ASSUME AlertsInv, Grown, NEW h \in Handlers, OthersStay(h), ~ Sending(h), ~ Sending(h)',
           crossed \subseteq crossed', crashed' = crashed,
           Busy(h)' => /\ req'[h].kind = "ask" => Asking(h)'
                       /\ req'[h].kind = "notify" => Notifying(h)'
    PROVE  AlertsInv' /\ SendersStay
  <1>1. \A g \in Handlers : (Sending(g)' <=> Sending(g)) /\ (Sending(g) => req'[g] = req[g])
        BY DEF OthersStay, Sending
  <1>2. ASSUME NEW g \in Handlers, Busy(g)'
        PROVE  \/ Busy(g) /\ req'[g] = req[g]
               \/ /\ req'[g].kind = "ask" => Asking(g)'
                  /\ req'[g].kind = "notify" => Notifying(g)'
        BY <1>2 DEF OthersStay
  <1>3. SendersStay  BY <1>1 DEF SendersStay
  <1> QED  BY <1>1, <1>2, <1>3, AlertsGrow

(* and what a request at hand is                                             *)
LEMMA AlertPlans ==
    /\ <<"arm">> # <<>> /\ <<"gather">> # <<>> /\ <<"enrol", "gather">> # <<>>
    /\ <<"mail">> # <<>> /\ <<"told">> # <<>>
    /\ Head(<<"arm">>) = "arm" /\ Head(<<"gather">>) = "gather" /\ Head(<<"enrol", "gather">>) = "enrol"
    /\ Head(<<"mail">>) = "mail" /\ Head(<<"told">>) = "told" /\ Tail(<<"arm">>) = <<>>
    /\ <<"mail">> # <<"told">> /\ <<"mail">> # <<"gather">> /\ <<"told">> # <<"gather">>
    /\ <<"mail">> # <<"enrol", "gather">> /\ <<"told">> # <<"enrol", "gather">>
  OBVIOUS

LEMMA AlertAtHand ==
    ASSUME AlertsInv, NEW h \in Handlers, Busy(h), Concerns(h, ShopperKinds)
    PROVE  /\ At(h, "arm") => req[h].kind = "ask" /\ Asking(h)
           /\ At(h, "enrol") => req[h].kind = "notify" /\ req[h].todo = <<"enrol", "gather">>
           /\ At(h, "gather") => req[h].kind = "notify" /\ req[h].todo = <<"gather">>
           /\ At(h, "mail") => req[h].kind = "notify" /\ req[h].todo = <<"mail">>
           /\ At(h, "told") => req[h].kind = "notify" /\ req[h].todo = <<"told">>
  <1>1. req[h].kind \in {"ask", "notify"}  BY DEF Concerns, ShopperKinds
  <1>2. CASE req[h].kind = "ask"
    <2>1. Asking(h) /\ req[h].todo = <<"arm">>  BY <1>2 DEF AlertsInv, AlertsRead, Asking
    <2>2. Head(req[h].todo) = "arm"  BY <2>1
    <2> QED  BY <1>2, <2>1, <2>2 DEF At
  <1>3. CASE req[h].kind = "notify"
    <2>1. req[h].todo \in {<<"enrol", "gather">>, <<"gather">>, <<"mail">>, <<"told">>}
          BY <1>3 DEF AlertsInv, AlertsRead, Notifying
    <2>2. CASE req[h].todo = <<"enrol", "gather">>  BY <1>3, <2>2, AlertPlans DEF At
    <2>3. CASE req[h].todo = <<"gather">>  BY <1>3, <2>3, AlertPlans DEF At
    <2>4. CASE req[h].todo = <<"mail">>  BY <1>3, <2>4, AlertPlans DEF At
    <2>5. CASE req[h].todo = <<"told">>  BY <1>3, <2>5, AlertPlans DEF At
    <2> QED  BY <2>1, <2>2, <2>3, <2>4, <2>5
  <1> QED  BY <1>1, <1>2, <1>3

LEMMA FoundStand ==
    ASSUME NEW u, NEW id
    PROVE  \A s \in Found(subs, u, id) : Stands(s.n, u)
  BY DEF Found, Stands

(* A shopper asks.                                                           *)
LEMMA AskKeeps ==
    ASSUME DeskInv, AlertsInv, NEW h \in Handlers, NEW u, NEW id, NEW plan \in {<<"arm">>, <<>>}, NEW read,
           read.user = u, read.known = Found(subs, u, id),
           Begin(h, "ask", plan, read), subs' = subs, arms' = arms, mails' = mails
    PROVE  AlertsInv' /\ SendersStay
  <1>1. OthersStay(h) /\ ~ Busy(h) /\ crossed \subseteq crossed' /\ crashed' = crashed
        BY AfterBegin
  <1>2. Busy(h)' <=> plan # <<>>  BY AfterBegin
  <1>3. Busy(h)' => req'[h].todo = plan /\ req'[h].kind = "ask" /\ req'[h].read = read
        BY AfterBegin
  <1>4. ~ Sending(h) /\ ~ Sending(h)'  BY <1>1, <1>3 DEF Sending
  <1>5. Busy(h)' => Asking(h)'
    <2>2. \A s \in Found(subs, u, id) : Stands(s.n, u)'  BY FoundStand DEF Stands
    <2> QED  BY <1>2, <1>3, <2>2 DEF Asking
  <1>6. Grown  BY GrownSame
  <1> QED  BY <1>1, <1>3, <1>4, <1>5, <1>6, AlertsWent

LEMMA SubscribeKeeps ==
    ASSUME DeskInv, AlertsInv, NEW h \in Handlers, Subscribe(h)
    PROVE  AlertsInv' /\ SendersStay
  <1>1. PICK u \in Shoppers, id \in Ids(product) :
           Begin(h, "ask", <<"arm">>, [user |-> u, id |-> id, known |-> Found(subs, u, id)])
        BY Zenon DEF Subscribe
  <1>2. PICK plan, read : plan = <<"arm">> /\ read = [user |-> u, id |-> id, known |-> Found(subs, u, id)]
        OBVIOUS
  <1>3. Begin(h, "ask", plan, read)  BY <1>1, <1>2
  <1>4. plan \in {<<"arm">>, <<>>}  BY <1>2
  <1>5. subs' = subs /\ arms' = arms /\ mails' = mails  BY DEF Subscribe, alerts
  <1> QED  BY <1>2, <1>3, <1>4, <1>5, AskKeeps

LEMMA ToggleKeeps ==
    ASSUME DeskInv, AlertsInv, NEW h \in Handlers, Toggle(h)
    PROVE  AlertsInv' /\ SendersStay
  <1>1. PICK u \in Shoppers, id \in Ids(product) : \E plan \in {<<"arm">>, <<>>} :
           Begin(h, "ask", plan, [user |-> u, id |-> id, known |-> Found(subs, u, id)])
    <2>1. PICK u \in Shoppers, id \in Ids(product) :
             LET row == {w \in wishes : w.user = u /\ Live(product, w.variant) = id}
             IN  Begin(h, "ask", IF row = {} /\ ~ Sellable(Asked(product, id)) THEN <<"arm">> ELSE <<>>,
                       [user |-> u, id |-> id, known |-> Found(subs, u, id)])
          BY Zenon DEF Toggle
    <2>2. PICK plan : plan = IF /\ {w \in wishes : w.user = u /\ Live(product, w.variant) = id} = {}
                                /\ ~ Sellable(Asked(product, id)) THEN <<"arm">> ELSE <<>>
          OBVIOUS
    <2>3. Begin(h, "ask", plan, [user |-> u, id |-> id, known |-> Found(subs, u, id)])
          BY <2>1, <2>2
    <2>4. plan \in {<<"arm">>, <<>>}  BY <2>2
    <2> QED  BY <2>3, <2>4
  <1>2. PICK plan \in {<<"arm">>, <<>>} :
           Begin(h, "ask", plan, [user |-> u, id |-> id, known |-> Found(subs, u, id)])
        BY <1>1
  <1>3. PICK read : read = [user |-> u, id |-> id, known |-> Found(subs, u, id)]  OBVIOUS
  <1>4. Begin(h, "ask", plan, read)  BY <1>2, <1>3
  <1>5. subs' = subs /\ arms' = arms /\ mails' = mails  BY DEF Toggle
  <1> QED  BY <1>3, <1>4, <1>5, AskKeeps

LEMMA ArmKeeps ==
    ASSUME DeskInv, AlertsInv, NEW h \in Handlers, Concerns(h, ShopperKinds), Arm(h)
    PROVE  AlertsInv' /\ SendersStay
  <1>1. Busy(h) /\ At(h, "arm")  BY DEF Arm, At
  <1>2. req[h].kind = "ask" /\ Asking(h)  BY <1>1, AlertAtHand
  <1>3. PICK plan, read : plan = Tail(req[h].todo) /\ read = req[h].read  OBVIOUS
  <1>4. GoOn(h, plan, read)  BY <1>3 DEF Arm, Proceed
  <1>5. OthersStay(h) /\ crossed' = crossed /\ crashed' = crashed  BY <1>1, <1>4, AfterGoOn
  <1>6. Busy(h)' <=> plan # <<>>  BY <1>1, <1>4, AfterGoOn
  <1>7. ~ Busy(h)'  BY <1>2, <1>3, <1>6, AlertPlans DEF Asking
  <1>8. ~ Sending(h) /\ ~ Sending(h)'  BY <1>2, <1>7 DEF Sending
  <1>9. Grown
    <2>1. ArmFor(read.user, read.id, read.known)  BY <1>3 DEF Arm
    <2>2. \A found \in read.known : Stands(found.n, read.user)  BY <1>2, <1>3 DEF Asking
    <2> QED  BY <2>1, <2>2, GrownArmed
  <1> QED  BY <1>5, <1>7, <1>8, <1>9, AlertsWent

(* A notifier begins, enrols whoever wishes for the product,                  *)
LEMMA EnrolmentIsPlan == ASSUME NEW left PROVE Enrolment(left) \in {<<"enrol", "gather">>, <<"gather">>}
  BY DEF Enrolment

LEMMA NotifyKeeps ==
    ASSUME DeskInv, AlertsInv, NEW h \in Handlers, NEW hook, Notify(h, hook),
           subs' = subs, arms' = arms, mails' = mails
    PROVE  AlertsInv' /\ SendersStay
  <1>1. PICK left : Begin(h, "notify", Enrolment(left), [left |-> left])  BY Zenon DEF Notify
  <1>2. PICK plan, read : plan = Enrolment(left) /\ read = [left |-> left]  OBVIOUS
  <1>3. Begin(h, "notify", plan, read)  BY <1>1, <1>2
  <1>4. OthersStay(h) /\ ~ Busy(h) /\ crossed \subseteq crossed' /\ crashed' = crashed
        BY <1>3, AfterBegin
  <1>5. Busy(h)' => req'[h].todo = plan /\ req'[h].kind = "notify"  BY <1>3, AfterBegin
  <1>6. plan \in {<<"enrol", "gather">>, <<"gather">>}  BY <1>2, EnrolmentIsPlan
  <1>7. ~ Sending(h) /\ ~ Sending(h)'  BY <1>4, <1>5, <1>6, AlertPlans DEF Sending
  <1>8. Busy(h)' => Notifying(h)' /\ req'[h].kind = "notify"  BY <1>5, <1>6 DEF Notifying
  <1>9. Grown  BY GrownSame
  <1> QED  BY <1>4, <1>7, <1>8, <1>9, AlertsWent

LEMMA EnrolKeeps ==
    ASSUME DeskInv, AlertsInv, NEW h \in Handlers, Concerns(h, ShopperKinds), At(h, "enrol"), Enrol(h)
    PROVE  AlertsInv' /\ SendersStay
  <1>1. Busy(h)  BY DEF At
  <1>2. req[h].kind = "notify" /\ req[h].todo = <<"enrol", "gather">>  BY <1>1, AlertAtHand
  <1>3. PICK w \in req[h].read.left :
           /\ LET left == req[h].read.left \ {w}
              IN  IF w.id \in Ids(product) THEN GoOn(h, Enrolment(left), [left |-> left]) ELSE Stop(h)
           /\ ArmFor(w.user, w.id, Found(subs, w.user, w.id))
        BY Zenon DEF Enrol
  <1>4. \E plan \in {<<"enrol", "gather">>, <<"gather">>, <<>>} : \E read : GoOn(h, plan, read)
    <2>1. PICK left : left = req[h].read.left \ {w}  OBVIOUS
    <2>2. CASE GoOn(h, Enrolment(left), [left |-> left])  BY <2>2, EnrolmentIsPlan
    <2>3. CASE Stop(h)  BY <2>3 DEF Stop
    <2> QED  BY <1>3, <2>1, <2>2, <2>3
  <1>5. PICK plan \in {<<"enrol", "gather">>, <<"gather">>, <<>>} : \E read : GoOn(h, plan, read)
        BY <1>4
  <1>12. PICK read : GoOn(h, plan, read)  BY <1>5
  <1>6. OthersStay(h) /\ crossed' = crossed /\ crashed' = crashed  BY <1>1, <1>12, AfterGoOn
  <1>7. Busy(h)' <=> plan # <<>>  BY <1>1, <1>12, AfterGoOn
  <1>8. Busy(h)' => req'[h].todo = plan /\ req'[h].kind = req[h].kind  BY <1>1, <1>12, AfterGoOn
  <1>9. ~ Sending(h) /\ ~ Sending(h)'  BY <1>2, <1>7, <1>8, AlertPlans DEF Sending
  <1>10. Busy(h)' => Notifying(h)' /\ req'[h].kind = "notify"  BY <1>2, <1>7, <1>8 DEF Notifying
  <1>11. Grown  BY <1>3, FoundStand, GrownArmed
  <1> QED  BY <1>6, <1>9, <1>10, <1>11, AlertsWent
=============================================================================
