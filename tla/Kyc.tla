------------------------------- MODULE Kyc -------------------------------
(***************************************************************************)
(* Verification of people and of companies in the identity service         *)
(* (services/identity kyc, kyb, sumsub, events) and the pages that wait    *)
(* for it (apps/web onboarding and kyc).  Sumsub decides; its webhooks     *)
(* come in any order, and again when a delivery failed.  Every await of a  *)
(* handler is a step of its own.  Without SUMSUB_WEBHOOK_SECRET the service *)
(* checks no signature (sumsub.service.ts:105): "verdicts" are the answers *)
(* of the webhooks it accepts, which are Sumsub's where the secret is set. *)
(***************************************************************************)
EXTENDS Integers, Sequences

CONSTANTS KycUsers, Handlers, NoProfile, Tiers,
          MaxApplicants    \* bound

VARIABLES
    profile,      \* KycProfile of a user: NoProfile or status, tier, applicant
    overdue,      \* users whose profile is past its expiresAt
    applicants,   \* Sumsub's applicants: the user each was made for
    verdicts,     \* every answer of a webhook: <<applicant, answer>>
    inbox,        \* webhooks not yet answered with 200
    handler,      \* what each request of the service is doing
    kyb,          \* KybEntity.status, "NOT_SUBMITTED" without one
    asked,        \* the role in the body of a user's registration
    role,
    entry,        \* users with a row for asaId 0 in the compliance service
    page          \* the onboarding tab of each user

kycVars == <<profile, overdue, applicants, verdicts, inbox, handler, kyb, asked, role, entry,
             page>>

Free == [op |-> "none"]

NewPage == [kyc |-> "none", tier |-> 0, wallet |-> FALSE, entry |-> FALSE,
            done |-> FALSE, refused |-> {}]

KycInit ==
    /\ profile = [u \in KycUsers |-> NoProfile] /\ overdue = {}
    /\ applicants = <<>> /\ verdicts = {} /\ inbox = {}
    /\ handler = [h \in Handlers |-> Free]
    /\ kyb = [u \in KycUsers |-> "NOT_SUBMITTED"]
    /\ asked \in [KycUsers -> {"INVESTOR", "ISSUER"}]
    /\ role = asked
    /\ entry = {}
    /\ page = [u \in KycUsers |-> NewPage]

Tier(u) == IF profile[u] = NoProfile THEN 0 ELSE profile[u].tier
Status(u) == IF profile[u] = NoProfile THEN "none" ELSE profile[u].status

-----------------------------------------------------------------------------
(* initiate: refused once approved, as the profile was when it was read.   *)
Initiate(h, u) ==
    /\ handler[h] = Free
    /\ Status(u) # "APPROVED"
    /\ handler' = [handler EXCEPT ![h] =
           [op |-> "applicant", user |-> u, found |-> profile[u] # NoProfile]]
    /\ UNCHANGED <<profile, overdue, applicants, verdicts, inbox, kyb, asked, role, entry,
                   page>>

(* createApplicant, at Sumsub *)
CreateApplicant(h) ==
    /\ handler[h].op = "applicant"
    /\ Len(applicants) < MaxApplicants
    /\ applicants' = Append(applicants, handler[h].user)
    /\ handler' = [handler EXCEPT ![h] = [op |-> "profile", user |-> handler[h].user,
           found |-> handler[h].found, applicant |-> Len(applicants) + 1]]
    /\ UNCHANGED <<profile, overdue, verdicts, inbox, kyb, asked, role, entry, page>>

(* The row is made, at most one per user, or goes back to PENDING for the  *)
(* new applicant, whatever a webhook wrote since it was read.              *)
WriteProfile(h) ==
    LET t == handler[h]
        u == t.user
    IN
    /\ t.op = "profile"
    /\ profile' =
          IF t.found
          THEN [profile EXCEPT ![u].status = "PENDING", ![u].applicant = t.applicant]
          ELSE IF profile[u] = NoProfile
          THEN [profile EXCEPT ![u] = [status |-> "PENDING", tier |-> 0, applicant |-> t.applicant]]
          ELSE profile
    /\ handler' = [handler EXCEPT ![h] = Free]
    /\ UNCHANGED <<overdue, applicants, verdicts, inbox, kyb, asked, role, entry, page>>

(* Sumsub reviews an applicant, and may review it again. *)
Review(a, answer) ==
    /\ <<a, answer>> \notin verdicts
    /\ verdicts' = verdicts \cup {<<a, answer>>}
    /\ inbox' = inbox \cup {<<a, answer>>}
    /\ UNCHANGED <<profile, overdue, applicants, handler, kyb, asked, role, entry, page>>

(* Fault: a webhook is taken for the profile of any user. *)
ProfileOf_Any(a) == {u \in KycUsers : profile[u] # NoProfile}

(* findBySumsubApplicantId *)
ProfileOf(a) == {u \in KycUsers : profile[u] # NoProfile /\ profile[u].applicant = a}

(* handleWebhook up to its write: the webhook of an applicant no profile   *)
(* has any more is answered and forgotten.                                 *)
ReceiveWebhook(h, m) ==
    /\ handler[h] = Free
    /\ IF ProfileOf(m[1]) = {}
       THEN inbox' = inbox \ {m} /\ UNCHANGED handler
       ELSE /\ \E u \in ProfileOf(m[1]) :
                  handler' = [handler EXCEPT ![h] = [op |-> "verdict", user |-> u, message |-> m]]
            /\ UNCHANGED inbox
    /\ UNCHANGED <<profile, overdue, applicants, verdicts, kyb, asked, role, entry, page>>

Granted(answer) == answer = "GREEN"

(* The verdict is written; the event for the compliance service has no     *)
(* x-internal-secret, is refused there and the refusal is swallowed.       *)
WriteVerdict(h) ==
    LET t == handler[h]
        u == t.user
        answer == t.message[2]
    IN
    /\ t.op = "verdict"
    /\ \/ /\ Granted(answer)
          /\ \E tier \in Tiers :
                 profile' = [profile EXCEPT ![u].status = "APPROVED", ![u].tier = tier]
          /\ overdue' = overdue \ {u}
       \/ /\ ~Granted(answer)
          /\ profile' = [profile EXCEPT
                 ![u].status = IF answer = "RETRY" THEN "PENDING" ELSE "REJECTED"]
          /\ UNCHANGED overdue
    /\ inbox' = inbox \ {t.message}
    /\ handler' = [handler EXCEPT ![h] = Free]
    /\ UNCHANGED <<applicants, verdicts, kyb, asked, role, entry, page>>

(* 730 or 365 days pass. *)
ExpiryPasses(u) ==
    /\ Tier(u) > 0 /\ u \notin overdue
    /\ overdue' = overdue \cup {u}
    /\ UNCHANGED <<profile, applicants, verdicts, inbox, handler, kyb, asked, role, entry,
                   page>>

(* processExpiredProfiles, for one of the rows it found: nothing in the    *)
(* repository schedules it.                                                *)
FindExpired(h, u) ==
    /\ handler[h] = Free
    /\ Status(u) = "APPROVED" /\ u \in overdue
    /\ handler' = [handler EXCEPT ![h] = [op |-> "expire", user |-> u]]
    /\ UNCHANGED <<profile, overdue, applicants, verdicts, inbox, kyb, asked, role, entry,
                   page>>

WriteExpired(h) ==
    /\ handler[h].op = "expire"
    /\ profile' = [profile EXCEPT ![handler[h].user].status = "EXPIRED"]
    /\ handler' = [handler EXCEPT ![h] = Free]
    /\ UNCHANGED <<overdue, applicants, verdicts, inbox, kyb, asked, role, entry, page>>

(* An await throws: Sumsub delivers a webhook again, nobody repeats the    *)
(* rest.                                                                   *)
HandlerFails(h) ==
    /\ handler[h] # Free
    /\ handler' = [handler EXCEPT ![h] = Free]
    /\ UNCHANGED <<profile, overdue, applicants, verdicts, inbox, kyb, asked, role, entry,
                   page>>

-----------------------------------------------------------------------------
SubmitKyb(u) ==
    /\ kyb[u] = "NOT_SUBMITTED"
    /\ kyb' = [kyb EXCEPT ![u] = "PENDING"]
    /\ UNCHANGED <<profile, overdue, applicants, verdicts, inbox, handler, asked, role,
                   entry, page>>

(* approveKyb: read, status, role; a rejection may come in between.        *)
ApproveKyb(h, u) ==
    /\ handler[h] = Free /\ kyb[u] = "PENDING"
    /\ handler' = [handler EXCEPT ![h] = [op |-> "approve", user |-> u]]
    /\ UNCHANGED <<profile, overdue, applicants, verdicts, inbox, kyb, asked, role, entry,
                   page>>

WriteApproval(h) ==
    /\ handler[h].op = "approve"
    /\ kyb' = [kyb EXCEPT ![handler[h].user] = "APPROVED"]
    /\ handler' = [handler EXCEPT ![h].op = "role"]
    /\ UNCHANGED <<profile, overdue, applicants, verdicts, inbox, asked, role, entry, page>>

GrantIssuer(h) ==
    /\ handler[h].op = "role"
    /\ role' = [role EXCEPT ![handler[h].user] = "ISSUER"]
    /\ handler' = [handler EXCEPT ![h] = Free]
    /\ UNCHANGED <<profile, overdue, applicants, verdicts, inbox, kyb, asked, entry, page>>

(* rejectKyb: in whatever state it is; the role stays.                     *)
RejectKyb(u) ==
    /\ kyb[u] \notin {"NOT_SUBMITTED", "REJECTED"}
    /\ kyb' = [kyb EXCEPT ![u] = "REJECTED"]
    /\ UNCHANGED <<profile, overdue, applicants, verdicts, inbox, handler, asked, role,
                   entry, page>>

-----------------------------------------------------------------------------
(* The row for asaId 0, which only a caller with the secret can have made. *)
RegisterIdentity(u) ==
    /\ u \notin entry
    /\ entry' = entry \cup {u}
    /\ UNCHANGED <<profile, overdue, applicants, verdicts, inbox, handler, kyb, asked,
                   role, page>>

OnPage(u) == ~page[u].done

ShowsApproved(u) == page[u].kyc = "APPROVED"

(* verifyWallet, or a wallet that was linked before. *)
VerifyWallet(u) ==
    /\ OnPage(u) /\ ~page[u].wallet
    /\ page' = [page EXCEPT ![u].wallet = TRUE]
    /\ UNCHANGED <<profile, overdue, applicants, verdicts, inbox, handler, kyb, asked,
                   role, entry>>

(* The status is asked every five seconds until it is APPROVED, and never  *)
(* after.                                                                  *)
PollStatus(u) ==
    /\ OnPage(u) /\ ~ShowsApproved(u) /\ profile[u] # NoProfile
    /\ page' = [page EXCEPT ![u].kyc = Status(u)]
    /\ UNCHANGED <<profile, overdue, applicants, verdicts, inbox, handler, kyb, asked,
                   role, entry>>

(* Once approved, the user is fetched until the tier has arrived.          *)
RefreshUser(u) ==
    /\ OnPage(u) /\ ShowsApproved(u) /\ page[u].tier = 0
    /\ page' = [page EXCEPT ![u].tier = Tier(u)]
    /\ UNCHANGED <<profile, overdue, applicants, verdicts, inbox, handler, kyb, asked,
                   role, entry>>

PollEntry(u) ==
    /\ OnPage(u) /\ ShowsApproved(u) /\ page[u].wallet /\ u \in entry
    /\ page' = [page EXCEPT ![u].entry = TRUE]
    /\ UNCHANGED <<profile, overdue, applicants, verdicts, inbox, handler, kyb, asked,
                   role, entry>>

(* initiateKyc posts {}: without a jurisdiction it is answered 400.        *)
StartKyc(u) ==
    /\ OnPage(u) /\ page[u].wallet /\ ~ShowsApproved(u)
    /\ page' = [page EXCEPT ![u].refused = @ \cup {"initiate"}]
    /\ UNCHANGED <<profile, overdue, applicants, verdicts, inbox, handler, kyb, asked,
                   role, entry>>

(* The KYC page fetches the status once; its Start Verification posts {}   *)
(* as well.                                                                *)
StartVerification(u) ==
    /\ Status(u) # "APPROVED"
    /\ page' = [page EXCEPT ![u].refused = @ \cup {"initiate"}]
    /\ UNCHANGED <<profile, overdue, applicants, verdicts, inbox, handler, kyb, asked,
                   role, entry>>

(* Its Verify Ownership posts to /wallets/challenge, which only answers    *)
(* GET: no wallet is verified here.                                        *)
VerifyOwnership(u) ==
    /\ "challenge" \notin page[u].refused
    /\ page' = [page EXCEPT ![u].refused = @ \cup {"challenge"}]
    /\ UNCHANGED <<profile, overdue, applicants, verdicts, inbox, handler, kyb, asked,
                   role, entry>>

(* Continue, once all four steps are done. *)
Continue(u) ==
    /\ OnPage(u) /\ page[u].wallet /\ ShowsApproved(u) /\ page[u].entry
    /\ page' = [page EXCEPT ![u].done = TRUE]
    /\ UNCHANGED <<profile, overdue, applicants, verdicts, inbox, handler, kyb, asked,
                   role, entry>>

KycNext ==
    \/ \E h \in Handlers :
           \/ CreateApplicant(h) \/ WriteProfile(h) \/ WriteVerdict(h) \/ WriteExpired(h)
           \/ WriteApproval(h) \/ GrantIssuer(h) \/ HandlerFails(h)
           \/ \E u \in KycUsers : Initiate(h, u) \/ FindExpired(h, u) \/ ApproveKyb(h, u)
           \/ \E m \in inbox : ReceiveWebhook(h, m)
    \/ \E a \in DOMAIN applicants, answer \in {"GREEN", "RETRY", "FINAL"} : Review(a, answer)
    \/ \E u \in KycUsers :
           \/ ExpiryPasses(u) \/ SubmitKyb(u) \/ RejectKyb(u) \/ RegisterIdentity(u)
           \/ VerifyWallet(u) \/ PollStatus(u) \/ RefreshUser(u) \/ PollEntry(u)
           \/ StartKyc(u) \/ StartVerification(u) \/ VerifyOwnership(u) \/ Continue(u)

KycSpec == KycInit /\ [][KycNext]_kycVars

-----------------------------------------------------------------------------
(* Whatever order and however often webhooks come, and whatever is         *)
(* initiated or expires in between: a tier, an approval shown and a        *)
(* finished onboarding rest on a GREEN webhook for an applicant of that    *)
(* very user, and whoever registered as an investor is an issuer only when *)
(* an administrator decided on the company (kyc.service.ts:56,             *)
(* kyb.service.ts:52).  Who asks for the role of an issuer at registration *)
(* has it from there on (user.service.ts:24).                              *)
VettedBeforeTrusted ==
    \A u \in KycUsers :
        /\ Tier(u) > 0 \/ ShowsApproved(u) \/ page[u].done
           => \E a \in DOMAIN applicants : applicants[a] = u /\ <<a, "GREEN">> \in verdicts
        /\ asked[u] = "INVESTOR" /\ role[u] = "ISSUER" => kyb[u] \notin {"NOT_SUBMITTED", "PENDING"}
=============================================================================
