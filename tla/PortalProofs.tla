---------------------------- MODULE PortalProofs ----------------------------
(* Proofs about the parts around the contracts: the services and the pages  *)
(* that MCPortal instantiates, each for any value of its constants.  The    *)
(* parts share no state; each has a section with its own inductive          *)
(* invariant.                                                               *)
EXTENDS Kyc, Whitelist, LiquidityPanel, LaunchWizard, AdminPage, IssuerDesk, Documents, PriceFeed,
        Analytics, SumTheorems, SequenceTheorems

-----------------------------------------------------------------------------
(* Verification of people and of companies *)

Statuses == {"none", "PENDING", "APPROVED", "REJECTED", "EXPIRED"}
Profile == [status: Statuses, tier: Tiers \cup {0}, applicant: Nat]
Answers == {"GREEN", "RETRY", "FINAL"}
OnboardingPage == [kyc: Statuses, tier: Tiers \cup {0}, wallet: BOOLEAN, entry: BOOLEAN,
                   done: BOOLEAN, refused: SUBSET {"initiate", "challenge"}]

KycTyped ==
    /\ profile \in [KycUsers -> Profile \cup {NoProfile}]
    /\ applicants \in Seq(KycUsers)
    /\ verdicts \subseteq (DOMAIN applicants) \X Answers /\ inbox \subseteq verdicts
    /\ handler = [h \in Handlers |-> handler[h]]
    /\ kyb \in [KycUsers -> {"NOT_SUBMITTED", "PENDING", "APPROVED", "REJECTED"}]
    /\ role \in [KycUsers -> {"INVESTOR", "ISSUER"}]
    /\ page \in [KycUsers -> OnboardingPage]

MadeFor(a, u) == a \in DOMAIN applicants /\ applicants[a] = u
Green(u) == \E a \in DOMAIN applicants : applicants[a] = u /\ <<a, "GREEN">> \in verdicts
Decided(u) == kyb[u] \notin {"NOT_SUBMITTED", "PENDING"}

(* A profile is of an applicant of its user; what shows it was vetted rests *)
(* on a GREEN answer for one.                                               *)
ProfileVetted(u) ==
    profile[u] # NoProfile =>
        /\ MadeFor(profile[u].applicant, u)
        /\ profile[u].tier # 0 \/ profile[u].status = "APPROVED" => Green(u)
PageVetted(u) == page[u].kyc = "APPROVED" \/ page[u].done => Green(u)
RoleVetted(u) == asked[u] = "INVESTOR" /\ role[u] = "ISSUER" => Decided(u)

(* What a request read before its last await, and what is true of it still. *)
Informed(t) ==
    /\ t.op \in {"applicant", "profile", "verdict", "expire", "approve", "role"} =>
           t.user \in KycUsers
    /\ t.op \in {"applicant", "profile"} /\ t.found => profile[t.user] # NoProfile
    /\ t.op = "profile" => MadeFor(t.applicant, t.user)
    /\ t.op = "verdict" => /\ t.message \in verdicts /\ MadeFor(t.message[1], t.user)
                           /\ profile[t.user] # NoProfile
    /\ t.op = "expire" => profile[t.user] # NoProfile
    /\ t.op = "approve" => /\ t = [op |-> "approve", user |-> t.user]
                           /\ kyb[t.user] # "NOT_SUBMITTED"
    /\ t.op = "role" => Decided(t.user)

KycInv ==
    /\ NoProfile \notin Profile
    /\ KycTyped
    /\ \A u \in KycUsers : ProfileVetted(u) /\ PageVetted(u) /\ RoleVetted(u)
    /\ \A h \in Handlers : Informed(handler[h])

(* What was once true of applicants, answers, profiles and companies.       *)
Grows ==
    /\ \A a \in DOMAIN applicants : a \in DOMAIN applicants' /\ applicants'[a] = applicants[a]
    /\ verdicts \subseteq verdicts' /\ asked' = asked
    /\ \A u \in KycUsers :
          /\ profile[u] # NoProfile => profile'[u] # NoProfile
          /\ kyb[u] # "NOT_SUBMITTED" => kyb'[u] # "NOT_SUBMITTED"
          /\ Decided(u) => Decided(u)'

LEMMA StaysInformed ==
    ASSUME Grows, NEW t, Informed(t)
    PROVE  Informed(t)'
BY DEF Grows, Informed, MadeFor

LEMMA StaysGreen ==
    ASSUME Grows, NEW u
    PROVE  Green(u) => Green(u)'
BY DEF Grows, Green

LEMMA StaysVetted ==
    ASSUME Grows, NEW u \in KycUsers
    PROVE  /\ ProfileVetted(u) /\ profile'[u] = profile[u] => ProfileVetted(u)'
           /\ PageVetted(u) /\ page'[u] = page[u] => PageVetted(u)'
           /\ RoleVetted(u) /\ role'[u] = role[u] => RoleVetted(u)'
<1>1. Green(u) => Green(u)'
  BY StaysGreen
<1>2. \A a : MadeFor(a, u) => MadeFor(a, u)'
  BY DEF Grows, MadeFor
<1>3. Decided(u) => Decided(u)'
  BY DEF Grows
<1>4. asked' = asked
  BY DEF Grows
<1>5. QED
  BY <1>1, <1>2, <1>3, <1>4 DEF ProfileVetted, PageVetted, RoleVetted

(* It is enough to look at what a step wrote. *)
LEMMA OnlyTheWritten ==
    ASSUME KycInv, Grows, KycTyped',
           \A u \in KycUsers :
              /\ profile'[u] = profile[u] \/ ProfileVetted(u)'
              /\ page'[u] = page[u] \/ PageVetted(u)'
              /\ role'[u] = role[u] \/ RoleVetted(u)',
           \A h \in Handlers : handler'[h] \in {handler[h], Free} \/ Informed(handler[h])'
    PROVE  KycInv'
<1>1. \A u \in KycUsers : ProfileVetted(u)' /\ PageVetted(u)' /\ RoleVetted(u)'
  BY StaysVetted DEF KycInv
<1>2. \A x : Informed(x) => Informed(x)'
  BY StaysInformed
<1>3. Informed(Free)'
  BY DEF Informed, Free
<1>4. \A h \in Handlers : Informed(handler[h])'
  BY <1>2, <1>3 DEF KycInv
<1>5. QED
  BY <1>1, <1>4 DEF KycInv

(* Steps of a handler that write what it does next. *)
LEMMA TaskStep ==
    ASSUME KycInv, NEW h \in Handlers, NEW t, Informed(t)' \/ t = Free,
           handler' = [handler EXCEPT ![h] = t], Grows,
           handler' = [g \in Handlers |-> handler'[g]] => KycTyped',
           \A u \in KycUsers : profile'[u] = profile[u] \/ ProfileVetted(u)',
           \A u \in KycUsers : role'[u] = role[u] \/ RoleVetted(u)',
           page' = page
    PROVE  KycInv'
<1>1. handler = [g \in Handlers |-> handler[g]]
  BY DEF KycInv, KycTyped
<1>2. /\ handler' = [g \in Handlers |-> handler'[g]] /\ handler'[h] = t
      /\ \A g \in Handlers \ {h} : handler'[g] = handler[g]
  BY <1>1
<1>3. \A g \in Handlers : handler'[g] \in {handler[g], Free} \/ Informed(handler[g])'
  BY <1>2
<1>4. KycTyped'
  BY <1>2
<1>5. QED
  BY <1>3, <1>4, OnlyTheWritten

LEMMA CreateApplicantStep ==
    ASSUME KycInv, NEW h \in Handlers, NEW t, t = handler[h], CreateApplicant(h)
    PROVE  KycInv'
<1>1. /\ KycTyped /\ t.op = "applicant" /\ t.user \in KycUsers
      /\ t.found => profile[t.user] # NoProfile
      /\ applicants' = Append(applicants, t.user)
      /\ UNCHANGED <<profile, verdicts, inbox, kyb, asked, role, page>>
  BY DEF KycInv, CreateApplicant, Informed
<1>2. PICK n \in Nat : n = Len(applicants) + 1
  BY <1>1 DEF KycTyped
<1>3. PICK new : new = [op |-> "profile", user |-> t.user, found |-> t.found, applicant |-> n]
  OBVIOUS
<1>4. handler' = [handler EXCEPT ![h] = new]
  BY <1>2, <1>3 DEF CreateApplicant
<1>5. /\ applicants' \in Seq(KycUsers) /\ n \in DOMAIN applicants' /\ applicants'[n] = t.user
      /\ \A a \in DOMAIN applicants : a \in DOMAIN applicants' /\ applicants'[a] = applicants[a]
  <2>1. applicants \in Seq(KycUsers) /\ Len(applicants) \in Nat
    BY <1>1 DEF KycTyped
  <2>2. /\ applicants' \in Seq(KycUsers) /\ DOMAIN applicants = 1..Len(applicants)
        /\ DOMAIN applicants' = 1..(Len(applicants) + 1)
        /\ applicants'[Len(applicants) + 1] = t.user
        /\ \A a \in DOMAIN applicants : applicants'[a] = applicants[a]
    BY <1>1, <2>1
  <2>3. QED
    BY <1>2, <2>1, <2>2
<1>6. Grows
  BY <1>1, <1>5 DEF Grows, Decided
<1>7. Informed(new)'
  BY <1>1, <1>3, <1>5 DEF Informed, MadeFor
<1>8. handler' = [g \in Handlers |-> handler'[g]] => KycTyped'
  BY <1>1, <1>5 DEF KycTyped
<1>9. QED
  BY <1>1, <1>4, <1>6, <1>7, <1>8, TaskStep

LEMMA WriteProfileStep ==
    ASSUME KycInv, NEW h \in Handlers, NEW t, t = handler[h], NEW u, u = t.user, WriteProfile(h)
    PROVE  KycInv'
<1>1. /\ KycTyped /\ u \in KycUsers /\ MadeFor(t.applicant, u) /\ t.applicant \in Nat
      /\ t.found => profile[u] \in Profile /\ profile[u] # NoProfile
      /\ UNCHANGED <<applicants, verdicts, inbox, kyb, asked, role, page>>
      /\ handler' = [handler EXCEPT ![h] = Free]
  BY DEF KycInv, WriteProfile, Informed, KycTyped, MadeFor
<1>2. /\ \A v : Green(v)' <=> Green(v)
      /\ \A a, v : MadeFor(a, v)' <=> MadeFor(a, v)
  BY <1>1 DEF Green, MadeFor
<1>3. CASE profile' = profile
  <2>1. Grows
    BY <1>1, <1>3 DEF Grows, Decided
  <2>2. handler' = [g \in Handlers |-> handler'[g]] => KycTyped'
    BY <1>1, <1>3 DEF KycTyped
  <2>3. QED
    BY <1>1, <1>3, <2>1, <2>2, TaskStep
<1>4. ASSUME NEW new \in Profile, profile' = [profile EXCEPT ![u] = new],
             new.applicant = t.applicant, new.status = "PENDING", new.tier # 0 => Green(u)
      PROVE  KycInv'
  <2>1. /\ profile' \in [KycUsers -> Profile \cup {NoProfile}] /\ profile'[u] = new
        /\ \A v \in KycUsers \ {u} : profile'[v] = profile[v]
    BY <1>1, <1>4 DEF KycTyped
  <2>2. Grows
    BY <1>1, <1>4, <2>1 DEF Grows, Decided, KycInv
  <2>3. ProfileVetted(u)'
    BY <1>1, <1>2, <1>4, <2>1 DEF ProfileVetted
  <2>4. handler' = [g \in Handlers |-> handler'[g]] => KycTyped'
    BY <1>1, <2>1 DEF KycTyped
  <2>5. \A v \in KycUsers : profile'[v] = profile[v] \/ ProfileVetted(v)'
    BY <2>1, <2>3
  <2>6. QED
    BY <1>1, <2>2, <2>4, <2>5, TaskStep
<1>5. CASE t.found /\ profile' # profile
  <2>1. PICK new : new = [profile[u] EXCEPT !.status = "PENDING", !.applicant = t.applicant]
    OBVIOUS
  <2>2. new \in Profile /\ new.applicant = t.applicant /\ new.status = "PENDING"
        /\ new.tier = profile[u].tier
    BY <1>1, <1>5, <2>1 DEF Profile, Statuses
  <2>3. new.tier # 0 => Green(u)
    BY <1>1, <1>5, <2>2 DEF KycInv, ProfileVetted
  <2>4. profile' = [profile EXCEPT ![u] = new]
    BY <1>5, <2>1 DEF WriteProfile
  <2>5. QED
    BY <1>4, <2>2, <2>3, <2>4
<1>6. CASE ~t.found /\ profile' # profile
  <2>1. PICK new : new = [status |-> "PENDING", tier |-> 0, applicant |-> t.applicant]
    OBVIOUS
  <2>2. new \in Profile /\ new.applicant = t.applicant /\ new.status = "PENDING" /\ new.tier = 0
    BY <1>1, <2>1 DEF Profile, Statuses
  <2>3. profile' = [profile EXCEPT ![u] = new]
    BY <1>6, <2>1 DEF WriteProfile
  <2>4. QED
    BY <1>4, <2>2, <2>3
<1>7. QED
  BY <1>3, <1>5, <1>6

LEMMA WriteVerdictStep ==
    ASSUME KycInv, NEW h \in Handlers, NEW t, t = handler[h], NEW u, u = t.user, WriteVerdict(h)
    PROVE  KycInv'
<1>1. /\ KycTyped /\ u \in KycUsers /\ t.message \in verdicts /\ MadeFor(t.message[1], u)
      /\ profile[u] \in Profile /\ profile[u] # NoProfile
      /\ inbox' = inbox \ {t.message}
      /\ UNCHANGED <<applicants, verdicts, kyb, asked, role, page>>
      /\ handler' = [handler EXCEPT ![h] = Free]
  BY DEF KycInv, WriteVerdict, Informed, KycTyped, MadeFor
<1>2. /\ \A v : Green(v)' <=> Green(v)
      /\ \A a, v : MadeFor(a, v)' <=> MadeFor(a, v)
  BY <1>1 DEF Green, MadeFor
<1>3. Granted(t.message[2]) => Green(u)
  <2>1. t.message \in (DOMAIN applicants) \X Answers
    BY <1>1 DEF KycTyped
  <2>2. t.message = <<t.message[1], t.message[2]>>
    BY <2>1
  <2>3. QED
    BY <1>1, <2>2 DEF Granted, MadeFor, Green
<1>4. PICK new \in Profile : /\ profile' = [profile EXCEPT ![u] = new]
                             /\ new.applicant = profile[u].applicant
                             /\ \/ Green(u)
                                \/ new.status # "APPROVED" /\ new.tier = profile[u].tier
  <2>1. ASSUME NEW tier \in Tiers, Granted(t.message[2]),
               profile' = [profile EXCEPT ![u].status = "APPROVED", ![u].tier = tier]
        PROVE  \E new \in Profile : /\ profile' = [profile EXCEPT ![u] = new]
                                    /\ new.applicant = profile[u].applicant
                                    /\ \/ Green(u)
                                       \/ new.status # "APPROVED" /\ new.tier = profile[u].tier
    <3>1. PICK new : new = [profile[u] EXCEPT !.status = "APPROVED", !.tier = tier]
      OBVIOUS
    <3>2. new \in Profile /\ new.applicant = profile[u].applicant
      BY <1>1, <3>1 DEF Profile, Statuses
    <3>3. profile' = [profile EXCEPT ![u] = new]
      BY <2>1, <3>1
    <3>4. QED
      BY <1>3, <2>1, <3>2, <3>3
  <2>2. ASSUME NEW status \in {"PENDING", "REJECTED"},
               profile' = [profile EXCEPT ![u].status = status]
        PROVE  \E new \in Profile : /\ profile' = [profile EXCEPT ![u] = new]
                                    /\ new.applicant = profile[u].applicant
                                    /\ \/ Green(u)
                                       \/ new.status # "APPROVED" /\ new.tier = profile[u].tier
    <3>1. PICK new : new = [profile[u] EXCEPT !.status = status]
      OBVIOUS
    <3>2. new \in Profile /\ new.applicant = profile[u].applicant /\ new.tier = profile[u].tier
          /\ new.status # "APPROVED"
      BY <1>1, <3>1 DEF Profile, Statuses
    <3>3. profile' = [profile EXCEPT ![u] = new]
      BY <2>2, <3>1
    <3>4. QED
      BY <3>2, <3>3
  <2>3. QED
    BY <2>1, <2>2 DEF WriteVerdict
<1>5. /\ profile' \in [KycUsers -> Profile \cup {NoProfile}] /\ profile'[u] = new
      /\ \A v \in KycUsers \ {u} : profile'[v] = profile[v]
  BY <1>1, <1>4 DEF KycTyped
<1>6. Grows
  BY <1>1, <1>4, <1>5 DEF Grows, Decided, KycInv
<1>7. ProfileVetted(u)'
  BY <1>1, <1>2, <1>4, <1>5 DEF ProfileVetted, KycInv
<1>8. handler' = [g \in Handlers |-> handler'[g]] => KycTyped'
  BY <1>1, <1>5 DEF KycTyped
<1>9. \A v \in KycUsers : profile'[v] = profile[v] \/ ProfileVetted(v)'
  BY <1>5, <1>7
<1>10. QED
  BY <1>1, <1>6, <1>8, <1>9, TaskStep

LEMMA WriteExpiredStep ==
    ASSUME KycInv, NEW h \in Handlers, NEW t, t = handler[h], NEW u, u = t.user, WriteExpired(h)
    PROVE  KycInv'
<1>1. /\ KycTyped /\ u \in KycUsers /\ profile[u] \in Profile /\ profile[u] # NoProfile
      /\ profile' = [profile EXCEPT ![u].status = "EXPIRED"]
      /\ UNCHANGED <<applicants, verdicts, inbox, kyb, asked, role, page>>
      /\ handler' = [handler EXCEPT ![h] = Free]
  BY DEF KycInv, WriteExpired, Informed, KycTyped
<1>2. /\ \A v : Green(v)' <=> Green(v)
      /\ \A a, v : MadeFor(a, v)' <=> MadeFor(a, v)
  BY <1>1 DEF Green, MadeFor
<1>3. PICK new : new = [profile[u] EXCEPT !.status = "EXPIRED"]
  OBVIOUS
<1>4. /\ new \in Profile /\ new.applicant = profile[u].applicant /\ new.tier = profile[u].tier
      /\ new.status = "EXPIRED" /\ profile' = [profile EXCEPT ![u] = new]
  BY <1>1, <1>3 DEF Profile, Statuses
<1>5. /\ profile' \in [KycUsers -> Profile \cup {NoProfile}] /\ profile'[u] = new
      /\ \A v \in KycUsers \ {u} : profile'[v] = profile[v]
  BY <1>1, <1>4 DEF KycTyped
<1>6. Grows
  BY <1>1, <1>4, <1>5 DEF Grows, Decided, KycInv
<1>7. ProfileVetted(u)'
  BY <1>1, <1>2, <1>4, <1>5 DEF ProfileVetted, KycInv
<1>8. handler' = [g \in Handlers |-> handler'[g]] => KycTyped'
  BY <1>1, <1>5 DEF KycTyped
<1>9. \A v \in KycUsers : profile'[v] = profile[v] \/ ProfileVetted(v)'
  BY <1>5, <1>7
<1>10. QED
  BY <1>1, <1>6, <1>8, <1>9, TaskStep

(* Requests that only read, and the ones of a company *)
LEMMA ReadStep ==
    ASSUME KycInv, NEW h \in Handlers,
           \/ \E u \in KycUsers : Initiate(h, u) \/ FindExpired(h, u) \/ ApproveKyb(h, u)
           \/ \E m \in inbox : ReceiveWebhook(h, m)
           \/ HandlerFails(h)
    PROVE  KycInv'
<1>1. /\ KycTyped /\ inbox' \subseteq inbox
      /\ UNCHANGED <<profile, applicants, verdicts, kyb, asked, role, page>>
  BY DEF KycInv, Initiate, FindExpired, ApproveKyb, ReceiveWebhook, HandlerFails
<1>2. Grows
  BY <1>1 DEF Grows, Decided
<1>3. handler' = [g \in Handlers |-> handler'[g]] => KycTyped'
  BY <1>1 DEF KycTyped
<1>4. CASE handler' = handler
  BY <1>1, <1>2, <1>3, <1>4, OnlyTheWritten DEF KycTyped
<1>5. ASSUME NEW t, handler' = [handler EXCEPT ![h] = t], Informed(t) \/ t = Free PROVE KycInv'
  <2>1. Informed(t)' \/ t = Free
    BY <1>2, <1>5, StaysInformed
  <2>2. QED
    BY <1>1, <1>2, <1>3, <1>5, <2>1, TaskStep
<1>6. ASSUME NEW u \in KycUsers, Initiate(h, u) PROVE KycInv'
  <2>1. PICK t : t = [op |-> "applicant", user |-> u, found |-> profile[u] # NoProfile]
    OBVIOUS
  <2>2. Informed(t) /\ handler' = [handler EXCEPT ![h] = t]
    BY <1>6, <2>1 DEF Initiate, Informed
  <2>3. QED
    BY <1>5, <2>2
<1>7. ASSUME NEW u \in KycUsers, FindExpired(h, u) PROVE KycInv'
  <2>1. PICK t : t = [op |-> "expire", user |-> u]
    OBVIOUS
  <2>2. Informed(t) /\ handler' = [handler EXCEPT ![h] = t]
    BY <1>7, <2>1 DEF FindExpired, Informed, Status
  <2>3. QED
    BY <1>5, <2>2
<1>8. ASSUME NEW u \in KycUsers, ApproveKyb(h, u) PROVE KycInv'
  <2>1. PICK t : t = [op |-> "approve", user |-> u]
    OBVIOUS
  <2>2. Informed(t) /\ handler' = [handler EXCEPT ![h] = t]
    BY <1>8, <2>1 DEF ApproveKyb, Informed
  <2>3. QED
    BY <1>5, <2>2
<1>9. ASSUME NEW m \in inbox, ReceiveWebhook(h, m), handler' # handler PROVE KycInv'
  <2>1. PICK u \in ProfileOf(m[1]) :
            handler' = [handler EXCEPT ![h] = [op |-> "verdict", user |-> u, message |-> m]]
    BY <1>9 DEF ReceiveWebhook
  <2>2. PICK t : t = [op |-> "verdict", user |-> u, message |-> m]
    OBVIOUS
  <2>3. Informed(t) /\ handler' = [handler EXCEPT ![h] = t]
    BY <1>1, <2>1, <2>2 DEF ProfileOf, Informed, KycInv, ProfileVetted, KycTyped
  <2>4. QED
    BY <1>5, <2>3
<1>10. CASE HandlerFails(h)
  BY <1>5, <1>10 DEF HandlerFails
<1>11. QED
  BY <1>4, <1>6, <1>7, <1>8, <1>9, <1>10

LEMMA CompanyStep ==
    ASSUME KycInv, NEW h \in Handlers, NEW t, t = handler[h], NEW u, u = t.user,
           WriteApproval(h) \/ GrantIssuer(h)
    PROVE  KycInv'
<1>1. /\ KycTyped /\ u \in KycUsers
      /\ UNCHANGED <<profile, applicants, verdicts, inbox, asked, page>>
  BY DEF KycInv, WriteApproval, GrantIssuer, Informed
<1>2. CASE WriteApproval(h)
  <2>1. PICK new : new = [op |-> "role", user |-> u]
    OBVIOUS
  <2>2. /\ t = [op |-> "approve", user |-> u] /\ kyb' = [kyb EXCEPT ![u] = "APPROVED"]
        /\ role' = role
    BY <1>2 DEF KycInv, Informed, WriteApproval
  <2>3. handler' = [handler EXCEPT ![h] = new]
    <3>1. new = [t EXCEPT !.op = "role"]
      BY <2>1, <2>2
    <3>2. handler' = [handler EXCEPT ![h] = [t EXCEPT !.op = "role"]]
      BY <1>2 DEF WriteApproval
    <3>3. QED
      BY <3>1, <3>2
  <2>4. Grows /\ Decided(u)'
    BY <1>1, <2>2 DEF Grows, Decided, KycTyped
  <2>5. handler' = [g \in Handlers |-> handler'[g]] => KycTyped'
    BY <1>1, <2>2 DEF KycTyped
  <2>6. Informed(new)'
    BY <1>1, <2>1, <2>4 DEF Informed
  <2>7. QED
    BY <1>1, <2>2, <2>3, <2>4, <2>5, <2>6, TaskStep
<1>3. CASE GrantIssuer(h)
  <2>1. /\ Decided(u) /\ role' = [role EXCEPT ![u] = "ISSUER"] /\ kyb' = kyb
        /\ handler' = [handler EXCEPT ![h] = Free]
    BY <1>3 DEF KycInv, Informed, GrantIssuer
  <2>2. Grows
    BY <1>1, <2>1 DEF Grows, Decided
  <2>3. \A v \in KycUsers : role'[v] = role[v] \/ RoleVetted(v)'
    BY <1>1, <2>1 DEF KycTyped, RoleVetted, Decided
  <2>4. handler' = [g \in Handlers |-> handler'[g]] => KycTyped'
    BY <1>1, <2>1 DEF KycTyped
  <2>5. QED
    BY <1>1, <2>1, <2>2, <2>3, <2>4, TaskStep
<1>4. QED
  BY <1>2, <1>3

(* What happens outside of the service's requests *)
LEMMA OutsideStep ==
    ASSUME KycInv,
           \/ \E a \in DOMAIN applicants, answer \in Answers : Review(a, answer)
           \/ \E u \in KycUsers : ExpiryPasses(u) \/ SubmitKyb(u) \/ RejectKyb(u)
                                  \/ RegisterIdentity(u)
           \/ UNCHANGED kycVars
    PROVE  KycInv'
<1>1. KycTyped /\ UNCHANGED <<profile, applicants, handler, asked, role, page>>
  BY DEF KycInv, Review, ExpiryPasses, SubmitKyb, RejectKyb, RegisterIdentity, kycVars
<1>2. /\ verdicts \subseteq verdicts' /\ verdicts' \subseteq (DOMAIN applicants) \X Answers
      /\ inbox' \subseteq verdicts'
  <2>1. ASSUME NEW a \in DOMAIN applicants, NEW answer \in Answers, Review(a, answer)
        PROVE  /\ verdicts \subseteq verdicts' /\ verdicts' \subseteq (DOMAIN applicants) \X Answers
               /\ inbox' \subseteq verdicts'
    <3>1. <<a, answer>> \in (DOMAIN applicants) \X Answers
      OBVIOUS
    <3>2. verdicts' = verdicts \cup {<<a, answer>>} /\ inbox' = inbox \cup {<<a, answer>>}
      BY <2>1 DEF Review
    <3>3. QED
      BY <1>1, <3>1, <3>2 DEF KycTyped
  <2>2. QED
    BY <1>1, <2>1 DEF ExpiryPasses, SubmitKyb, RejectKyb, RegisterIdentity, kycVars, KycTyped
<1>3. /\ kyb' \in [KycUsers -> {"NOT_SUBMITTED", "PENDING", "APPROVED", "REJECTED"}]
      /\ \A u \in KycUsers : kyb'[u] = kyb[u] \/ kyb'[u] = "REJECTED"
                             \/ (kyb[u] = "NOT_SUBMITTED" /\ kyb'[u] = "PENDING")
  BY <1>1 DEF Review, ExpiryPasses, SubmitKyb, RejectKyb, RegisterIdentity, kycVars, KycTyped
<1>4. Grows
  BY <1>1, <1>2, <1>3 DEF Grows, Decided
<1>5. KycTyped'
  BY <1>1, <1>2, <1>3 DEF KycTyped
<1>6. QED
  BY <1>1, <1>4, <1>5, OnlyTheWritten

LEMMA OnboardingStep ==
    ASSUME KycInv, NEW u \in KycUsers,
           \/ VerifyWallet(u) \/ PollStatus(u) \/ RefreshUser(u) \/ PollEntry(u)
           \/ StartKyc(u) \/ StartVerification(u) \/ VerifyOwnership(u) \/ Continue(u)
    PROVE  KycInv'
<1> USE DEF KycInv
<1>1. /\ KycTyped /\ page[u] \in OnboardingPage
      /\ UNCHANGED <<profile, applicants, verdicts, inbox, handler, kyb, asked, role>>
  BY DEF VerifyWallet, PollStatus, RefreshUser, PollEntry, StartKyc, StartVerification,
         VerifyOwnership, Continue, KycTyped
<1>2. Grows
  BY <1>1 DEF Grows, Decided
<1>3. Green(u)' <=> Green(u)
  BY <1>1 DEF Green
<1>4. Status(u) \in Statuses /\ Tier(u) \in Tiers \cup {0}
      /\ (Status(u) = "APPROVED" => Green(u))
  BY <1>1 DEF Status, Tier, KycTyped, Profile, Statuses, ProfileVetted
<1>5. ASSUME NEW new \in OnboardingPage, page' = [page EXCEPT ![u] = new],
             new.kyc = "APPROVED" \/ new.done => Green(u)
      PROVE  KycInv'
  <2>1. /\ page' \in [KycUsers -> OnboardingPage] /\ page'[u] = new
        /\ \A v \in KycUsers \ {u} : page'[v] = page[v]
    BY <1>1, <1>5 DEF KycTyped
  <2>2. KycTyped'
    BY <1>1, <2>1 DEF KycTyped
  <2>3. PageVetted(u)'
    BY <1>3, <1>5, <2>1 DEF PageVetted
  <2>4. QED
    BY <1>1, <1>2, <2>1, <2>2, <2>3, OnlyTheWritten
<1>6. PageVetted(u)
  OBVIOUS
<1>7. CASE PollStatus(u)
  <2>1. PICK new : new = [page[u] EXCEPT !.kyc = Status(u)]
    OBVIOUS
  <2>2. new \in OnboardingPage /\ new.kyc = Status(u) /\ new.done = page[u].done
    BY <1>1, <1>4, <2>1 DEF OnboardingPage
  <2>3. QED
    BY <1>4, <1>5, <1>6, <1>7, <2>1, <2>2 DEF PollStatus, PageVetted
<1>8. CASE RefreshUser(u)
  <2>1. PICK new : new = [page[u] EXCEPT !.tier = Tier(u)]
    OBVIOUS
  <2>2. new \in OnboardingPage /\ new.kyc = page[u].kyc /\ new.done = page[u].done
    BY <1>1, <1>4, <2>1 DEF OnboardingPage
  <2>3. QED
    BY <1>5, <1>6, <1>8, <2>1, <2>2 DEF RefreshUser, PageVetted
<1>9. CASE VerifyWallet(u) \/ PollEntry(u)
  <2>1. PICK new : /\ page' = [page EXCEPT ![u] = new]
                   /\ \/ new = [page[u] EXCEPT !.wallet = TRUE]
                      \/ new = [page[u] EXCEPT !.entry = TRUE]
    BY <1>9 DEF VerifyWallet, PollEntry
  <2>2. new \in OnboardingPage /\ new.kyc = page[u].kyc /\ new.done = page[u].done
    BY <1>1, <2>1 DEF OnboardingPage
  <2>3. QED
    BY <1>5, <1>6, <2>1, <2>2 DEF PageVetted
<1>10. CASE StartKyc(u) \/ StartVerification(u) \/ VerifyOwnership(u)
  <2>1. PICK what \in {"initiate", "challenge"} :
            page' = [page EXCEPT ![u].refused = @ \cup {what}]
    BY <1>10 DEF StartKyc, StartVerification, VerifyOwnership
  <2>2. PICK new : new = [page[u] EXCEPT !.refused = @ \cup {what}]
    OBVIOUS
  <2>3. new \in OnboardingPage /\ new.kyc = page[u].kyc /\ new.done = page[u].done
    BY <1>1, <2>2 DEF OnboardingPage
  <2>4. page' = [page EXCEPT ![u] = new]
    BY <2>1, <2>2
  <2>5. QED
    BY <1>5, <1>6, <2>3, <2>4 DEF PageVetted
<1>11. CASE Continue(u)
  <2>1. PICK new : new = [page[u] EXCEPT !.done = TRUE]
    OBVIOUS
  <2>2. new \in OnboardingPage /\ new.kyc = page[u].kyc
    BY <1>1, <2>1 DEF OnboardingPage
  <2>3. QED
    BY <1>5, <1>6, <1>11, <2>1, <2>2 DEF Continue, ShowsApproved, PageVetted
<1>12. QED
  BY <1>7, <1>8, <1>9, <1>10, <1>11

(* A tier, an approval shown and a finished onboarding rest on a GREEN      *)
(* webhook for an applicant of that user, the role of an issuer that nobody *)
(* asked for at registration on a decision, for any number of users,        *)
(* requests and webhooks (kyc.service.ts:56, kyb.service.ts:52).            *)
THEOREM NobodyIsTrustedUnvetted ==
    ASSUME NoProfile \notin Profile
    PROVE  KycSpec => []VettedBeforeTrusted
<1>1. KycInit => KycInv
  <2> SUFFICES ASSUME KycInit PROVE KycInv
    OBVIOUS
  <2>1. NewPage \in OnboardingPage /\ NewPage.kyc = "none" /\ ~NewPage.done
    BY DEF NewPage, OnboardingPage, Statuses
  <2>2. KycTyped
    BY <2>1, EmptySeq DEF KycInit, KycTyped
  <2>3. \A u \in KycUsers : ProfileVetted(u) /\ PageVetted(u) /\ RoleVetted(u)
    BY <2>1 DEF KycInit, ProfileVetted, PageVetted, RoleVetted
  <2>4. \A h \in Handlers : Informed(handler[h])
    BY DEF KycInit, Informed, Free
  <2>5. QED
    BY <2>2, <2>3, <2>4 DEF KycInv
<1>2. KycInv /\ [KycNext]_kycVars => KycInv'
  <2> SUFFICES ASSUME KycInv, [KycNext]_kycVars PROVE KycInv'
    OBVIOUS
  <2>1. \A h \in Handlers :
            CreateApplicant(h) \/ WriteProfile(h) \/ WriteVerdict(h) \/ WriteExpired(h)
            \/ WriteApproval(h) \/ GrantIssuer(h) => KycInv'
    BY CreateApplicantStep, WriteProfileStep, WriteVerdictStep, WriteExpiredStep, CompanyStep
  <2>2. QED
    BY <2>1, ReadStep, OutsideStep, OnboardingStep DEF KycNext, Answers
<1>3. KycInv => VettedBeforeTrusted
  <2> SUFFICES ASSUME KycInv, NEW u \in KycUsers
               PROVE  /\ Tier(u) > 0 \/ ShowsApproved(u) \/ page[u].done => Green(u)
                      /\ asked[u] = "INVESTOR" /\ role[u] = "ISSUER" => Decided(u)
    BY DEF VettedBeforeTrusted, Green, Decided
  <2>1. Tier(u) > 0 => profile[u] # NoProfile /\ profile[u].tier # 0
    BY DEF Tier
  <2>2. QED
    BY <2>1 DEF KycInv, ProfileVetted, PageVetted, RoleVetted, ShowsApproved
<1>4. QED
  BY <1>1, <1>2, <1>3, PTL DEF KycSpec

-----------------------------------------------------------------------------
(* Who may hold an asset *)

Entry == [asa: {0, Asa}, tier: KycTiers, active: BOOLEAN, expires: Ends]
Box == [tier: KycTiers, expiry: Ends]
Check == [stage: {"box", "row", "rules", "approved"}, wallet: Wallets, product: Nat]

WhitelistTyped ==
    /\ row \in [Wallets \X AssetIds -> Entry \cup {NoRow}]
    /\ box \in [Wallets -> Box \cup {NoBox}]
    /\ adding = Absent \/ adding \in [wallet: Wallets, id: AssetIds, tier: KycTiers, expires: Ends]
    /\ check = Absent \/ check \in Check

(* The chain's clock is not ahead of the service's. *)
WhitelistInv == WhitelistTyped /\ now \in Int /\ latest \in Int /\ latest <= now

(* Rounding a value down to whole units hides less than one unit. *)
LEMMA WholeUnits ==
    ASSUME NEW p \in Nat, NEW L \in Nat, NEW U \in Nat \ {0}, p \div U <= L
    PROVE  p <= L * U + U - 1
<1>1. PICK q \in Int : q = p \div U
  OBVIOUS
<1>2. p < q * U + U
  BY <1>1
<1>3. q * U <= L * U
  BY <1>1
<1>4. L * U \in Int /\ q * U \in Int
  BY <1>1
<1>5. QED
  BY <1>2, <1>3, <1>4

LEMMA UpsertedTyped ==
    ASSUME row \in [Wallets \X AssetIds -> Entry \cup {NoRow}],
           NEW w \in Wallets, NEW id \in AssetIds, NEW tier \in KycTiers, NEW end \in Ends
    PROVE  Upserted(w, id, tier, end) \in Entry
<1>1. row[<<w, id>>] # NoRow => row[<<w, id>>].expires \in Ends
  BY DEF Entry
<1>2. QED
  BY <1>1 DEF Upserted, Entry

LEMMA WhitelistStep ==
    ASSUME WhitelistInv, [WhitelistNext]_whitelistVars
    PROVE  WhitelistInv'
<1> USE DEF WhitelistInv, WhitelistTyped
<1>0. ASSUME NEW w \in Wallets, NEW tier \in KycTiers, NEW end \in Ends,
             AddToWhitelist(w, tier, end)
      PROVE  WhitelistInv'
  BY <1>0 DEF AddToWhitelist, Box
<1>1. ASSUME NEW w \in Wallets, NEW id \in AssetIds, NEW tier \in KycTiers, NEW end \in Ends,
             InternalAdd(w, id, tier, end)
      PROVE  WhitelistInv'
  <2>1. CASE Identity0 \in AssetIds
    <3>1. Upserted(w, Identity0, tier, end) \in Entry
      BY <2>1, UpsertedTyped
    <3>2. QED
      BY <1>1, <3>1 DEF InternalAdd
  <2>2. CASE Identity0 \notin AssetIds
    <3>1. UNCHANGED row
      BY <1>1, <2>2 DEF InternalAdd
    <3>2. QED
      BY <1>1, <3>1 DEF InternalAdd
  <2>3. QED
    BY <2>1, <2>2
<1>2. ASSUME NEW w \in Wallets, RemoveFromWhitelist(w) PROVE WhitelistInv'
  BY <1>2 DEF RemoveFromWhitelist
<1>3. ASSUME NEW w \in Wallets, InternalRemove(w) PROVE WhitelistInv'
  <2>1. \A k \in Wallets \X AssetIds :
            row[k] # NoRow => [row[k] EXCEPT !.active = FALSE] \in Entry
    BY DEF Entry
  <2>2. DOMAIN row = Wallets \X AssetIds
    OBVIOUS
  <2>3. row' = [k \in DOMAIN row |->
                   IF k[1] = w /\ row[k] # NoRow THEN [row[k] EXCEPT !.active = FALSE] ELSE row[k]]
        /\ UNCHANGED <<box, now, latest, adding, check>>
    BY <1>3 DEF InternalRemove
  <2>4. row' \in [Wallets \X AssetIds -> Entry \cup {NoRow}]
    BY <2>1, <2>2, <2>3
  <2>5. QED
    BY <2>3, <2>4
<1>4. ASSUME NEW w \in Wallets, NEW id \in AssetIds, DevApprove(w, id) PROVE WhitelistInv'
  <2>1. PICK end \in Ends : row' = [row EXCEPT ![<<w, id>>] = Upserted(w, id, 1, end)]
    BY <1>4 DEF DevApprove
  <2>2. Upserted(w, id, 1, end) \in Entry
    BY UpsertedTyped DEF KycTiers
  <2>3. QED
    BY <1>4, <2>1, <2>2 DEF DevApprove
<1>5. ASSUME NEW w \in Wallets, NEW product \in Products, StartCheck(w, product)
      PROVE  WhitelistInv'
  <2>1. [stage |-> IF skips THEN "approved" ELSE "box", wallet |-> w, product |-> product] \in Check
    BY WhitelistAssumption DEF Check
  <2>2. QED
    BY <1>5, <2>1 DEF StartCheck
<1>6. CASE AddAsset
  <2>1. Upserted(adding.wallet, adding.id, adding.tier, adding.expires) \in Entry
    BY <1>6, UpsertedTyped DEF AddAsset
  <2>2. QED
    BY <1>6, <2>1 DEF AddAsset
<1>7. CASE ReadBox \/ BoxUnread \/ ReadRow \/ Answer \/ Answered
  <2>1. PICK next \in {"row", "rules", "approved"} :
            check' = Absent \/ (check # Absent /\ check' = [check EXCEPT !.stage = next])
    BY <1>7 DEF ReadBox, BoxUnread, ReadRow, Answer, Answered, AfterGrant
  <2>2. check' = Absent \/ check' \in Check
    BY <2>1 DEF Check
  <2>3. QED
    BY <1>7, <2>2 DEF ReadBox, BoxUnread, ReadRow, Answer, Answered
<1>8. CASE AddFails \/ Pause \/ Tick \/ NewBlock \/ UNCHANGED whitelistVars
  BY <1>8 DEF AddFails, Pause, Tick, NewBlock, whitelistVars
<1>9. QED
  BY <1>0, <1>1, <1>2, <1>3, <1>4, <1>5, <1>6, <1>7, <1>8 DEF WhitelistNext

(* What a check approves of, the contract or an unexpired row grants. *)
GrantIsLive ==
    check # Absent /\ check' # Absent /\ check.stage # "rules" /\ check'.stage = "rules" =>
        \E t \in LiveGrants(check.wallet) :
            AnnualLimit[t] = 0 \/ check.product <= AnnualLimit[t] * Unit + Unit - 1

LEMMA LimitCoversTrade ==
    ASSUME NEW tier \in KycTiers, check \in Check, WithinLimit(tier, check.product)
    PROVE  AnnualLimit[tier] = 0 \/ check.product <= AnnualLimit[tier] * Unit + Unit - 1
BY WhitelistAssumption, WholeUnits DEF WithinLimit, Check

LEMMA ApprovalStep ==
    ASSUME WhitelistInv, [WhitelistNext]_whitelistVars
    PROVE  GrantIsLive
<1> SUFFICES ASSUME check # Absent, check' # Absent, check.stage # "rules", check'.stage = "rules"
             PROVE  \E t \in LiveGrants(check.wallet) :
                        AnnualLimit[t] = 0 \/ check.product <= AnnualLimit[t] * Unit + Unit - 1
  BY DEF GrantIsLive
<1>1. check \in Check /\ check.wallet \in Wallets
  BY DEF WhitelistInv, WhitelistTyped, Check
<1>2. CASE ReadBox /\ QueryWhitelist(check.wallet)
  <2>1. WithinLimit(box[check.wallet].tier, check.product)
    BY <1>2 DEF ReadBox, AfterGrant
  <2>2. box[check.wallet] \in Box
    BY <1>1, <1>2 DEF QueryWhitelist, WhitelistInv, WhitelistTyped
  <2>3. IsWhitelisted(check.wallet)
    <3>1. box[check.wallet].expiry \in Nat
      BY <2>2, WhitelistAssumption DEF Box
    <3>2. QED
      BY <1>2, <3>1 DEF QueryWhitelist, IsWhitelisted, WhitelistInv
  <2>4. box[check.wallet].tier \in LiveGrants(check.wallet) /\ box[check.wallet].tier \in KycTiers
    BY <2>2, <2>3 DEF LiveGrants, Box
  <2>5. QED
    BY <1>1, <2>1, <2>4, LimitCoversTrade
<1>3. CASE ReadRow
  <2>1. PICK r \in ActiveRows(check.wallet) : ~Overdue(r) /\ WithinLimit(r.tier, check.product)
    BY <1>3 DEF ReadRow, AfterGrant
  <2>2. r.tier \in LiveGrants(check.wallet)
    BY <2>1 DEF LiveGrants
  <2>3. r.tier \in KycTiers
    BY <1>1, <2>1 DEF ActiveRows, WhitelistInv, WhitelistTyped, Entry
  <2>4. QED
    BY <1>1, <2>1, <2>2, <2>3, LimitCoversTrade
<1>4. \/ ReadBox /\ QueryWhitelist(check.wallet)
      \/ ReadRow
  <2>1. CASE ReadBox /\ ~QueryWhitelist(check.wallet)
    BY <1>1, <2>1 DEF ReadBox, Check
  <2>2. CASE BoxUnread \/ Answer \/ Answered
    BY <1>1, <2>2 DEF BoxUnread, Answer, Answered, Check
  <2>3. check' # check
    OBVIOUS
  <2>4. QED
    BY <2>1, <2>2, <2>3 DEF WhitelistNext, whitelistVars, RemoveFromWhitelist, InternalRemove,
       StartCheck, DevApprove, AddToWhitelist, InternalAdd, Pause, AddAsset, AddFails, Tick, NewBlock
<1>5. QED
  BY <1>2, <1>3, <1>4

(* An approval has been through the rules, or nothing is checked at all. *)
NothingElseApproves ==
    check' # Absent /\ check'.stage = "approved" /\ check' # check =>
        skips \/ (check # Absent /\ check.stage = "rules")

LEMMA NoOtherApproval ==
    ASSUME WhitelistInv, [WhitelistNext]_whitelistVars
    PROVE  [NothingElseApproves]_whitelistVars
<1> SUFFICES ASSUME check' # Absent, check'.stage = "approved", check' # check
             PROVE  skips \/ (check # Absent /\ check.stage = "rules")
  BY DEF NothingElseApproves
<1>1. CASE \E w \in Wallets, product \in Products : StartCheck(w, product)
  BY <1>1 DEF StartCheck
<1>2. CASE ReadBox \/ BoxUnread \/ ReadRow
  <2>1. check \in Check
    BY <1>2 DEF ReadBox, BoxUnread, ReadRow, WhitelistInv, WhitelistTyped
  <2>2. QED
    BY <1>2, <2>1 DEF ReadBox, BoxUnread, ReadRow, AfterGrant, Check
<1>3. CASE Answer \/ Answered
  BY <1>3 DEF Answer, Answered
<1>4. QED
  BY <1>1, <1>2, <1>3 DEF WhitelistNext, whitelistVars, RemoveFromWhitelist, InternalRemove,
     DevApprove, AddToWhitelist, InternalAdd, Pause, AddAsset, AddFails, Tick, NewBlock

(* A trade passes the whitelist only while the contract, or a row that has  *)
(* not expired, grants a tier whose limit covers it, for any wallets,       *)
(* expiries, limits and clocks; only DEV_SKIP_COMPLIANCE approves another   *)
(* way (rules.service.ts:54, on-chain-queries.ts:92).                       *)
THEOREM ApprovalsAreGranted == WhitelistSpec => ApprovedOnLiveGrant
<1>1. WhitelistInit => WhitelistInv
  BY DEF WhitelistInit, WhitelistInv, WhitelistTyped
<1>2. WhitelistInv /\ [WhitelistNext]_whitelistVars => WhitelistInv'
  BY WhitelistStep
<1>3. WhitelistInv /\ [WhitelistNext]_whitelistVars => [GrantIsLive]_whitelistVars
  BY ApprovalStep
<1>4. WhitelistInv /\ [WhitelistNext]_whitelistVars => [NothingElseApproves]_whitelistVars
  BY NoOtherApproval
<1>5. QED
  BY <1>1, <1>2, <1>3, <1>4, PTL
     DEF WhitelistSpec, ApprovedOnLiveGrant, GrantIsLive, NothingElseApproves

-----------------------------------------------------------------------------
(* The panels of the investors *)

(* An addition or removal starts while nothing is under way and busy ends   *)
(* with it, whatever is shown by then, for any wallets and amounts          *)
(* (liquidity-panel.tsx:194, 213).                                          *)
THEOREM MovesAreSerial == LiquiditySpec => []OneMoveAtATime
<1>1. SwapInit /\ LiquidityInit => OneMoveAtATime
  BY DEF LiquidityInit, OneMoveAtATime
<1>2. OneMoveAtATime /\ [LiquidityNext]_<<swapVars, lpVars>> => OneMoveAtATime'
  <2> SUFFICES ASSUME OneMoveAtATime, [LiquidityNext]_<<swapVars, lpVars>>
               PROVE  OneMoveAtATime'
    OBVIOUS
  <2>1. CASE UNCHANGED <<lpBusy, lpMoves>>
    BY <2>1 DEF OneMoveAtATime
  <2>2. CASE Move
    BY <2>2 DEF Move, MayMove, OneMoveAtATime
  <2>3. ASSUME NEW m \in lpMoves, Moved(m) \/ NotMoved(m)
        PROVE  OneMoveAtATime'
    BY <2>3 DEF Moved, NotMoved, OneMoveAtATime
  <2>4. QED
    BY <2>1, <2>2, <2>3 DEF LiquidityNext, lpVars, ConnectLp, GateAnswered, EnableLp, RwaOptedIn,
       EnabledLp, NotEnabledLp, SwitchTab, TypeLp, GetLpQuote, LpQuoted
<1>3. QED
  BY <1>1, <1>2, PTL DEF LiquiditySpec

(* Whose answer a lookup will be: a live one is about the wallet connected. *)
LookupsAreCurrent ==
    \A l \in lookups : l.live => l.wallet = connected /\ connected # NoTrader

Lookup == [wallet: Traders, live: BOOLEAN]

PanelTyped ==
    /\ holding \in [Traders -> {"none", "frozen", "free"}]
    /\ connected \in Traders \cup {NoTrader}
    /\ lookups \subseteq Lookup
    /\ \A s \in swaps : s.wallet \in Traders

SwapInv == PanelTyped /\ LookupsAreCurrent /\ BuyerWasChecked

(* A holding that is free stays so: only opt-ins and unfreezing change it. *)
LEMMA FreeStaysFree ==
    ASSUME PanelTyped, [SwapNext]_swapVars, NEW w \in Traders, holding[w] = "free"
    PROVE  holding'[w] = "free"
<1>1. CASE OptedIn \/ Unfrozen
  BY <1>1 DEF OptedIn, Unfrozen, PanelTyped
<1>2. CASE holding' = holding
  BY <1>2
<1>3. QED
  BY <1>1, <1>2 DEF SwapNext, swapVars, Connect, LookedUp, SwitchSide, Type, GetQuote, Quoted,
     Enable, NotEnabled, StartSwap, SwapConfirmed, SwapFailed

LEMMA CancelledAreDead ==
    ASSUME NEW all \in SUBSET Lookup
    PROVE  Cancelled(all) \subseteq Lookup /\ \A l \in Cancelled(all) : ~l.live
BY DEF Lookup, Cancelled

(* After the check of a wallet no other answer counts. *)
LEMMA CheckedAnew ==
    ASSUME SwapInv, NEW w \in Traders \cup {NoTrader}, NEW s \in {"buy", "sell"},
           CheckHolding(w, s), connected' = w
    PROVE  /\ LookupsAreCurrent' /\ lookups' \subseteq Lookup
           /\ s = "buy" /\ w # NoTrader => gate' = "checking"
<1>1. Cancelled(lookups) \subseteq Lookup /\ \A l \in Cancelled(lookups) : ~l.live
  BY CancelledAreDead DEF SwapInv, PanelTyped
<1>2. w # NoTrader => [wallet |-> w, live |-> TRUE] \in Lookup
  BY DEF Lookup
<1>3. [wallet |-> w, live |-> TRUE].wallet = w
  OBVIOUS
<1>4. \/ lookups' = Cancelled(lookups)
      \/ w # NoTrader /\ lookups' = Cancelled(lookups) \cup {[wallet |-> w, live |-> TRUE]}
  BY DEF CheckHolding
<1>5. LookupsAreCurrent' /\ lookups' \subseteq Lookup
  BY <1>1, <1>2, <1>3, <1>4 DEF LookupsAreCurrent
<1>6. QED
  BY <1>5 DEF CheckHolding

LEMMA SwapStep ==
    ASSUME NoTrader \notin Traders, side \in {"buy", "sell"}, SwapInv, [SwapNext]_swapVars
    PROVE  SwapInv' /\ side' \in {"buy", "sell"}
<1> USE DEF SwapInv
<1>1. ASSUME NEW w \in Traders, holding[w] = "free" PROVE holding'[w] = "free"
  BY <1>1, FreeStaysFree
<1>2. ASSUME UNCHANGED <<holding, connected, lookups, side, gate, gateOf>>, swaps' \subseteq swaps
      PROVE  SwapInv' /\ side' \in {"buy", "sell"}
  BY <1>2 DEF PanelTyped, LookupsAreCurrent, BuyerWasChecked
<1>3. ASSUME NEW w \in Traders \cup {NoTrader}, Connect(w)
      PROVE  SwapInv' /\ side' \in {"buy", "sell"}
  <2>1. /\ LookupsAreCurrent' /\ lookups' \subseteq Lookup
        /\ side = "buy" /\ w # NoTrader => gate' = "checking"
    BY <1>3, CheckedAnew DEF Connect
  <2>2. QED
    BY <1>3, <2>1 DEF Connect, PanelTyped, BuyerWasChecked
<1>4. ASSUME NEW l \in lookups, LookedUp(l)
      PROVE  SwapInv' /\ side' \in {"buy", "sell"}
  <2>1. /\ lookups' \subseteq lookups
        /\ UNCHANGED <<holding, connected, side, swaps>>
    BY <1>4 DEF LookedUp
  <2>2. l \in Lookup /\ l.wallet \in Traders /\ holding[l.wallet] \in {"none", "frozen", "free"}
    BY DEF PanelTyped, Lookup
  <2>3. CASE l.live
    <3>1. gateOf' = connected /\ (gate' = "ready" => holding[connected] = "free")
      BY <1>4, <2>2, <2>3 DEF LookedUp, LookupsAreCurrent
    <3>2. QED
      BY <2>1, <3>1 DEF PanelTyped, LookupsAreCurrent, BuyerWasChecked
  <2>4. CASE ~l.live
    BY <1>4, <2>1, <2>4 DEF LookedUp, PanelTyped, LookupsAreCurrent, BuyerWasChecked
  <2>5. QED
    BY <2>3, <2>4
<1>5. ASSUME NEW s \in {"buy", "sell"}, SwitchSide(s)
      PROVE  SwapInv' /\ side' \in {"buy", "sell"}
  <2> DEFINE new == {[wallet |-> w, live |-> TRUE] :
                        w \in IF s = "buy" THEN {connected} \ {NoTrader} ELSE {}}
  <2>1. Cancelled(lookups) \subseteq Lookup /\ \A l \in Cancelled(lookups) : ~l.live
    BY CancelledAreDead DEF PanelTyped
  <2>2. new \subseteq Lookup /\ \A l \in new : l.wallet = connected /\ connected # NoTrader
    <3>1. new = IF s = "buy" /\ connected # NoTrader
                THEN {[wallet |-> connected, live |-> TRUE]} ELSE {}
      OBVIOUS
    <3>2. connected # NoTrader => [wallet |-> connected, live |-> TRUE] \in Lookup
      BY DEF PanelTyped, Lookup
    <3>3. [wallet |-> connected, live |-> TRUE].wallet = connected
      OBVIOUS
    <3> HIDE DEF new
    <3>4. QED
      BY <3>1, <3>2, <3>3
  <2> HIDE DEF new
  <2>3. lookups' = lookups \/ lookups' = Cancelled(lookups) \cup new
    BY <1>5 DEF SwitchSide, new
  <2>4. lookups' \subseteq Lookup /\ LookupsAreCurrent'
    BY <1>5, <2>1, <2>2, <2>3 DEF SwitchSide, PanelTyped, LookupsAreCurrent
  <2>5. QED
    BY <1>5, <2>4 DEF SwitchSide, PanelTyped, BuyerWasChecked
<1>6. CASE OptedIn
  <2>1. holding' \in [Traders -> {"none", "frozen", "free"}]
    BY <1>6 DEF OptedIn, PanelTyped
  <2>2. QED
    BY <1>1, <1>6, <2>1 DEF OptedIn, PanelTyped, LookupsAreCurrent, BuyerWasChecked
<1>7. CASE Unfrozen
  <2>1. holding' \in [Traders -> {"none", "frozen", "free"}]
    BY <1>7 DEF Unfrozen, PanelTyped
  <2>2. /\ LookupsAreCurrent' /\ lookups' \subseteq Lookup
        /\ side = "buy" /\ connected # NoTrader => gate' = "checking"
    <3>1. connected \in Traders \cup {NoTrader} /\ CheckHolding(connected, side) /\ connected' = connected
      BY <1>7 DEF Unfrozen, PanelTyped
    <3>2. QED
      BY <3>1, CheckedAnew
  <2>3. QED
    BY <1>1, <1>7, <2>1, <2>2 DEF Unfrozen, PanelTyped, BuyerWasChecked
<1>8. CASE StartSwap
  <2>1. /\ swaps' = swaps \cup {[wallet |-> connected, side |-> side, amount |-> spend]}
        /\ connected \in Traders /\ (side = "buy" => gate = "ready")
        /\ UNCHANGED <<holding, connected, lookups, side, gate, gateOf>>
    BY <1>8 DEF StartSwap, Offered, PanelTyped
  <2>2. QED
    BY <2>1 DEF PanelTyped, LookupsAreCurrent, BuyerWasChecked
<1>9. QED
  BY <1>2, <1>3, <1>4, <1>5, <1>6, <1>7, <1>8 DEF SwapNext, swapVars, Type, GetQuote, Quoted,
     Enable, NotEnabled, SwapConfirmed, SwapFailed

(* Buy is offered to a wallet, and a buy is of a wallet, that could hold    *)
(* the tokens when it was looked up, for any number of wallets and of       *)
(* answers under way (swap-panel.tsx:116).                                  *)
THEOREM BuyersAreChecked == SwapSpec => []BuyerWasChecked
<1> DEFINE Inv == NoTrader \notin Traders /\ side \in {"buy", "sell"} /\ SwapInv
<1>1. SwapInit => Inv
  BY SwapAssumption DEF SwapInit, SwapInv, PanelTyped, LookupsAreCurrent, BuyerWasChecked
<1>2. Inv /\ [SwapNext]_swapVars => Inv'
  BY SwapStep
<1>3. Inv => BuyerWasChecked
  BY DEF SwapInv
<1>4. QED
  BY <1>1, <1>2, <1>3, PTL DEF SwapSpec

-----------------------------------------------------------------------------
(* The pages an issuer applies with *)

Attempt == [wallet: Issuers, amount: Nat, ticker: Tickers, id: Nat]

Stage == {"idle", "awaiting-wallet-liquidity", "confirming-liquidity", "submitting-form", "done"}

(* Everything that names a deposit: what a page captured once its deposit   *)
(* is sent, what has been posted, and the applications.                     *)
Paid == {p \in Pages : attempt[p] # NoAttempt /\ attempt[p].id > 0}
Claims == applications \cup {post.asked : post \in posts} \cup {attempt[p] : p \in Paid}

LaunchTyped ==
    /\ form \in [Pages -> [amount: Nat, ticker: Tickers]]
    /\ issuer \in [Pages -> Issuers \cup {NoIssuer}]
    /\ stage \in [Pages -> Stage]
    /\ attempt \in [Pages -> Attempt \cup {NoAttempt}]
    /\ \A p \in Pages : stage[p] = "awaiting-wallet-liquidity" => attempt[p] \in Attempt
    /\ sent \in Seq([wallet: Issuers, amount: Nat])
    /\ posts \subseteq [page: Pages, awaited: BOOLEAN, checked: BOOLEAN, asked: Attempt]

(* A deposit on chain has at most one claim, which states what was sent.    *)
ClaimsMatch ==
    \A a \in Claims :
        /\ a \in Attempt /\ a.id \in DOMAIN sent
        /\ sent[a.id] = [wallet |-> a.wallet, amount |-> a.amount]
        /\ \A b \in Claims : a.id = b.id => a = b

LaunchInv == LaunchTyped /\ ClaimsMatch

LEMMA NoNewClaim ==
    ASSUME ClaimsMatch, Claims' \subseteq Claims, sent' = sent
    PROVE  ClaimsMatch'
BY DEF ClaimsMatch

(* A deposit is sent: its id is new, and the page's claim is of it. *)
LEMMA BroadcastClaims ==
    ASSUME LaunchInv, NEW p \in Pages, attempt[p] \in Attempt, Broadcast(p),
           UNCHANGED <<posts, applications>>
    PROVE  /\ ClaimsMatch'
           /\ attempt' \in [Pages -> Attempt \cup {NoAttempt}] /\ attempt'[p] \in Attempt
           /\ \A q \in Pages \ {p} : attempt'[q] = attempt[q]
           /\ sent' \in Seq([wallet: Issuers, amount: Nat])
<1> DEFINE new == [attempt[p] EXCEPT !.id = Len(sent) + 1]
           deposit == [wallet |-> attempt[p].wallet, amount |-> attempt[p].amount]
<1>1. /\ deposit \in [wallet: Issuers, amount: Nat] /\ Len(sent) \in Nat
      /\ sent \in Seq([wallet: Issuers, amount: Nat])
  BY DEF LaunchInv, LaunchTyped, Attempt
<1>2. /\ new \in Attempt /\ new.id = Len(sent) + 1
      /\ deposit = [wallet |-> new.wallet, amount |-> new.amount]
  BY <1>1 DEF Attempt
<1>3. sent' = Append(sent, deposit) /\ attempt' = [attempt EXCEPT ![p] = new]
  BY DEF Broadcast
<1> HIDE DEF new, deposit
<1>4. /\ sent' \in Seq([wallet: Issuers, amount: Nat]) /\ DOMAIN sent = 1..Len(sent)
      /\ DOMAIN sent' = 1..(Len(sent) + 1)
      /\ sent'[Len(sent) + 1] = deposit
      /\ \A i \in DOMAIN sent : sent'[i] = sent[i]
  BY <1>1, <1>3
<1>5. /\ attempt' \in [Pages -> Attempt \cup {NoAttempt}] /\ attempt'[p] = new
      /\ \A q \in Pages \ {p} : attempt'[q] = attempt[q]
  BY <1>2, <1>3 DEF LaunchInv, LaunchTyped, Stage
<1>6. Claims' \subseteq Claims \cup {new}
  BY <1>5 DEF Claims, Paid
<1>7. \A a \in Claims : a \in Attempt /\ a.id \in 1..Len(sent) /\ a.id # new.id
  <2>1. \A a \in Claims : a \in Attempt /\ a.id \in DOMAIN sent
    BY DEF LaunchInv, ClaimsMatch
  <2>2. \A i \in 1..Len(sent) : i # Len(sent) + 1
    BY <1>1
  <2>3. QED
    BY <1>2, <1>4, <2>1, <2>2
<1>8. ASSUME NEW a \in Claims'
      PROVE  /\ a \in Attempt /\ a.id \in DOMAIN sent'
             /\ sent'[a.id] = [wallet |-> a.wallet, amount |-> a.amount]
             /\ \A b \in Claims' : a.id = b.id => a = b
  <2>1. CASE a = new
    BY <1>1, <1>2, <1>4, <1>6, <1>7, <2>1
  <2>2. CASE a # new
    <3>1. a \in Claims
      BY <1>6, <2>2
    <3>2. a \in Attempt /\ a.id \in DOMAIN sent
      BY <1>4, <1>7, <3>1
    <3>3. sent[a.id] = [wallet |-> a.wallet, amount |-> a.amount]
      BY <3>1 DEF LaunchInv, ClaimsMatch
    <3>4. \A b \in Claims' : a.id = b.id => a = b
      BY <1>6, <1>7, <3>1 DEF LaunchInv, ClaimsMatch
    <3>5. QED
      BY <1>1, <1>4, <3>2, <3>3, <3>4
  <2>3. QED
    BY <2>1, <2>2
<1>9. ClaimsMatch'
  BY <1>8 DEF ClaimsMatch
<1>10. QED
  BY <1>2, <1>4, <1>5, <1>9

LEMMA LaunchStep ==
    ASSUME LaunchInv, [LaunchNext]_launchVars
    PROVE  LaunchInv'
<1> USE DEF LaunchInv
<1>1. ASSUME NEW p \in Pages,
             \/ \E w \in Issuers \cup {NoIssuer} : ConnectIssuer(p, w)
             \/ \E n \in 0..MaxAmount, t \in Tickers : Change(p, n, t)
      PROVE  LaunchInv'
  <2>1. UNCHANGED <<stage, attempt, sent, posts, applications>>
    BY <1>1 DEF ConnectIssuer, Change
  <2>2. form' \in [Pages -> [amount: Nat, ticker: Tickers]]
    <3>1. CASE \E w \in Issuers \cup {NoIssuer} : ConnectIssuer(p, w)
      BY <3>1 DEF LaunchTyped, ConnectIssuer
    <3>2. ASSUME NEW n \in 0..MaxAmount, NEW t \in Tickers, Change(p, n, t)
          PROVE  form' \in [Pages -> [amount: Nat, ticker: Tickers]]
      <4>1. [amount |-> n, ticker |-> t] \in [amount: Nat, ticker: Tickers]
        OBVIOUS
      <4>2. QED
        BY <3>2, <4>1 DEF LaunchTyped, Change
    <3>3. QED
      BY <1>1, <3>1, <3>2
  <2>3. issuer' \in [Pages -> Issuers \cup {NoIssuer}]
    BY <1>1 DEF LaunchTyped, ConnectIssuer, Change
  <2>4. LaunchTyped'
    BY <2>1, <2>2, <2>3 DEF LaunchTyped
  <2>5. QED
    BY <2>1, <2>4, NoNewClaim DEF Claims, Paid
<1>2. ASSUME NEW p \in Pages, SubmitLaunch(p) PROVE LaunchInv'
  <2> DEFINE new == [wallet |-> issuer[p], amount |-> form[p].amount,
                     ticker |-> form[p].ticker, id |-> 0]
  <2>1. new \in Attempt /\ new.id = 0
    BY <1>2 DEF SubmitLaunch, LaunchTyped, Attempt
  <2>2. /\ attempt' = [attempt EXCEPT ![p] = new]
        /\ stage' = [stage EXCEPT ![p] = "awaiting-wallet-liquidity"]
        /\ UNCHANGED <<form, issuer, sent, posts, applications>>
    BY <1>2 DEF SubmitLaunch
  <2> HIDE DEF new
  <2>3. LaunchTyped'
    BY <2>1, <2>2 DEF LaunchTyped, Stage
  <2>4. Claims' \subseteq Claims
    <3>1. attempt'[p] = new /\ \A q \in Pages \ {p} : attempt'[q] = attempt[q]
      BY <2>2 DEF LaunchTyped, Stage
    <3>2. Paid' \subseteq Paid \ {p}
      BY <2>1, <3>1 DEF Paid
    <3>3. QED
      BY <2>2, <3>1, <3>2 DEF Claims
  <2>5. QED
    BY <2>2, <2>3, <2>4, NoNewClaim
<1>3. ASSUME NEW p \in Pages, SubmitFails(p) \/ Leave(p) PROVE LaunchInv'
  <2>1. /\ attempt' = [attempt EXCEPT ![p] = NoAttempt]
        /\ stage' = [stage EXCEPT ![p] = "idle"]
        /\ form' = form \/ form' = [form EXCEPT ![p].amount = 0]
        /\ UNCHANGED <<issuer, sent, posts, applications>>
    BY <1>3 DEF SubmitFails, Leave
  <2>2. LaunchTyped'
    <3>1. form' \in [Pages -> [amount: Nat, ticker: Tickers]]
      <4> DEFINE empty == [form[p] EXCEPT !.amount = 0]
      <4>1. empty \in [amount: Nat, ticker: Tickers]
        BY DEF LaunchTyped
      <4>2. form' = form \/ form' = [form EXCEPT ![p] = empty]
        BY <2>1
      <4> HIDE DEF empty
      <4>3. QED
        BY <4>1, <4>2 DEF LaunchTyped
    <3>2. stage' \in [Pages -> Stage] /\ attempt' \in [Pages -> Attempt \cup {NoAttempt}]
      BY <2>1 DEF LaunchTyped, Stage
    <3>3. \A q \in Pages : stage'[q] = "awaiting-wallet-liquidity" => attempt'[q] \in Attempt
      BY <2>1 DEF LaunchTyped
    <3>4. QED
      BY <2>1, <3>1, <3>2, <3>3 DEF LaunchTyped
  <2>3. Claims' \subseteq Claims
    <3>1. attempt'[p] = NoAttempt /\ \A q \in Pages \ {p} : attempt'[q] = attempt[q]
      BY <2>1 DEF LaunchTyped, Stage
    <3>2. Paid' \subseteq Paid \ {p}
      BY <3>1 DEF Paid
    <3>3. QED
      BY <2>1, <3>1, <3>2 DEF Claims
  <2>4. QED
    BY <2>1, <2>2, <2>3, NoNewClaim
<1>4. ASSUME NEW p \in Pages, PostLaunch(p) PROVE LaunchInv'
  <2> DEFINE post == [page |-> p, awaited |-> TRUE, checked |-> FALSE, asked |-> attempt[p]]
  <2>1. /\ p \in Paid /\ attempt[p] \in Attempt
        /\ stage' = [stage EXCEPT ![p] = "submitting-form"]
        /\ posts' = posts \cup {post}
        /\ UNCHANGED <<form, issuer, attempt, sent, applications>>
    BY <1>4 DEF PostLaunch, Payload, Paid, LaunchTyped, Stage
  <2>2. /\ post \in [page: Pages, awaited: BOOLEAN, checked: BOOLEAN, asked: Attempt]
        /\ post.asked = attempt[p]
    BY <2>1
  <2> HIDE DEF post
  <2>3. LaunchTyped'
    BY <2>1, <2>2 DEF LaunchTyped, Stage
  <2>4. Claims' \subseteq Claims
    BY <2>1, <2>2 DEF Claims, Paid
  <2>5. QED
    BY <2>1, <2>3, <2>4, NoNewClaim
<1>5. CASE SignWeb \/ BuildSignAndBroadcast
  <2> DEFINE p == IF SignWeb THEN "web" ELSE "issuer"
  <2>1. /\ p \in Pages /\ stage[p] = "awaiting-wallet-liquidity" /\ Broadcast(p)
        /\ stage' = stage \/ stage' = [stage EXCEPT ![p] = "confirming-liquidity"]
        /\ UNCHANGED <<form, issuer, posts, applications>>
    BY <1>5 DEF SignWeb, BuildSignAndBroadcast, Pages
  <2> HIDE DEF p
  <2>2. attempt[p] \in Attempt
    BY <2>1 DEF LaunchTyped, Stage
  <2>3. /\ ClaimsMatch'
        /\ attempt' \in [Pages -> Attempt \cup {NoAttempt}] /\ attempt'[p] \in Attempt
        /\ \A q \in Pages \ {p} : attempt'[q] = attempt[q]
        /\ sent' \in Seq([wallet: Issuers, amount: Nat])
    BY <2>1, <2>2, BroadcastClaims
  <2>4. LaunchTyped'
    BY <2>1, <2>3 DEF LaunchTyped, Stage
  <2>5. QED
    BY <2>3, <2>4
<1>6. ASSUME NEW post \in posts,
             CheckLaunch(post) \/ SaveLaunch(post) \/ LaunchRefused(post) \/ LaunchTimesOut(post)
      PROVE  LaunchInv'
  <2>1. /\ post \in [page: Pages, awaited: BOOLEAN, checked: BOOLEAN, asked: Attempt]
        /\ post.page \in Pages
    BY DEF LaunchTyped, Stage
  <2>2. /\ UNCHANGED <<form, issuer, attempt, sent>>
        /\ stage' = stage \/ \E news \in {"idle", "done"} : stage' = [stage EXCEPT ![post.page] = news]
        /\ applications' \subseteq applications \cup {post.asked}
    BY <1>6 DEF CheckLaunch, SaveLaunch, LaunchRefused, LaunchTimesOut, Hears
  <2>3. /\ posts' \subseteq [page: Pages, awaited: BOOLEAN, checked: BOOLEAN, asked: Attempt]
        /\ \A q \in posts' : \E r \in posts : q.asked = r.asked
    <3> DEFINE checked == [post EXCEPT !.checked = TRUE]
               left    == [post EXCEPT !.awaited = FALSE]
    <3>1. /\ checked.asked = post.asked /\ left.asked = post.asked
          /\ {checked, left} \subseteq
                 [page: Pages, awaited: BOOLEAN, checked: BOOLEAN, asked: Attempt]
      BY <2>1
    <3>2. posts' \subseteq posts \cup {checked, left}
      BY <1>6 DEF CheckLaunch, SaveLaunch, LaunchRefused, LaunchTimesOut
    <3> HIDE DEF checked, left
    <3>3. QED
      BY <3>1, <3>2 DEF LaunchTyped, Stage
  <2>4. LaunchTyped'
    <3>1. stage' \in [Pages -> Stage]
      BY <2>1, <2>2 DEF LaunchTyped, Stage
    <3>2. \A q \in Pages : stage'[q] = "awaiting-wallet-liquidity" => attempt'[q] \in Attempt
      BY <2>1, <2>2 DEF LaunchTyped
    <3>3. QED
      BY <2>2, <2>3, <3>1, <3>2 DEF LaunchTyped
  <2>5. Claims' \subseteq Claims
    BY <2>2, <2>3 DEF Claims, Paid
  <2>6. QED
    BY <2>2, <2>4, <2>5, NoNewClaim
<1>7. CASE UNCHANGED launchVars
  BY <1>7, NoNewClaim DEF launchVars, LaunchTyped, Stage, Claims, Paid
<1>8. QED
  BY <1>1, <1>2, <1>3, <1>4, <1>5, <1>6, <1>7 DEF LaunchNext

(* An application names a deposit of its own, of the amount and from the    *)
(* wallet it states, for any issuers, tickers and amounts                   *)
(* (issue/new/page.tsx:149).                                                *)
THEOREM ApplicationsMatchDeposits == LaunchSpec => []DepositMatchesApplication
<1>1. LaunchInit => LaunchInv
  <2> SUFFICES ASSUME LaunchInit PROVE LaunchInv
    OBVIOUS
  <2>1. (CHOOSE t \in Tickers : TRUE) \in Tickers
    BY LaunchAssumption
  <2>2. LaunchTyped
    BY <2>1, EmptySeq DEF LaunchInit, LaunchTyped, Stage
  <2>3. Claims = {}
    BY DEF LaunchInit, Claims, Paid
  <2>4. QED
    BY <2>2, <2>3 DEF LaunchInv, ClaimsMatch
<1>2. LaunchInv /\ [LaunchNext]_launchVars => LaunchInv'
  BY LaunchStep
<1>3. LaunchInv => DepositMatchesApplication
  BY DEF LaunchInv, ClaimsMatch, Claims, DepositMatchesApplication
<1>4. QED
  BY <1>1, <1>2, <1>3, PTL DEF LaunchSpec

-----------------------------------------------------------------------------
(* The administrators' page *)

Decision == {"APPROVED", "REJECTED"}
Escrows == {"PENDING", "RETURNED_TO_ISSUER", "RELEASED_TO_VAULT"}
Row == [status: {"SUBMITTED", "REJECTED", "PRE_MARKET", "ACTIVE"},
        verification: {"PENDING", "APPROVED", "REJECTED"}, escrow: Escrows, asa: BOOLEAN]
Call == [admin: Admins, kind: {"stage", "deploy", "activate"}, stage: Int,
         decision: Decision, confirmed: BOOLEAN,
         step: {"read", "log", "write", "return", "save", "answered", "failed"},
         escrow: Escrows, awaited: BOOLEAN]

(* A value for every administrator. *)
PerAdmin(f) == f = [a \in Admins |-> f[a]]

AdminTyped ==
    /\ asset \in Row /\ calls \subseteq Call
    /\ PerAdmin(card) /\ PerAdmin(review) /\ PerAdmin(submitted)
    /\ plan \in [Admins -> [Stages -> Decision]]
    /\ \A a \in Admins : submitted[a].plan \in [Stages -> Decision]
    /\ \A a \in Admins : submitted[a].confirmed \in BOOLEAN

(* The escrow of the row is settled for good once a snapshot has it so. *)
Settled == asset.escrow # "PENDING"
Recorded(snapshot) == snapshot.escrow # "PENDING" => Settled

SnapshotsAgree ==
    \A a \in Admins :
        /\ card[a] # NoAsset0 => Recorded(card[a])
        /\ review[a] # NoReview => Recorded(review[a])

(* A rejection that nobody confirmed is of a deposit that is settled. *)
LoopsAsked ==
    \A a \in Admins, s \in Stages :
        Open(submitted[a].review, s) /\ submitted[a].plan[s] = "REJECTED" =>
            submitted[a].confirmed \/ Settled

(* A call that nobody confirmed has read, or will read, that it is settled: *)
(* it never comes to the return, as often as the contract would pay.        *)
CallAsked(c) ==
    /\ c.decision = "REJECTED" => c.confirmed \/ Settled
    /\ c.kind = "stage" /\ c.decision = "REJECTED" /\ c.step \in {"log", "write"} =>
          c.confirmed \/ c.escrow # "PENDING"
    /\ c.step = "return" => c.confirmed
CallsAsked == \A c \in calls : CallAsked(c)

AdminInv ==
    AdminTyped /\ SnapshotsAgree /\ LoopsAsked /\ CallsAsked /\ returned # "unasked"

LEMMA AdminInitially == ASSUME AdminInit PROVE AdminInv
<1>1. /\ NothingSubmitted.plan \in [Stages -> Decision]
      /\ NothingSubmitted.confirmed \in BOOLEAN
      /\ \A s \in Stages : NothingSubmitted.plan[s] # "REJECTED"
  BY DEF NothingSubmitted, AllApproved, Decision
<1>2. asset \in Row /\ calls = {} /\ returned = "no"
  BY DEF AdminInit, Row, Escrows
<1>3. /\ PerAdmin(card) /\ PerAdmin(review) /\ PerAdmin(submitted)
      /\ \A a \in Admins : card[a] = NoAsset0 /\ review[a] = NoReview
                          /\ submitted[a] = NothingSubmitted
  BY DEF AdminInit, PerAdmin
<1>4. plan \in [Admins -> [Stages -> Decision]]
  BY DEF AdminInit, AllApproved, Decision
<1>5. QED
  BY <1>1, <1>2, <1>3, <1>4 DEF AdminInv, AdminTyped, SnapshotsAgree, LoopsAsked, CallsAsked, CallAsked

(* What the administrators do leaves the row alone. *)
LEMMA PageStep ==
    ASSUME AdminInv, NEW a \in Admins,
           \/ LoadData(a) \/ OpenReview(a) \/ CloseReview(a) \/ SubmitReview(a) \/ Confirm(a)
           \/ Dismiss(a) \/ PostStage(a) \/ EndLoop(a)
           \/ \E s \in Stages : Decide(a, s)
           \/ Click(a, "deploy") \/ Click(a, "activate")
    PROVE  AdminInv'
<1>1. UNCHANGED <<asset, returned>> /\ (Settled' <=> Settled)
  BY DEF LoadData, OpenReview, CloseReview, SubmitReview, Confirm, Dismiss, PostStage, EndLoop,
         Decide, Click, modalVars, Settled
<1>2. card' = card \/ card' = [card EXCEPT ![a] = Listed0]
  BY DEF LoadData, OpenReview, CloseReview, SubmitReview, Confirm, Dismiss, PostStage, EndLoop,
         Decide, Click, modalVars
<1>3. \/ review' = review
      \/ card[a] # NoAsset0 /\ review' = [review EXCEPT ![a] = card[a]]
      \/ review' = [review EXCEPT ![a] = NoReview]
  BY DEF LoadData, OpenReview, CloseReview, SubmitReview, Confirm, Dismiss, PostStage, EndLoop,
         Decide, Click, modalVars
<1>4. PerAdmin(card') /\ PerAdmin(review') /\ SnapshotsAgree'
  <2>1. Listed0 # NoAsset0 => Recorded(Listed0)
    BY DEF Listed0, Recorded, Settled
  <2>2. PerAdmin(card') /\ \A b \in Admins : card'[b] = card[b] \/ card'[b] = Listed0
    BY <1>2 DEF AdminInv, AdminTyped, PerAdmin
  <2>3. /\ PerAdmin(review')
        /\ \A b \in Admins : \/ review'[b] = review[b] \/ review'[b] = NoReview
                             \/ card[a] # NoAsset0 /\ review'[b] = card[a]
    BY <1>3 DEF AdminInv, AdminTyped, PerAdmin
  <2>4. QED
    BY <1>1, <2>1, <2>2, <2>3 DEF AdminInv, SnapshotsAgree, Recorded
<1>5. plan' \in [Admins -> [Stages -> Decision]]
  <2>1. ASSUME NEW s \in Stages, Decide(a, s)
        PROVE  plan' \in [Admins -> [Stages -> Decision]]
    <3> DEFINE turned == [plan[a] EXCEPT ![s] = IF @ = "APPROVED" THEN "REJECTED" ELSE "APPROVED"]
    <3>1. turned \in [Stages -> Decision]
      BY DEF AdminInv, AdminTyped, Decision
    <3>2. plan' = [plan EXCEPT ![a] = turned]
      BY <2>1 DEF Decide
    <3> HIDE DEF turned
    <3>3. QED
      BY <3>1, <3>2 DEF AdminInv, AdminTyped
  <2>2. CASE OpenReview(a)
    <3> DEFINE read == [s \in Stages |-> DecisionOf(card[a], s)]
    <3>1. read \in [Stages -> Decision]
      BY DEF DecisionOf, Decision
    <3>2. plan' = [plan EXCEPT ![a] = read]
      BY <2>2 DEF OpenReview
    <3> HIDE DEF read
    <3>3. QED
      BY <3>1, <3>2 DEF AdminInv, AdminTyped
  <2>3. CASE CloseReview(a)
    BY <2>3 DEF CloseReview, AllApproved, AdminInv, AdminTyped, Decision
  <2>4. QED
    BY <2>1, <2>2, <2>3 DEF LoadData, SubmitReview, Confirm, Dismiss, PostStage, EndLoop,
         Click, modalVars, AdminInv, AdminTyped
<1>6. /\ PerAdmin(submitted') /\ LoopsAsked'
      /\ \A b \in Admins : submitted'[b].plan \in [Stages -> Decision]
                           /\ submitted'[b].confirmed \in BOOLEAN
  <2> DEFINE started(b) == [review |-> review[a], plan |-> plan[a], confirmed |-> b]
  <2>1. \/ submitted' = submitted
        \/ submitted' = [submitted EXCEPT ![a] = NothingSubmitted]
        \/ \E b \in BOOLEAN : /\ submitted' = [submitted EXCEPT ![a] = started(b)]
                              /\ b \/ (review[a] # NoReview /\ ~AsksFirst(a))
    <3>1. CASE SubmitReview(a) /\ ~AsksFirst(a)
      <4>1. review[a] # NoReview /\ submitted' = [submitted EXCEPT ![a] = started(FALSE)]
        BY <3>1 DEF SubmitReview, StartLoop
      <4>2. QED
        BY <3>1, <4>1
    <3>2. CASE Confirm(a)
      <4>1. submitted' = [submitted EXCEPT ![a] = started(TRUE)]
        BY <3>2 DEF Confirm, StartLoop
      <4>2. QED
        BY <4>1
    <3>3. CASE EndLoop(a)
      BY <3>3 DEF EndLoop
    <3> HIDE DEF started
    <3>4. QED
      BY <3>1, <3>2, <3>3 DEF LoadData, OpenReview, CloseReview, SubmitReview, Dismiss, PostStage,
         Decide, Click, modalVars
  <2>2. CASE submitted' = submitted
    BY <1>1, <2>2 DEF AdminInv, AdminTyped, LoopsAsked, PerAdmin
  <2>3. ASSUME NEW new, submitted' = [submitted EXCEPT ![a] = new],
               new.plan \in [Stages -> Decision], new.confirmed \in BOOLEAN,
               \A s \in Stages : Open(new.review, s) /\ new.plan[s] = "REJECTED" =>
                                     new.confirmed \/ Settled
        PROVE  /\ PerAdmin(submitted') /\ LoopsAsked'
               /\ \A b \in Admins : submitted'[b].plan \in [Stages -> Decision]
                                    /\ submitted'[b].confirmed \in BOOLEAN
    <3>1. PerAdmin(submitted') /\ submitted'[a] = new
          /\ \A b \in Admins \ {a} : submitted'[b] = submitted[b]
      BY <2>3 DEF AdminInv, AdminTyped, PerAdmin
    <3>2. QED
      BY <1>1, <2>3, <3>1 DEF AdminInv, AdminTyped, LoopsAsked, Open
  <2>4. CASE submitted' = [submitted EXCEPT ![a] = NothingSubmitted]
    <3>1. /\ NothingSubmitted.plan \in [Stages -> Decision]
          /\ NothingSubmitted.confirmed \in BOOLEAN
          /\ \A s \in Stages : NothingSubmitted.plan[s] # "REJECTED"
      BY DEF NothingSubmitted, AllApproved, Decision
    <3>2. QED
      BY <2>3, <2>4, <3>1
  <2>5. ASSUME NEW b \in BOOLEAN, submitted' = [submitted EXCEPT ![a] = started(b)],
               b \/ (review[a] # NoReview /\ ~AsksFirst(a))
        PROVE  /\ PerAdmin(submitted') /\ LoopsAsked'
               /\ \A x \in Admins : submitted'[x].plan \in [Stages -> Decision]
                                    /\ submitted'[x].confirmed \in BOOLEAN
    <3>1. /\ started(b).plan \in [Stages -> Decision] /\ started(b).confirmed \in BOOLEAN
          /\ started(b).confirmed = b /\ started(b).review = review[a]
          /\ started(b).plan = plan[a]
      BY DEF AdminInv, AdminTyped
    <3> HIDE DEF started
    <3>2. \A s \in Stages : Open(started(b).review, s) /\ started(b).plan[s] = "REJECTED" =>
              started(b).confirmed \/ Settled
      BY <2>5, <3>1 DEF AsksFirst, AdminInv, SnapshotsAgree, Recorded
    <3>3. QED
      BY <2>3, <2>5, <3>1, <3>2
  <2>6. QED
    BY <2>1, <2>2, <2>4, <2>5
<1>7. calls' \subseteq Call /\ CallsAsked'
  <2> DEFINE call(kind, s, d, confirmed) ==
          [admin |-> a, kind |-> kind, stage |-> s, decision |-> d, confirmed |-> confirmed,
           step |-> "read", escrow |-> "PENDING", awaited |-> TRUE]
  <2>1. CASE calls' = calls
    BY <1>1, <2>1 DEF AdminInv, AdminTyped, CallsAsked, CallAsked
  <2>2. ASSUME NEW new \in Call, calls' = calls \cup {new}, new.step = "read",
               new.decision = "REJECTED" => new.confirmed \/ Settled
        PROVE  calls' \subseteq Call /\ CallsAsked'
    BY <1>1, <2>2 DEF AdminInv, AdminTyped, CallsAsked, CallAsked
  <2>3. ASSUME Click(a, "deploy") \/ Click(a, "activate")
        PROVE  calls' \subseteq Call /\ CallsAsked'
    <3>1. PICK kind \in {"deploy", "activate"} : Click(a, kind)
      BY <2>3
    <3>2. calls' = calls \cup {call(kind, 0, "APPROVED", FALSE)}
      BY <3>1 DEF Click, NewCall
    <3>3. /\ call(kind, 0, "APPROVED", FALSE) \in Call
          /\ call(kind, 0, "APPROVED", FALSE).step = "read"
          /\ call(kind, 0, "APPROVED", FALSE).decision # "REJECTED"
      BY DEF Call, Decision, Escrows
    <3> HIDE DEF call
    <3>4. QED
      BY <2>2, <3>2, <3>3
  <2>4. ASSUME PostStage(a), calls' # calls
        PROVE  calls' \subseteq Call /\ CallsAsked'
    <3> DEFINE new == call("stage", loop[a], submitted[a].plan[loop[a]], submitted[a].confirmed)
    <3>1. /\ loop[a] \in Stages /\ Open(submitted[a].review, loop[a])
          /\ calls' = calls \cup {new}
      BY <2>4 DEF PostStage, NewCall
    <3>2. /\ submitted[a].plan[loop[a]] \in Decision /\ submitted[a].confirmed \in BOOLEAN
          /\ submitted[a].plan[loop[a]] = "REJECTED" => submitted[a].confirmed \/ Settled
      BY <3>1 DEF AdminInv, AdminTyped, LoopsAsked
    <3>3. new \in Call /\ new.step = "read" /\ (new.decision = "REJECTED" => new.confirmed \/ Settled)
      BY <3>1, <3>2 DEF Call, Escrows, Stages
    <3> HIDE DEF new
    <3>4. QED
      BY <2>2, <3>1, <3>3
  <2>5. QED
    BY <2>1, <2>3, <2>4 DEF LoadData, OpenReview, CloseReview, SubmitReview, Confirm, Dismiss,
       EndLoop, Decide
<1>8. QED
  BY <1>1, <1>4, <1>5, <1>6, <1>7 DEF AdminInv, AdminTyped, PerAdmin

(* What the service and its answers do leaves the modal alone. *)
LEMMA ServiceStep ==
    ASSUME AdminInv, NEW c \in calls,
           \/ ReadAsset(c) \/ AddLog(c) \/ WriteDecision(c) \/ Return0(c) \/ SaveReturn(c)
           \/ WriteDeployed(c) \/ WriteActive(c) \/ CallFails0(c) \/ Answered0(c) \/ TimesOut0(c)
    PROVE  AdminInv'
<1>1. UNCHANGED <<review, plan, submitted>>
  BY DEF ReadAsset, AddLog, WriteDecision, Return0, SaveReturn, WriteDeployed, WriteActive,
         CallFails0, Answered0, TimesOut0, modalVars
<1>2. c \in Call
  BY DEF AdminInv, AdminTyped
<1>3. asset' \in Row /\ (Settled => Settled')
  <2>1. CASE WriteActive(c)
    <3>1. /\ asset.escrow \in Escrows /\ asset'.escrow \in {asset.escrow, "RELEASED_TO_VAULT"}
          /\ asset' \in Row
      BY <2>1 DEF WriteActive, AdminInv, AdminTyped, Row, Escrows
    <3>2. QED
      BY <3>1 DEF Settled
  <2>2. CASE ~WriteActive(c)
    BY <2>2 DEF ReadAsset, AddLog, WriteDecision, Return0, SaveReturn, WriteDeployed,
         CallFails0, Answered0, TimesOut0, Settled, AdminInv, AdminTyped, Row, Escrows
  <2>3. QED
    BY <2>1, <2>2
<1>4. returned' # "unasked"
  <2>1. CASE Return0(c)
    BY <2>1 DEF Return0, AdminInv, CallsAsked, CallAsked, Settled
  <2>2. QED
    BY <2>1 DEF ReadAsset, AddLog, WriteDecision, SaveReturn, WriteDeployed, WriteActive,
       CallFails0, Answered0, TimesOut0, AdminInv
<1>5. PerAdmin(card') /\ \A b \in Admins : \/ card'[b] = card[b]
                                           \/ card'[b] = Listed0 /\ asset' = asset
  <2>1. card' = card \/ (card' = [card EXCEPT ![c.admin] = Listed0] /\ asset' = asset)
    BY DEF ReadAsset, AddLog, WriteDecision, Return0, SaveReturn, WriteDeployed, WriteActive,
       CallFails0, Answered0, TimesOut0
  <2>2. QED
    BY <2>1 DEF AdminInv, AdminTyped, PerAdmin
<1>6. Listed0 # NoAsset0 => Recorded(Listed0)
  BY DEF Listed0, Recorded, Settled
<1>7. calls' \subseteq Call /\ CallsAsked'
  <2> DEFINE at(step) == [c EXCEPT !.step = step]
             read(step, known) == [c EXCEPT !.step = step, !.escrow = known]
             left  == [c EXCEPT !.awaited = FALSE]
             steps == {"save", "answered", "failed"}
  <2>1. CallAsked(c)
    BY DEF AdminInv, CallsAsked
  <2>2. CASE calls' = calls \ {c}
    BY <1>3, <2>2 DEF AdminInv, AdminTyped, CallsAsked, CallAsked
  <2>3. ASSUME NEW new \in Call, calls' = (calls \ {c}) \cup {new}, CallAsked(new)'
        PROVE  calls' \subseteq Call /\ CallsAsked'
    BY <1>3, <2>3 DEF AdminInv, AdminTyped, CallsAsked, CallAsked
  <2>4. CASE ReadAsset(c)
    <3>1. PICK known \in Escrows : known = asset.escrow
      BY DEF AdminInv, AdminTyped, Row
    <3>2. \/ c.kind = "stage" /\ calls' = (calls \ {c}) \cup {read("log", known)}
          \/ c.kind = "activate" /\ calls' = (calls \ {c}) \cup {read("write", known)}
          \/ c.kind # "stage" /\ calls' = (calls \ {c}) \cup {at("write")}
          \/ calls' = (calls \ {c}) \cup {at("failed")}
      BY <1>2, <2>4, <3>1 DEF ReadAsset, To, Call
    <3>3. /\ read("log", known) \in Call /\ read("write", known) \in Call
          /\ at("write") \in Call /\ at("failed") \in Call
      BY <1>2, <3>1 DEF Call
    <3>4. c.kind = "stage" => CallAsked(read("log", known))'
      BY <1>2, <1>3, <2>1, <3>1 DEF CallAsked, Call, Settled
    <3>5. c.kind = "activate" => CallAsked(read("write", known))'
      BY <1>2, <1>3, <2>1, <3>1 DEF CallAsked, Call
    <3>6. (c.kind # "stage" => CallAsked(at("write"))') /\ CallAsked(at("failed"))'
      BY <1>2, <1>3, <2>1 DEF CallAsked, Call
    <3> HIDE DEF at, read
    <3>7. QED
      BY <2>3, <3>2, <3>3, <3>4, <3>5, <3>6
  <2>5. CASE AddLog(c)
    <3>1. at("write") \in Call /\ CallAsked(at("write"))'
      BY <1>2, <1>3, <2>1, <2>5 DEF CallAsked, Call, AddLog
    <3>2. calls' = (calls \ {c}) \cup {at("write")}
      BY <2>5 DEF AddLog, To
    <3> HIDE DEF at
    <3>3. QED
      BY <2>3, <3>1, <3>2
  <2>6. CASE WriteDecision(c) /\ c.decision = "REJECTED" /\ c.escrow = "PENDING"
    <3>1. c.confirmed
      BY <2>1, <2>6 DEF WriteDecision, CallAsked
    <3>2. at("return") \in Call /\ CallAsked(at("return"))'
      BY <1>2, <3>1 DEF CallAsked, Call
    <3>3. calls' = (calls \ {c}) \cup {at("return")}
      BY <2>6 DEF WriteDecision, To
    <3> HIDE DEF at
    <3>4. QED
      BY <2>3, <3>2, <3>3
  <2>7. CASE \E step \in steps : calls' = (calls \ {c}) \cup {at(step)}
    <3>1. PICK step \in steps : calls' = (calls \ {c}) \cup {at(step)}
      BY <2>7
    <3>2. at(step) \in Call /\ CallAsked(at(step))'
      BY <1>2, <1>3, <2>1 DEF CallAsked, Call
    <3> HIDE DEF at
    <3>3. QED
      BY <2>3, <3>1, <3>2
  <2>8. CASE calls' = (calls \ {c}) \cup {left}
    <3>1. left \in Call /\ CallAsked(left)'
      BY <1>2, <1>3, <2>1 DEF CallAsked, Call
    <3> HIDE DEF left
    <3>2. QED
      BY <2>3, <2>8, <3>1
  <2>9. \/ ReadAsset(c) \/ AddLog(c)
        \/ WriteDecision(c) /\ c.decision = "REJECTED" /\ c.escrow = "PENDING"
        \/ \E step \in steps : calls' = (calls \ {c}) \cup {at(step)}
        \/ calls' = (calls \ {c}) \cup {left}
        \/ calls' = calls \ {c}
    BY DEF WriteDecision, Return0, SaveReturn, WriteDeployed, WriteActive, CallFails0, Answered0,
           TimesOut0, To
  <2>10. QED
    BY <2>2, <2>4, <2>5, <2>6, <2>7, <2>8, <2>9
<1>8. SnapshotsAgree'
  BY <1>1, <1>3, <1>5, <1>6 DEF AdminInv, SnapshotsAgree, Recorded, Settled
<1>9. LoopsAsked'
  BY <1>1, <1>3 DEF AdminInv, LoopsAsked, Open
<1>10. QED
  BY <1>1, <1>3, <1>4, <1>5, <1>7, <1>8, <1>9 DEF AdminInv, AdminTyped, PerAdmin

(* A deposit is never returned by a review that did not ask first, for any  *)
(* administrators and any number of stages and calls (admin/page.tsx:105).  *)
THEOREM ReturnsAskFirst == AdminSpec => []ReturnsAreConfirmed
<1>1. AdminInv /\ [AdminNext]_adminVars => AdminInv'
  <2> SUFFICES ASSUME AdminInv, [AdminNext]_adminVars PROVE AdminInv'
    OBVIOUS
  <2>1. CASE AdminNext
    BY <2>1, PageStep, ServiceStep DEF AdminNext
  <2>2. CASE UNCHANGED adminVars
    BY <2>2 DEF adminVars, AdminInv, AdminTyped, SnapshotsAgree, LoopsAsked, CallsAsked, CallAsked,
       Recorded, Settled, Open, PerAdmin
  <2>3. QED
    BY <2>1, <2>2
<1>2. AdminInv => ReturnsAreConfirmed
  BY DEF AdminInv, ReturnsAreConfirmed
<1>3. QED
  BY AdminInitially, <1>1, <1>2, PTL DEF AdminSpec

-----------------------------------------------------------------------------
(* The issuer's dashboard *)

(* A sign request waits in the wallet that is connected. *)
AsksKnown == \A s \in signing : s.by = wallet

DeskInv == AsksKnown /\ SignedByOwner

(* A wallet's requests go with its socket; the opt-in and the answers name *)
(* the wallet as it was when they were made.                               *)
LEMMA DeskStep ==
    ASSUME DeskInv, [DeskNext]_deskVars
    PROVE  DeskInv'
<1> USE DEF DeskInv
<1>1. AsksKnown'
  <2>1. CASE UNCHANGED <<signing, wallet>>
    BY <2>1 DEF AsksKnown
  <2>2. ASSUME NEW account, SetWallet(account) PROVE AsksKnown'
    BY <2>2 DEF AsksKnown, SetWallet, Cleanup
  <2>3. ASSUME NEW n \in SignRequests, SignRequested(n) PROVE AsksKnown'
    BY <2>3 DEF AsksKnown, SignRequested
  <2>4. ASSUME NEW r \in signing, Signed(r) PROVE AsksKnown'
    BY <2>4 DEF AsksKnown, Signed
  <2>5. QED
    BY <2>1, <2>2, <2>3, <2>4 DEF DeskNext, deskVars, hookVars, TypeWallet, HoldingRead,
       HandleOptIn, OptInEnds
<1>2. SignedByOwner'
  <2>1. CASE UNCHANGED <<optIn, replies>>
    BY <2>1 DEF SignedByOwner
  <2>2. CASE HandleOptIn
    BY <2>2 DEF SignedByOwner, HandleOptIn, EffectiveWallet, hookVars
  <2>3. CASE OptInEnds
    BY <2>3 DEF SignedByOwner, OptInEnds, NoOptIn, hookVars
  <2>4. ASSUME NEW r \in signing, Signed(r) PROVE SignedByOwner'
    BY <2>4 DEF SignedByOwner, Signed, AsksKnown, optInVars
  <2>5. QED
    BY <2>1, <2>2, <2>3, <2>4 DEF DeskNext, deskVars, optInVars, hookVars, SetWallet,
       TypeWallet, HoldingRead, SignRequested
<1>3. QED
  BY <1>1, <1>2

(* The opt-in and every answer are signed by their own account, for any     *)
(* number of wallets, requests and sockets (use-settlement.ts:49).          *)
THEOREM OwnersSign == DeskSpec => []SignedByOwner
<1>1. DeskInit => DeskInv
  BY DEF DeskInit, DeskInv, AsksKnown, SignedByOwner, NoOptIn
<1>2. DeskInv /\ [DeskNext]_deskVars => DeskInv'
  BY DeskStep
<1>3. DeskInv => SignedByOwner
  BY DEF DeskInv
<1>4. QED
  BY <1>1, <1>2, <1>3, PTL DEF DeskSpec

-----------------------------------------------------------------------------
(* Documents *)

UploadStep == {"put", "row", "done", "failed"}

Deployment == [step: {"idle", "hash", "mint", "record"},
               promised: SUBSET Nat, hashes: SUBSET Nat]

DocumentsTyped ==
    /\ uploads \in Seq(UploadStep)
    /\ uploading \in Nat
    /\ bucket \subseteq Nat
    /\ documents \subseteq Nat /\ (~devMode => documents \subseteq bucket)
    /\ deployment \in [Deployers -> Deployment]

(* A row comes after its file and an answer after its row, so whatever the  *)
(* issuer knows of is a document already, and no document ever goes.        *)
KnownAreRows ==
    /\ \A n \in DOMAIN uploads :
          /\ uploads[n] = "row" /\ ~devMode => n \in bucket
          /\ uploads[n] = "done" => n \in documents
    /\ acknowledged \subseteq documents
    /\ listed \subseteq documents

(* What each deployment took over: the promise when it began, the hashes    *)
(* when it read them.                                                       *)
DeploymentKnows ==
    \A d \in Deployers :
        /\ deployment[d].promised \subseteq documents
        /\ deployment[d].step = "mint" =>
              /\ deployment[d].hashes \subseteq documents
              /\ ~devMode => deployment[d].hashes \subseteq bucket
              /\ deployment[d].promised \subseteq deployment[d].hashes

DocumentsInv == DocumentsTyped /\ KnownAreRows /\ DeploymentKnows /\ HashIsVerifiable

(* What a step may do to what a token relies on: files and rows stay, and   *)
(* so does the configuration.                                               *)
LEMMA NothingIsLost ==
    ASSUME [DocumentsNext]_documentVars
    PROVE  bucket \subseteq bucket' /\ documents \subseteq documents' /\ devMode' = devMode
BY DEF DocumentsNext, documentVars, HandleUpload, PutObject, CreateDocument, UploadFails,
   UploadEnds, ListByAsset, DeployAsaToMainnet, GetDocumentHashes, CreateRwaToken,
   RecordToken, DeployFails

(* An upload moves on: a step that was reached before stays true. *)
LEMMA UploadMoves ==
    ASSUME DocumentsTyped, KnownAreRows, NEW n \in DOMAIN uploads, NEW step \in UploadStep,
           uploads' = [uploads EXCEPT ![n] = step],
           bucket \subseteq bucket', documents \subseteq documents', devMode' = devMode,
           step = "row" /\ ~devMode => n \in bucket', step = "done" => n \in documents'
    PROVE  /\ uploads' \in Seq(UploadStep)
           /\ \A m \in DOMAIN uploads' :
                 /\ uploads'[m] = "row" /\ ~devMode' => m \in bucket'
                 /\ uploads'[m] = "done" => m \in documents'
<1> USE DEF DocumentsTyped, KnownAreRows
<1>1. uploads \in [1..Len(uploads) -> UploadStep] /\ n \in 1..Len(uploads)
  BY LenProperties
<1>2. uploads' \in Seq(UploadStep)
  BY <1>1, ExceptSeq
<1>3. DOMAIN uploads' = DOMAIN uploads
  BY <1>1
<1>4. ASSUME NEW m \in DOMAIN uploads
      PROVE  /\ uploads'[m] = "row" /\ ~devMode' => m \in bucket'
             /\ uploads'[m] = "done" => m \in documents'
  BY <1>1
<1>5. QED
  BY <1>2, <1>3, <1>4

LEMMA DocumentsStep ==
    ASSUME DocumentsInv, [DocumentsNext]_documentVars
    PROVE  DocumentsInv'
<1> USE DEF DocumentsInv
<1>0. bucket \subseteq bucket' /\ documents \subseteq documents' /\ devMode' = devMode
  BY NothingIsLost
<1>1. DocumentsTyped' /\ KnownAreRows'
  <2>1. CASE UNCHANGED <<uploads, uploading, bucket, documents, acknowledged, listed, deployment>>
    BY <1>0, <2>1 DEF DocumentsTyped, KnownAreRows
  <2>2. CASE HandleUpload
    <3>1. /\ uploads' = Append(uploads, FirstStep)
          /\ FirstStep \in UploadStep /\ (FirstStep = "row" => devMode) /\ FirstStep # "done"
          /\ UNCHANGED <<bucket, documents, acknowledged, listed, deployment>>
          /\ uploading' = Len(uploads) + 1
      BY <2>2 DEF HandleUpload, FirstStep, UploadStep
    <3>2. /\ uploads' \in Seq(UploadStep)
          /\ Len(uploads) \in Nat
          /\ \A n \in DOMAIN uploads' :
                \/ n \in DOMAIN uploads /\ uploads'[n] = uploads[n]
                \/ uploads'[n] = FirstStep
      BY <3>1, AppendProperties DEF DocumentsTyped
    <3>3. QED
      BY <1>0, <3>1, <3>2 DEF DocumentsTyped, KnownAreRows
  <2>3. ASSUME NEW n \in Uploads, PutObject(n)
        PROVE  DocumentsTyped' /\ KnownAreRows'
    <3>1. n \in Nat
      BY LenProperties DEF Uploads, DocumentsTyped
    <3>2. QED
      BY <1>0, <2>3, <3>1, UploadMoves DEF PutObject, Uploads, UploadStep, DocumentsTyped, KnownAreRows
  <2>4. ASSUME NEW n \in Uploads, CreateDocument(n)
        PROVE  DocumentsTyped' /\ KnownAreRows'
    BY <1>0, <2>4, UploadMoves DEF CreateDocument, Uploads, UploadStep, DocumentsTyped, KnownAreRows
  <2>5. ASSUME NEW n \in Uploads, UploadFails(n)
        PROVE  DocumentsTyped' /\ KnownAreRows'
    BY <1>0, <2>5, UploadMoves DEF UploadFails, Uploads, UploadStep, DocumentsTyped, KnownAreRows
  <2>6. ASSUME NEW n \in Uploads, UploadEnds(n)
        PROVE  DocumentsTyped' /\ KnownAreRows'
    <3>1. uploading' = 0 /\ UNCHANGED <<uploads, bucket, documents, listed, deployment>>
      BY <2>6 DEF UploadEnds
    <3>2. acknowledged' \subseteq documents
      BY <2>6 DEF UploadEnds, Uploads, KnownAreRows
    <3>3. QED
      BY <1>0, <3>1, <3>2 DEF DocumentsTyped, KnownAreRows
  <2>7. CASE ListByAsset
    BY <1>0, <2>7 DEF ListByAsset, DocumentsTyped, KnownAreRows
  <2>8. ASSUME NEW d \in Deployers,
               \/ DeployAsaToMainnet(d) \/ GetDocumentHashes(d) \/ CreateRwaToken(d)
               \/ RecordToken(d) \/ DeployFails(d)
        PROVE  DocumentsTyped' /\ KnownAreRows'
    <3>1. UNCHANGED <<uploads, uploading, bucket, documents, acknowledged, listed>>
      BY <2>8 DEF DeployAsaToMainnet, GetDocumentHashes, CreateRwaToken, RecordToken, DeployFails
    <3>2. deployment' \in [Deployers -> Deployment]
      BY <2>8 DEF DeployAsaToMainnet, GetDocumentHashes, CreateRwaToken, RecordToken,
         DeployFails, DocumentsTyped, KnownAreRows, Deployment, NotDeploying
    <3>3. QED
      BY <1>0, <3>1, <3>2 DEF DocumentsTyped, KnownAreRows
  <2>9. QED
    BY <2>1, <2>2, <2>3, <2>4, <2>5, <2>6, <2>7, <2>8 DEF DocumentsNext, documentVars
<1>2. DeploymentKnows'
  <2>1. CASE deployment' = deployment
    BY <1>0, <2>1 DEF DeploymentKnows
  <2>2. ASSUME NEW d \in Deployers, DeployAsaToMainnet(d) PROVE DeploymentKnows'
    BY <1>0, <2>2 DEF DeploymentKnows, DeployAsaToMainnet, KnownAreRows, DocumentsTyped, Deployment
  <2>3. ASSUME NEW d \in Deployers, GetDocumentHashes(d) PROVE DeploymentKnows'
    BY <1>0, <2>3 DEF DeploymentKnows, GetDocumentHashes, DocumentsTyped, Deployment
  <2>4. ASSUME NEW d \in Deployers, CreateRwaToken(d) PROVE DeploymentKnows'
    BY <1>0, <2>4 DEF DeploymentKnows, CreateRwaToken, DocumentsTyped, Deployment
  <2>5. ASSUME NEW d \in Deployers, RecordToken(d) \/ DeployFails(d) PROVE DeploymentKnows'
    BY <1>0, <2>5 DEF DeploymentKnows, RecordToken, DeployFails, NotDeploying, DocumentsTyped, Deployment
  <2>6. QED
    BY <2>1, <2>2, <2>3, <2>4, <2>5 DEF DocumentsNext, documentVars, HandleUpload, PutObject,
       CreateDocument, UploadFails, UploadEnds, ListByAsset
<1>3. HashIsVerifiable'
  <2>1. CASE minted' = minted
    BY <1>0, <2>1 DEF HashIsVerifiable
  <2>2. ASSUME NEW d \in Deployers, CreateRwaToken(d) PROVE HashIsVerifiable'
    BY <1>0, <2>2 DEF HashIsVerifiable, CreateRwaToken, DeploymentKnows
  <2>3. QED
    BY <2>1, <2>2 DEF DocumentsNext, documentVars, HandleUpload, PutObject, CreateDocument,
       UploadFails, UploadEnds, ListByAsset, DeployAsaToMainnet, GetDocumentHashes,
       RecordToken, DeployFails
<1>4. QED
  BY <1>1, <1>2, <1>3

(* Every token's hash can be recomputed from the rows, and from the files   *)
(* unless the service is configured to keep none, and covers what the       *)
(* issuer was told of, for any number of uploads and concurrent deployments *)
(* (asset.service.ts:124, document.service.ts:39).                          *)
THEOREM TokensAreVerifiable == DocumentsSpec => []HashIsVerifiable
<1>1. DocumentsInit => DocumentsInv
  BY EmptySeq DEF DocumentsInit, DocumentsInv, DocumentsTyped, KnownAreRows, DeploymentKnows,
     HashIsVerifiable, NotDeploying, Deployment
<1>2. DocumentsInv /\ [DocumentsNext]_documentVars => DocumentsInv'
  BY DocumentsStep
<1>3. DocumentsInv => HashIsVerifiable
  BY DEF DocumentsInv
<1>4. QED
  BY <1>1, <1>2, <1>3, PTL DEF DocumentsSpec

-----------------------------------------------------------------------------
(* The price feed *)

Snapshot == [price: Int, ts: Int, read: Int]
FeedRequest ==
    [step: {"idle", "both", "latest", "dayOld", "answer", "persist", "null"},
     asked: Int, latest: Snapshot, dayOld: Snapshot]

(* A price is read before it is stamped, and both are past. *)
IsPast(r) == r \in Snapshot /\ 0 <= r.read /\ r.read <= r.ts /\ r.ts <= tick

FeedTyped ==
    /\ spot \in Int /\ tick \in Nat
    /\ \A r \in snapshots : IsPast(r)
    /\ \A r \in cronReads : r.price \in Int /\ r.read \in 0..tick
    /\ request \in FeedRequest /\ request.asked <= tick

(* The row of a day before and the newest row, in either order: while the   *)
(* former is not read, no row of a day before is newer than the latter.     *)
Spans(answer) ==
    answer.dayOld # NoSnapshot =>
        /\ answer.dayOld.read <= answer.asked - Day
        /\ answer.dayOld.ts <= answer.latest.ts

RequestAgrees ==
    /\ request.step # "idle" /\ request.dayOld # NoSnapshot =>
           request.dayOld \in DayBefore(request.asked)
    /\ request.step \in {"idle", "both", "dayOld", "persist", "null"} =>
           request.dayOld = NoSnapshot
    /\ request.step = "dayOld" =>
           \A r \in DayBefore(request.asked) : r.ts <= request.latest.ts
    /\ request.step = "answer" => Spans(request)
    /\ request.step = "persist" => IsPast(request.latest)

FeedInv == Day \in Nat \ {0} /\ FeedTyped /\ RequestAgrees /\ Spans(info)

LEMMA NothingSnapped == NoSnapshot \in Snapshot /\ NoSnapshot.ts = -1
BY DEF NoSnapshot, Snapshot

(* The clock goes on and rows are stored: none of them is a day old.        *)
LEMMA RowsArrive ==
    ASSUME FeedInv, UNCHANGED <<request, info>>, spot' \in Int,
           tick' \in Nat, tick <= tick',
           \A r \in cronReads' : r.price \in Int /\ r.read \in 0..tick',
           snapshots \subseteq snapshots',
           \A r \in snapshots' \ snapshots : IsPast(r)' /\ r.ts = tick
    PROVE  FeedInv'
<1>1. \A r \in Snapshot : IsPast(r) => IsPast(r)'
  BY DEF IsPast, FeedInv, FeedTyped, Snapshot
<1>2. request.asked \in Int /\ request.asked <= tick /\ Day \in Nat \ {0} /\ request' = request
  BY DEF FeedInv, FeedTyped, FeedRequest
<1>3. DayBefore(request.asked)' = DayBefore(request.asked)
  <2>1. \A r \in snapshots' \ snapshots : ~(r.ts <= request.asked - Day)
    BY <1>2 DEF FeedInv, FeedTyped
  <2>2. QED
    BY <1>2, <2>1 DEF DayBefore
<1>4. FeedTyped'
  BY <1>1, <1>2 DEF FeedInv, FeedTyped, IsPast
<1>5. RequestAgrees'
  <2>1. request.step = "persist" => IsPast(request.latest)'
    BY <1>1 DEF FeedInv, RequestAgrees, IsPast
  <2>2. Spans(request)' <=> Spans(request)
    BY <1>2 DEF Spans
  <2>3. QED
    BY <1>2, <1>3, <2>1, <2>2 DEF FeedInv, RequestAgrees
<1>6. QED
  BY <1>4, <1>5 DEF FeedInv, Spans

(* Only the request moves. *)
LEMMA RequestMoves ==
    ASSUME FeedInv, UNCHANGED <<spot, tick, snapshots, cronReads>>, Spans(info)',
           request' \in FeedRequest, request'.asked <= tick, RequestAgrees'
    PROVE  FeedInv'
BY DEF FeedInv, FeedTyped, IsPast

LEMMA FeedStep ==
    ASSUME FeedInv, [FeedNext]_feedVars
    PROVE  FeedInv'
<1> USE DEF FeedInv
<1>1. CASE PoolTrades
  BY <1>1, RowsArrive DEF PoolTrades, FeedTyped
<1>2. CASE Passes
  BY <1>2, RowsArrive DEF Passes, FeedTyped
<1>3. CASE SnapshotPrices
  BY <1>3, RowsArrive DEF SnapshotPrices, FeedTyped
<1>4. ASSUME NEW c \in cronReads, StoreSnapshot(c) PROVE FeedInv'
  <2> DEFINE stored == [price |-> c.price, ts |-> tick, read |-> c.read]
  <2>1. IsPast(stored)' /\ stored' = stored /\ stored.ts = tick /\ tick' = tick
    BY <1>4 DEF FeedTyped, IsPast, Snapshot, StoreSnapshot
  <2>2. snapshots' \in {snapshots, snapshots \cup {stored}}
    BY <1>4 DEF StoreSnapshot
  <2> HIDE DEF stored
  <2>3. /\ snapshots \subseteq snapshots'
        /\ \A r \in snapshots' \ snapshots : IsPast(r)' /\ r.ts = tick
    BY <2>1, <2>2 DEF IsPast
  <2>4. /\ UNCHANGED <<request, info>> /\ spot' \in Int /\ tick' \in Nat /\ tick <= tick'
        /\ \A r \in cronReads' : r.price \in Int /\ r.read \in 0..tick'
    BY <1>4 DEF StoreSnapshot, FeedTyped
  <2>5. QED
    BY <2>3, <2>4, RowsArrive
<1>5. CASE GetLatestPrice
  <2>1. /\ request'.asked = tick /\ request'.step = "both" /\ request'.dayOld = NoSnapshot
        /\ request' \in FeedRequest
    <3>1. request' = [step |-> "both", asked |-> tick, latest |-> NoSnapshot,
                      dayOld |-> NoSnapshot]
      BY <1>5 DEF GetLatestPrice, NoRequest
    <3>2. QED
      BY <3>1, NothingSnapped DEF FeedRequest, FeedTyped
  <2>2. QED
    BY <1>5, <2>1, RequestMoves DEF GetLatestPrice, FeedTyped, RequestAgrees, Spans
<1>6. CASE ReadLatest
  <2>1. PICK r \in Newest(snapshots) :
            request' = [request EXCEPT !.step = IF @ = "both" THEN "dayOld" ELSE "answer",
                                       !.latest = r]
    BY <1>6 DEF ReadLatest
  <2>2. r \in Snapshot /\ \A x \in snapshots : x.ts <= r.ts
    BY NothingSnapped DEF Newest, FeedTyped, IsPast
  <2>3. /\ request' \in FeedRequest /\ request'.asked = request.asked
        /\ request'.latest = r /\ request'.dayOld = request.dayOld
        /\ request'.step = IF request.step = "both" THEN "dayOld" ELSE "answer"
    BY <2>1, <2>2 DEF FeedTyped, FeedRequest
  <2>4. request.dayOld # NoSnapshot => request.dayOld \in DayBefore(request.asked)
    BY <1>6 DEF ReadLatest, RequestAgrees
  <2>5. Spans(request)'
    BY <2>2, <2>3, <2>4 DEF Spans, DayBefore, FeedTyped, IsPast, Snapshot, FeedRequest
  <2>6. RequestAgrees'
    BY <1>6, <2>2, <2>3, <2>4, <2>5 DEF ReadLatest, RequestAgrees, DayBefore
  <2>7. QED
    BY <1>6, <2>3, <2>6, RequestMoves DEF ReadLatest, FeedTyped, Spans
<1>7. CASE ReadDayOld
  <2>1. PICK r \in Newest(DayBefore(request.asked)) :
            request' = [request EXCEPT !.step = IF @ = "both" THEN "latest" ELSE "answer",
                                       !.dayOld = r]
    BY <1>7 DEF ReadDayOld
  <2>2. r \in Snapshot /\ (r # NoSnapshot => r \in DayBefore(request.asked))
    BY NothingSnapped DEF Newest, FeedTyped, IsPast, DayBefore
  <2>3. /\ request' \in FeedRequest /\ request'.asked = request.asked
        /\ request'.latest = request.latest /\ request'.dayOld = r
        /\ request'.step = IF request.step = "both" THEN "latest" ELSE "answer"
    BY <2>1, <2>2 DEF FeedTyped, FeedRequest
  <2>4. request.step # "both" => Spans(request)'
    BY <1>7, <2>2, <2>3
       DEF ReadDayOld, RequestAgrees, Spans, DayBefore, FeedTyped, IsPast, Snapshot, FeedRequest
  <2>5. RequestAgrees'
    BY <1>7, <2>2, <2>3, <2>4 DEF ReadDayOld, RequestAgrees, DayBefore
  <2>6. QED
    BY <1>7, <2>3, <2>5, RequestMoves DEF ReadDayOld, FeedTyped, Spans
(* A newest row is older than none, so a request that found none at all     *)
(* found none of a day before either.                                       *)
<1>8. request.step = "answer" /\ request.latest = NoSnapshot => request.dayOld = NoSnapshot
  BY NothingSnapped DEF RequestAgrees, Spans, DayBefore, FeedTyped, IsPast, Snapshot
<1>9. CASE ReadReserves
  <2> DEFINE stored == [price |-> spot, ts |-> tick, read |-> tick]
  <2>1. stored \in Snapshot /\ IsPast(stored)
    BY DEF FeedTyped, Snapshot, IsPast
  <2>2. \/ request' = [request EXCEPT !.step = "null"]
        \/ request' = [request EXCEPT !.step = "persist", !.latest = stored]
    BY <1>9 DEF ReadReserves, Stamp
  <2> HIDE DEF stored
  <2>3. /\ request' \in FeedRequest /\ request'.asked = request.asked
        /\ request'.dayOld = request.dayOld
        /\ \/ request'.step = "null"
           \/ request'.step = "persist" /\ request'.latest = stored
    BY <2>1, <2>2 DEF FeedTyped, FeedRequest
  <2>4. RequestAgrees'
    BY <1>8, <1>9, <2>1, <2>3 DEF ReadReserves, RequestAgrees, IsPast
  <2>5. QED
    BY <1>9, <2>3, <2>4, RequestMoves DEF ReadReserves, FeedTyped, Spans
<1>10. CASE Persist
  <2>1. /\ request' \in FeedRequest /\ request'.asked = request.asked
        /\ request'.dayOld = NoSnapshot /\ request'.step = "answer"
    BY <1>10, NothingSnapped DEF Persist, FeedTyped, FeedRequest
  <2>2. IsPast(request.latest) /\ tick' = tick
    BY <1>10 DEF Persist, RequestAgrees
  <2>3. QED
    BY <1>10, <2>1, <2>2 DEF Persist, FeedTyped, RequestAgrees, Spans, IsPast
<1>11. CASE FallbackFails
  <2>1. /\ request' \in FeedRequest /\ request'.asked = request.asked
        /\ request'.dayOld = request.dayOld /\ request'.step = "null"
    BY <1>11, NothingSnapped DEF FallbackFails, FeedTyped, FeedRequest
  <2>2. request.dayOld = NoSnapshot
    BY <1>8, <1>11 DEF FallbackFails, RequestAgrees
  <2>3. QED
    BY <1>11, <2>1, <2>2, RequestMoves DEF FallbackFails, FeedTyped, RequestAgrees, Spans
<1>12. CASE ShowInfo
  <2>1. /\ request' \in FeedRequest /\ request'.asked = 0
        /\ request'.dayOld = NoSnapshot /\ request'.step = "idle"
    BY <1>12, NothingSnapped DEF ShowInfo, NoRequest, FeedRequest
  <2>2. Spans(request)
    BY <1>12 DEF ShowInfo, RequestAgrees, Spans
  <2>3. Spans(info)'
    BY <1>12, <2>2 DEF ShowInfo, Spans
  <2>4. RequestAgrees'
    BY <2>1 DEF RequestAgrees
  <2>5. QED
    BY <1>12, <2>1, <2>3, <2>4, RequestMoves DEF ShowInfo, FeedTyped
<1>13. CASE UNCHANGED feedVars
  BY <1>13, RowsArrive DEF feedVars, FeedTyped
<1>14. QED
  BY <1>1, <1>2, <1>3, <1>4, <1>5, <1>6, <1>7, <1>9, <1>10, <1>11, <1>12, <1>13 DEF FeedNext

(* The change of 24 hours compares with a price a day old, whatever the     *)
(* length of the day and the number of rows (pricefeed.service.ts:114-128). *)
THEOREM ChangesSpanADay == FeedSpec => []ChangeSpansADay
<1>1. FeedInit => FeedInv
  <2> SUFFICES ASSUME FeedInit PROVE FeedInv
    OBVIOUS
  <2>1. request \in FeedRequest /\ request.asked = 0 /\ request.step = "idle"
        /\ request.dayOld = NoSnapshot /\ info = request
    BY NothingSnapped DEF FeedInit, NoRequest, FeedRequest
  <2>2. QED
    BY <2>1, FeedAssumption DEF FeedInit, FeedInv, FeedTyped, RequestAgrees, Spans
<1>2. FeedInv /\ [FeedNext]_feedVars => FeedInv'
  BY FeedStep
<1>3. FeedInv => ChangeSpansADay
  BY DEF FeedInv, Spans, ChangeSpansADay
<1>4. QED
  BY <1>1, <1>2, <1>3, PTL DEF FeedSpec

-----------------------------------------------------------------------------
(* The analytics service *)

Event == [price: Nat, at: Nat]
Bar == [bucket: Nat, open: Nat, high: Nat, low: Nat, close: Nat, volume: Nat]

AnalyticsTyped ==
    /\ minute \in Nat
    /\ published \in [Topics -> Seq(Event)]
    /\ offset \in [Topics -> Nat]
    /\ bars \in Seq(Bar)

PricesAt(slot) == {e.price : e \in {f \in Events : f.at = slot}}
PricesOf(b) == {b.open, b.high, b.low, b.close}
BarsOfTheirTime == \A b \in ToSet(bars) : PricesOf(b) \subseteq PricesAt(b.bucket)

(* The prices of a summary are of events that were recent then. *)
IsSeen(p, computed) == \E e \in Events : e.price = p /\ e.at >= computed - MinutesOfDay
SummarySeen(s) == s # NoSummary => IsSeen(s.high, s.computed) /\ IsSeen(s.low, s.computed)

AnalyticsInv == AnalyticsTyped /\ BarsOfTheirTime /\ SummarySeen(summary)

(* A finite family of numbers has a greatest member. *)
LEMMA GreatestExists ==
    ASSUME NEW n \in Nat, NEW J \in SUBSET (1..n), J # {}, NEW f, \A i \in J : f[i] \in Int
    PROVE  \E j \in J : \A i \in J : f[i] <= f[j]
<1> DEFINE Bad == {T \in SUBSET J : T # {} /\ ~\E j \in T : \A i \in T : f[i] <= f[j]}
<1>1. SUFFICES ASSUME Bad # {} PROVE FALSE
  OBVIOUS
<1>2. IsFiniteSet(J)
  <2>1. IsFiniteSet(1..n)
    BY FS_Interval
  <2>2. QED
    BY <2>1, FS_Subset
<1>3. PICK T \in Bad : \A U \in SUBSET T : U # T => U \notin Bad
  <2> HIDE DEF Bad
  <2>1. Bad \in SUBSET SUBSET J
    BY DEF Bad
  <2>2. QED
    BY <1>1, <1>2, <2>1, SmallestSubset
<1>4. PICK x \in T : f[x] \in Int
  BY <1>3
<1>5. CASE T \ {x} = {}
  BY <1>3, <1>4, <1>5
<1>6. CASE T \ {x} # {}
  <2>1. PICK m \in T \ {x} : \A i \in T \ {x} : f[i] <= f[m]
    <3>1. T \ {x} \in SUBSET T /\ T \ {x} # T /\ T \ {x} \in SUBSET J
      BY <1>3, <1>4
    <3>2. T \ {x} \notin Bad
      BY <1>3, <3>1
    <3>3. QED
      BY <1>6, <3>1, <3>2
  <2>2. f[m] \in Int /\ \A i \in T : f[i] \in Int
    BY <1>3, <2>1
  <2>3. CASE f[x] <= f[m]
    <3>1. \A i \in T : f[i] <= f[m]
      BY <2>1, <2>3
    <3>2. QED
      BY <1>3, <2>1, <3>1
  <2>4. CASE ~(f[x] <= f[m])
    <3>1. \A i \in T : f[i] <= f[x]
      BY <1>4, <2>1, <2>2, <2>4
    <3>2. QED
      BY <1>3, <1>4, <3>1
  <2>5. QED
    BY <2>3, <2>4
<1>7. QED
  BY <1>5, <1>6

(* The summary's prices are prices of bars that are not older than a day.   *)
LEMMA SummaryIsOfBars ==
    ASSUME NEW series \in Seq(Bar), minute \in Nat
    PROVE  \/ RecomputeSummary(series) = summary
           \/ /\ RecomputeSummary(series).computed = minute
              /\ \E b, c \in ToSet(series) :
                     /\ b.bucket >= minute - MinutesOfDay /\ c.bucket >= minute - MinutesOfDay
                     /\ RecomputeSummary(series).high = b.high
                     /\ RecomputeSummary(series).low = c.low
<1> DEFINE n == Len(series)
           J == {i \in 1..n : series[i].bucket >= minute - MinutesOfDay}
           last24 == {b \in ToSet(series) : b.bucket >= minute - MinutesOfDay}
           tops == [i \in 1..n |-> series[i].high]
           bottoms == [i \in 1..n |-> 0 - series[i].low]
<1>1. SUFFICES ASSUME last24 # {}
      PROVE  /\ RecomputeSummary(series).computed = minute
             /\ \E b, c \in last24 : /\ RecomputeSummary(series).high = b.high
                                     /\ RecomputeSummary(series).low = c.low
  BY DEF RecomputeSummary
<1>2. /\ n \in Nat /\ DOMAIN series = 1..n
      /\ \A i \in 1..n : series[i].high \in Nat /\ series[i].low \in Nat
  <2>1. n \in Nat /\ DOMAIN series = 1..n /\ \A i \in 1..n : series[i] \in Bar
    OBVIOUS
  <2> HIDE DEF n
  <2>2. QED
    BY <2>1 DEF Bar
<1>3. last24 = {series[i] : i \in J}
  BY <1>2 DEF ToSet
<1>4. J \in SUBSET (1..n) /\ J # {}
  BY <1>1, <1>3
<1>5. \E j \in J : \A i \in J : series[i].high <= series[j].high
  <2>1. \A i \in J : tops[i] \in Int /\ tops[i] = series[i].high
    BY <1>2
  <2> HIDE DEF n, J, tops
  <2>2. \E j \in J : \A i \in J : tops[i] <= tops[j]
    BY <1>2, <1>4, <2>1, GreatestExists
  <2>3. QED
    BY <2>1, <2>2
<1>6. \E j \in J : \A i \in J : series[j].low <= series[i].low
  <2>1. \A i \in J : bottoms[i] \in Int /\ bottoms[i] = 0 - series[i].low /\ series[i].low \in Nat
    BY <1>2
  <2> HIDE DEF n, J, bottoms
  <2>2. PICK j \in J : \A i \in J : bottoms[i] <= bottoms[j]
    BY <1>2, <1>4, <2>1, GreatestExists
  <2>3. ASSUME NEW i \in J PROVE series[j].low <= series[i].low
    <3>1. bottoms[i] <= bottoms[j]
      BY <2>2
    <3>2. /\ bottoms[i] = 0 - series[i].low /\ bottoms[j] = 0 - series[j].low
          /\ series[i].low \in Nat /\ series[j].low \in Nat
      BY <2>1
    <3>3. QED
      BY <3>1, <3>2
  <2>4. QED
    BY <2>3
<1> DEFINE high == CHOOSE p \in {b.high : b \in last24} : \A b \in last24 : b.high <= p
           low  == CHOOSE p \in {b.low : b \in last24} : \A b \in last24 : p <= b.low
<1>7. RecomputeSummary(series) = [high |-> high, low |-> low, computed |-> minute]
  BY <1>1 DEF RecomputeSummary
<1> HIDE DEF J, n
<1>8. high \in {b.high : b \in last24}
  <2>1. \E p \in {b.high : b \in last24} : \A b \in last24 : b.high <= p
    BY <1>3, <1>5
  <2> HIDE DEF last24
  <2>2. QED
    BY <2>1
<1>9. low \in {b.low : b \in last24}
  <2>1. \E p \in {b.low : b \in last24} : \A b \in last24 : p <= b.low
    BY <1>3, <1>6
  <2> HIDE DEF last24
  <2>2. QED
    BY <2>1
<1> HIDE DEF high, low, last24
<1>10. QED
  BY <1>7, <1>8, <1>9

(* A bar of this or of an earlier event *)
LEMMA UpsertKeepsTime ==
    ASSUME AnalyticsInv, NEW e \in Events, e \in Event
    PROVE  LET series == UpsertFromTrade(bars, e)
           IN  series \in Seq(Bar)
               /\ \A b \in ToSet(series) : PricesOf(b) \subseteq PricesAt(b.bucket)
<1>0. bars \in Seq(Bar) /\ MaxBars \in Nat
  BY AnalyticsAssumption DEF AnalyticsInv, AnalyticsTyped
<1>1. e.price \in PricesAt(e.at)
  BY DEF PricesAt
<1>2. CASE SameBucket(bars, e)
  <2>1. PICK last : last = Head(bars)
    OBVIOUS
  <2>2. /\ last \in Bar /\ last \in ToSet(bars) /\ last.bucket = e.at
        /\ Tail(bars) \in Seq(Bar) /\ ToSet(Tail(bars)) \subseteq ToSet(bars)
    <3>1. bars # <<>> /\ bars \in Seq(Bar)
      BY <1>0, <1>2 DEF SameBucket
    <3>2. Head(bars) = bars[1] /\ 1 \in DOMAIN bars
      BY <3>1
    <3>3. \A i \in 1..Len(Tail(bars)) : Tail(bars)[i] = bars[i + 1] /\ i + 1 \in DOMAIN bars
      BY <3>1
    <3>4. Tail(bars) \in Seq(Bar) /\ DOMAIN Tail(bars) = 1..Len(Tail(bars))
      BY <3>1
    <3>5. QED
      BY <1>2, <2>1, <3>1, <3>2, <3>3, <3>4 DEF SameBucket, ToSet
  <2>3. PICK new : new = [last EXCEPT !.high = Highest(@, e.price), !.low = Lowest(@, e.price),
                                      !.close = e.price, !.volume = @ + 1]
    OBVIOUS
  <2>4. UpsertFromTrade(bars, e) = <<new>> \o Tail(bars)
    BY <1>2, <2>1, <2>3 DEF UpsertFromTrade
  <2>5. /\ new \in Bar /\ new.bucket = e.at
        /\ PricesOf(new) \subseteq PricesOf(last) \cup {e.price}
    <3>1. PICK h \in Nat : h = Highest(last.high, e.price) /\ h \in {last.high, e.price}
      BY <2>2 DEF Bar, Event, Highest
    <3>2. PICK l \in Nat : l = Lowest(last.low, e.price) /\ l \in {last.low, e.price}
      BY <2>2 DEF Bar, Event, Lowest
    <3>3. /\ last.volume + 1 \in Nat /\ e.price \in Nat
          /\ new = [last EXCEPT !.high = h, !.low = l, !.close = e.price, !.volume = last.volume + 1]
      <4>1. last.volume \in Nat /\ e.price \in Nat
        BY <2>2 DEF Bar, Event
      <4>2. QED
        BY <2>3, <3>1, <3>2, <4>1
    <3>4. new \in Bar /\ new.bucket = last.bucket /\ new.open = last.open /\ new.high = h
          /\ new.low = l /\ new.close = e.price
      BY <2>2, <3>3 DEF Bar
    <3>5. QED
      BY <2>2, <3>1, <3>2, <3>4 DEF PricesOf
  <2>6. PricesOf(new) \subseteq PricesAt(new.bucket)
    BY <1>1, <2>2, <2>5 DEF AnalyticsInv, BarsOfTheirTime
  <2>7. /\ <<new>> \o Tail(bars) \in Seq(Bar)
        /\ ToSet(<<new>> \o Tail(bars)) \subseteq {new} \cup ToSet(Tail(bars))
    <3>1. <<new>> \in Seq(Bar) /\ Len(<<new>>) = 1 /\ <<new>>[1] = new
      BY <2>5
    <3>2. PICK rest \in Seq(Bar) : rest = Tail(bars)
      BY <2>2
    <3>3. /\ <<new>> \o rest \in Seq(Bar) /\ Len(<<new>> \o rest) = 1 + Len(rest)
          /\ \A i \in 1..(1 + Len(rest)) :
                 (<<new>> \o rest)[i] = IF i <= 1 THEN <<new>>[i] ELSE rest[i - 1]
      BY <3>1
    <3>4. \A i \in 1..(1 + Len(rest)) : i = 1 \/ i - 1 \in 1..Len(rest)
      OBVIOUS
    <3>5. DOMAIN (<<new>> \o rest) = 1..(1 + Len(rest)) /\ DOMAIN rest = 1..Len(rest)
      BY <3>3
    <3>6. QED
      BY <3>1, <3>2, <3>3, <3>4, <3>5 DEF ToSet
  <2>8. QED
    BY <2>2, <2>4, <2>6, <2>7 DEF AnalyticsInv, BarsOfTheirTime
<1>3. CASE ~SameBucket(bars, e)
  <2>1. PICK new : new = [bucket |-> e.at, open |-> e.price, high |-> e.price,
                          low |-> e.price, close |-> e.price, volume |-> 1]
    OBVIOUS
  <2>2. PICK k : k = Lowest(Len(bars) + 1, MaxBars)
    OBVIOUS
  <2>3. UpsertFromTrade(bars, e) = SubSeq(<<new>> \o bars, 1, k)
    BY <1>3, <2>1, <2>2 DEF UpsertFromTrade
  <2>4. new \in Bar /\ new.bucket = e.at /\ PricesOf(new) \subseteq PricesAt(new.bucket)
    BY <1>1, <2>1 DEF Bar, Event, PricesOf
  <2>5. k \in Nat /\ k <= Len(bars) + 1
    BY <1>0, <2>2 DEF Lowest
  <2>6. /\ <<new>> \o bars \in Seq(Bar) /\ Len(<<new>> \o bars) = Len(bars) + 1
        /\ \A i \in 1..(Len(bars) + 1) :
               (<<new>> \o bars)[i] = IF i <= 1 THEN new ELSE bars[i - 1]
    BY <1>0, <2>4
  <2>7. PICK all \in Seq(Bar) : all = <<new>> \o bars
    BY <2>6
  <2>8. /\ SubSeq(all, 1, k) \in Seq(Bar) /\ Len(SubSeq(all, 1, k)) = k
        /\ \A i \in 1..k : SubSeq(all, 1, k)[i] = all[i]
    BY <2>5, <2>6, <2>7
  <2>9. \A i \in 1..k : all[i] \in {new} \cup ToSet(bars)
    BY <1>0, <2>5, <2>6, <2>7 DEF ToSet
  <2>10. ToSet(SubSeq(all, 1, k)) \subseteq {new} \cup ToSet(bars)
    BY <2>8, <2>9 DEF ToSet
  <2>11. QED
    BY <2>3, <2>4, <2>7, <2>8, <2>10 DEF AnalyticsInv, BarsOfTheirTime
<1>4. QED
  BY <1>2, <1>3

LEMMA AnalyticsStep ==
    ASSUME AnalyticsInv, [AnalyticsNext]_analyticsVars
    PROVE  AnalyticsInv'
<1> USE DEF AnalyticsInv
<1>1. ASSUME Events \subseteq Events', AnalyticsTyped', bars' = bars, summary' = summary
      PROVE  AnalyticsInv'
  BY <1>1 DEF BarsOfTheirTime, PricesAt, SummarySeen, IsSeen
<1>2. CASE MinutePasses \/ UNCHANGED analyticsVars
  BY <1>1, <1>2 DEF MinutePasses, analyticsVars, AnalyticsTyped, Events
<1>3. ASSUME NEW topic \in Topics, Publish(topic) PROVE AnalyticsInv'
  <2>1. PICK new : new = [price |-> Len(published[topic]) + 1, at |-> minute]
    OBVIOUS
  <2>2. PICK log \in Seq(Event) : log = published[topic]
    BY DEF AnalyticsTyped
  <2>3. new \in Event /\ published' = [published EXCEPT ![topic] = Append(log, new)]
        /\ UNCHANGED <<minute, offset, bars, summary>>
    BY <1>3, <2>1, <2>2 DEF Publish, Event, AnalyticsTyped
  <2>4. /\ Append(log, new) \in Seq(Event) /\ DOMAIN log \subseteq DOMAIN Append(log, new)
        /\ \A i \in DOMAIN log : Append(log, new)[i] = log[i]
    <3>1. /\ Append(log, new) \in Seq(Event) /\ Len(Append(log, new)) = Len(log) + 1
          /\ \A i \in 1..Len(log) : Append(log, new)[i] = log[i]
      BY <2>3
    <3>2. QED
      BY <3>1
  <2>5. AnalyticsTyped'
    BY <2>3, <2>4 DEF AnalyticsTyped
  <2>6. ToSet(log) \subseteq ToSet(Append(log, new))
    BY <2>4 DEF ToSet
  <2>7. \A t \in Topics : ToSet(published[t]) \subseteq ToSet(published'[t])
    BY <2>2, <2>3, <2>6 DEF AnalyticsTyped
  <2>8. QED
    BY <1>1, <2>3, <2>5, <2>7 DEF Events
<1>4. ASSUME NEW topic \in Topics, OnEvent(topic) PROVE AnalyticsInv'
  <2>1. PICK e : e = published[topic][offset[topic] + 1]
    OBVIOUS
  <2>2. e \in Event /\ e \in Events
    <3>1. published[topic] \in Seq(Event) /\ offset[topic] + 1 \in DOMAIN published[topic]
      BY <1>4 DEF OnEvent, AnalyticsTyped
    <3>2. e \in Event /\ e \in ToSet(published[topic])
      BY <2>1, <3>1 DEF ToSet
    <3>3. QED
      BY <3>2 DEF Events
  <2>3. PICK series : series = UpsertFromTrade(bars, e)
    OBVIOUS
  <2>4. series \in Seq(Bar) /\ \A b \in ToSet(series) : PricesOf(b) \subseteq PricesAt(b.bucket)
    BY <2>2, <2>3, UpsertKeepsTime
  <2>5. /\ bars' = series /\ summary' = RecomputeSummary(series)
        /\ UNCHANGED <<minute, published>> /\ offset' = [offset EXCEPT ![topic] = @ + 1]
    BY <1>4, <2>1, <2>3 DEF OnEvent
  <2>6. AnalyticsTyped'
    BY <2>4, <2>5 DEF AnalyticsTyped
  <2>7. Events' = Events
    BY <2>5 DEF Events
  <2>8. BarsOfTheirTime'
    BY <2>4, <2>5, <2>7 DEF BarsOfTheirTime, PricesAt
  <2>9. SummarySeen(summary)'
    <3>1. CASE summary' = summary
      BY <2>7, <3>1 DEF SummarySeen, IsSeen
    <3>2. CASE summary' # summary
      <4>1. PICK b, c \in ToSet(series) :
                /\ b.bucket >= minute - MinutesOfDay /\ c.bucket >= minute - MinutesOfDay
                /\ summary'.computed = minute
                /\ summary'.high = b.high /\ summary'.low = c.low
        BY <2>4, <2>5, <3>2, SummaryIsOfBars DEF AnalyticsTyped
      <4>2. b.high \in PricesAt(b.bucket) /\ c.low \in PricesAt(c.bucket)
        BY <2>4 DEF PricesOf
      <4>3. IsSeen(b.high, minute) /\ IsSeen(c.low, minute)
        BY <4>1, <4>2 DEF PricesAt, IsSeen
      <4>4. QED
        BY <2>7, <4>1, <4>3 DEF SummarySeen, IsSeen
    <3>3. QED
      BY <3>1, <3>2
  <2>10. QED
    BY <2>6, <2>8, <2>9
<1>5. CASE Restart
  <2>1. /\ bars' = <<>> /\ summary' = NoSummary /\ UNCHANGED <<minute, published>>
        /\ \E topic \in Topics :
              offset' \in {offset, [offset EXCEPT ![topic] = IF @ = 0 THEN 0 ELSE @ - 1]}
    BY <1>5 DEF Restart
  <2>2. offset' \in [Topics -> Nat]
    <3>1. \A t \in Topics : (IF offset[t] = 0 THEN 0 ELSE offset[t] - 1) \in Nat
      BY DEF AnalyticsTyped
    <3>2. QED
      BY <2>1, <3>1 DEF AnalyticsTyped
  <2>3. bars' \in Seq(Bar) /\ ToSet(bars') = {}
    BY <2>1, EmptySeq DEF ToSet
  <2>4. QED
    BY <2>1, <2>2, <2>3 DEF AnalyticsTyped, BarsOfTheirTime, SummarySeen
<1>6. QED
  BY <1>2, <1>3, <1>4, <1>5 DEF AnalyticsNext

(* A bar holds prices of its own minute, the summary's prices are of the    *)
(* day before it was computed, for any number of trades, bars and restarts  *)
(* (analytics.service.ts:53).                                               *)
THEOREM BarsHoldTheirPrices == AnalyticsSpec => []PricesOfTheirTime
<1>1. AnalyticsInit => AnalyticsInv
  <2> SUFFICES ASSUME AnalyticsInit PROVE AnalyticsInv
    OBVIOUS
  <2>1. bars \in Seq(Bar) /\ ToSet(bars) = {} /\ <<>> \in Seq(Event)
    BY EmptySeq DEF AnalyticsInit, ToSet
  <2>2. QED
    BY <2>1 DEF AnalyticsInit, AnalyticsInv, AnalyticsTyped, BarsOfTheirTime, SummarySeen
<1>2. AnalyticsInv /\ [AnalyticsNext]_analyticsVars => AnalyticsInv'
  BY AnalyticsStep
<1>3. AnalyticsInv => PricesOfTheirTime
  BY DEF AnalyticsInv, BarsOfTheirTime, PricesAt, PricesOf, SummarySeen, IsSeen, PricesOfTheirTime
<1>4. QED
  BY <1>1, <1>2, <1>3, PTL DEF AnalyticsSpec
=============================================================================
