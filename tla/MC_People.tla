------------------------------ MODULE MC_People ------------------------------
(***************************************************************************)
(* Teams, accounts and the onboarding of a member, in three parts of the   *)
(* same state, with the same requests; the first state chooses one.        *)
(* Teams: two people, one of them the founder, two requests, three tokens: *)
(* enough to invite, send again and invite anew while the first link is    *)
(* still in a mailbox.  Accounts: one address, two ids to be drawn, two    *)
(* passwords, a slug and the same with a suffix.  Onboarding: two roles.   *)
(* What one part does with the rows of another is in that part's module a  *)
(* single step.                                                            *)
(***************************************************************************)
EXTENDS TeamInvitations, TLC

CONSTANTS
    Address, Id, Word, Base, Tries, MaxSalt, MaxGone,   \* of Accounts
    Roles, MaxChanges                                   \* of Onboarding

\* Nobody is called like the absence of a user, and the bounds are numbers.
ASSUME AccountsAssumption ==
    /\ "none" \notin Address \cup Id
    /\ Address # {} /\ Word # {} /\ Base # {} /\ Tries \in Nat \ {0}
    /\ MaxSalt \in Nat /\ MaxGone \in Nat

ASSUME OnboardingAssumption ==
    /\ Roles # {} /\ Roles \subseteq {"ADMIN", "EDITOR", "READER"}
    /\ MaxChanges \in Nat

VARIABLES part, aUser, aUsed, aHash, aGoogle, aOrg, aSalt, aIssued, aReq,
    oRole, oContext, oHas, oRow, oLeft, oReq

Accounts == INSTANCE Accounts WITH
    user <- aUser, used <- aUsed, hash <- aHash, google <- aGoogle, org <- aOrg,
    salt <- aSalt, issued <- aIssued, req <- aReq

Onboarding == INSTANCE Onboarding WITH
    role <- oRole, context <- oContext, has <- oHas, row <- oRow, left <- oLeft, req <- oReq

aVars == <<aUser, aUsed, aHash, aGoogle, aOrg, aSalt, aIssued, aReq>>
oVars == <<oRole, oContext, oHas, oRow, oLeft, oReq>>

RequestsAreAlike == Permutations(Proc)

all == <<part, vars, aVars, oVars>>

MCInit ==
    /\ part \in {"team", "accounts", "onboarding"}
    /\ Init /\ Accounts!Init /\ Onboarding!Init
    /\ part # "onboarding" => oRole = "ADMIN"

TeamNext == part = "team" /\ Next /\ UNCHANGED <<part, aVars, oVars>>

AccountsNext == part = "accounts" /\ Accounts!Next /\ UNCHANGED <<part, vars, oVars>>

OnboardingNext == part = "onboarding" /\ Onboarding!Next /\ UNCHANGED <<part, vars, aVars>>

MCNext == TeamNext \/ AccountsNext \/ OnboardingNext

MCSpec == MCInit /\ [][MCNext]_all

-----------------------------------------------------------------------------

\* One user for an address, with a way to sign in; nothing is left of a
\* deleted account; organizations have different slugs (Accounts).
AccountsAreWhole ==
    part = "accounts" =>
        /\ Accounts!TypeOK /\ Accounts!AddressIsOne
        /\ Accounts!NothingOfDeleted /\ Accounts!SlugsDiffer

\* A password is replaced by one who has checked it (Accounts).
ChangesFromChecked == [][Accounts!ChangeIsChecked]_aVars

\* A request that nothing crosses ends with an exact progress; a preset
\* replaces no context unasked, and its choice is lost only to an unmarking, a
\* role or a crossing; who has skipped the path is not brought back to it
\* (Onboarding).
OnboardingIsKept ==
    [][/\ Onboarding!EndsExact /\ Onboarding!ReplacesOnlyAsked
       /\ Onboarding!LosesPreset /\ Onboarding!StaysSkipped]_oVars
=============================================================================
