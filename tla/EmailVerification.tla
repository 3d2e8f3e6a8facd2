--------------------------- MODULE EmailVerification ---------------------------
(***************************************************************************)
(* Accounts and the verification of their addresses: registration, the     *)
(* profile form, the resend button and the mailed links, as requests that  *)
(* overlap and may die.  Addresses are compared without regard to case, so *)
(* an address stands for all its spellings.  Sign-in through Google, whose *)
(* library keeps addresses of its own, is left out.                        *)
(***************************************************************************)
EXTENDS Integers

CONSTANTS
  Users, Addresses,
  NoAddress,        \* an account that does not exist yet
  NoUser,           \* a token that does not exist yet
  Forms,            \* requests at a time
  MaxTokens         \* bound: tokens issued

ASSUME VerificationAssumption ==
  /\ NoAddress \notin Addresses /\ NoUser \notin Users
  /\ MaxTokens \in Nat

Tokens == 1..MaxTokens

VARIABLES
  account,    \* the address of each account
  token,      \* the token rows, in the order they are created
  issued,     \* rows created so far
  sentTo,     \* the address each token's link was mailed to
  form,       \* the requests
  followed,   \* history: <<user, address>> of the links that were followed in time
  crossed     \* history: two issues of one user's tokens overlapped, or one died

accountVars == <<account, token, issued, sentTo, form, followed, crossed>>

\* user and address: what the request has in memory; number: the token of the row it
\* created or of the link it follows.
Form == [step : {"idle", "registering", "saving", "deleting", "creating", "mailing",
                 "confirming"},
         user : Users \cup {NoUser}, address : Addresses \cup {NoAddress},
         changed : BOOLEAN, number : 0..MaxTokens]
IdleForm == [step |-> "idle", user |-> NoUser, address |-> NoAddress,
             changed |-> FALSE, number |-> 0]

Row == [user : Users, address : Addresses, state : {"pending", "expired", "verified", "deleted"}]
NoRowYet == [user |-> NoUser, address |-> NoAddress, state |-> "deleted"]

Exists(n) == token[n].state # "deleted"
Outstanding(n) == token[n].state \in {"pending", "expired"}

AccountTypeOK ==
  /\ account \in [Users -> Addresses \cup {NoAddress}]
  /\ issued \in 0..MaxTokens
  /\ token \in [Tokens -> Row \cup {NoRowYet}]
  /\ \A n \in Tokens : token[n] \in Row <=> n <= issued
  /\ sentTo \in [Tokens -> Addresses \cup {NoAddress}]
  /\ form \in [Forms -> Form]
  /\ followed \subseteq Users \X Addresses
  /\ crossed \in BOOLEAN

AccountInit ==
  /\ account = [u \in Users |-> NoAddress]
  /\ token = [n \in Tokens |-> NoRowYet]
  /\ issued = 0
  /\ sentTo = [n \in Tokens |-> NoAddress]
  /\ form = [f \in Forms |-> IdleForm]
  /\ followed = {}
  /\ crossed = FALSE

-----------------------------------------------------------------------------
(* Forms *)

\* mutant: a verified token counts for any address of the account
IsVerifiedByAny(u, address) ==
  \E n \in Tokens : token[n].user = u /\ token[n].state = "verified"

\* is_email_verified, for the address a request has read.
IsVerified(u, address) ==
  \E n \in Tokens : token[n].user = u /\ token[n].state = "verified"
                    /\ token[n].address = address

\* clean_email: no other account has the address - when the form is validated.
AddressFree(u, address) == \A other \in Users \ {u} : account[other] # address

StartForm(f, step, u, address, changed) ==
  form' = [form EXCEPT ![f] = [step |-> step, user |-> u, address |-> address,
                               changed |-> changed, number |-> 0]]

Register(f, u, address) ==
  /\ form[f].step = "idle"
  /\ account[u] = NoAddress /\ AddressFree(u, address)
  /\ \A other \in Forms : form[other].user # u        \* the row is not there yet
  /\ StartForm(f, "registering", u, address, TRUE)
  /\ UNCHANGED <<account, token, issued, sentTo, followed, crossed>>

\* Another spelling of the same address is a change, too.
EditProfile(f, u, address) ==
  /\ form[f].step = "idle"
  /\ account[u] # NoAddress /\ AddressFree(u, address)
  /\ \E changed \in {TRUE, address # account[u]} : StartForm(f, "saving", u, address, changed)
  /\ UNCHANGED <<account, token, issued, sentTo, followed, crossed>>

\* resend_verification: nothing is sent to an address that is verified.
Resend(f, u) ==
  /\ form[f].step = "idle"
  /\ account[u] # NoAddress /\ ~IsVerified(u, account[u])
  /\ StartForm(f, "deleting", u, account[u], TRUE)
  /\ UNCHANGED <<account, token, issued, sentTo, followed, crossed>>

\* form.save(): a token is issued if the form changed the address it was loaded with.
SaveUser(f) ==
  LET here == form[f] IN
  /\ here.step \in {"registering", "saving"}
  /\ account' = [account EXCEPT ![here.user] = here.address]
  /\ form' = [form EXCEPT ![f] =
       IF here.changed THEN [@ EXCEPT !.step = "deleting"] ELSE IdleForm]
  /\ UNCHANGED <<token, issued, sentTo, followed, crossed>>

-----------------------------------------------------------------------------
(* issue_token and send_verification_email *)

Issuing(f, u) == form[f].step = "creating" /\ form[f].user = u

\* mutant: only expired tokens are deleted
DeleteExpired(f) ==
  LET u == form[f].user IN
  /\ form[f].step = "deleting"
  /\ token' = [n \in Tokens |->
       IF token[n].user = u /\ token[n].state = "expired"
       THEN [token[n] EXCEPT !.state = "deleted"] ELSE token[n]]
  /\ form' = [form EXCEPT ![f].step = "creating"]
  /\ crossed' = (crossed \/ \E other \in Forms \ {f} : Issuing(other, u))
  /\ UNCHANGED <<account, issued, sentTo, followed>>

DeleteOutstanding(f) ==
  LET u == form[f].user IN
  /\ form[f].step = "deleting"
  /\ token' = [n \in Tokens |->
       IF token[n].user = u /\ Outstanding(n) THEN [token[n] EXCEPT !.state = "deleted"]
       ELSE token[n]]
  /\ form' = [form EXCEPT ![f].step = "creating"]
  /\ crossed' = (crossed \/ \E other \in Forms \ {f} : Issuing(other, u))
  /\ UNCHANGED <<account, issued, sentTo, followed>>

CreateToken(f) ==
  /\ form[f].step = "creating"
  /\ issued < MaxTokens
  /\ issued' = issued + 1
  /\ token' = [token EXCEPT ![issued'] = [user |-> form[f].user, address |-> form[f].address,
                                          state |-> "pending"]]
  /\ form' = [form EXCEPT ![f].step = "mailing", ![f].number = issued']
  /\ UNCHANGED <<account, sentTo, followed, crossed>>

\* A mail that cannot be sent is only logged.
Mail(f) ==
  /\ form[f].step = "mailing"
  /\ \/ sentTo' = [sentTo EXCEPT ![form[f].number] = form[f].address]
     \/ UNCHANGED sentTo
  /\ form' = [form EXCEPT ![f] = IdleForm]
  /\ UNCHANGED <<account, token, issued, followed, crossed>>

\* The worker is killed, or a statement fails.
Die(f) ==
  /\ form[f].step # "idle"
  /\ form' = [form EXCEPT ![f] = IdleForm]
  /\ crossed' = (crossed \/ form[f].step = "creating")
  /\ UNCHANGED <<account, token, issued, sentTo, followed>>

-----------------------------------------------------------------------------
(* verify *)

\* EMAIL_VERIFICATION_TOKEN_TTL passes.
ExpireToken(n) ==
  /\ token[n].state = "pending"
  /\ token' = [token EXCEPT ![n].state = "expired"]
  /\ UNCHANGED <<account, issued, sentTo, form, followed, crossed>>

\* A link that is deleted, used or expired is answered at once.
OpenLink(f, n) ==
  /\ form[f].step = "idle"
  /\ sentTo[n] # NoAddress
  /\ token[n].state = "pending"
  /\ form' = [form EXCEPT ![f] = [IdleForm EXCEPT !.step = "confirming", !.number = n]]
  /\ followed' = followed \cup {<<token[n].user, sentTo[n]>>}
  /\ UNCHANGED <<account, token, issued, sentTo, crossed>>

\* save(update_fields=['verified_at']) raises when the row was deleted in between.
Confirm(f) ==
  LET n == form[f].number IN
  /\ form[f].step = "confirming"
  /\ token' = IF Exists(n) THEN [token EXCEPT ![n].state = "verified"] ELSE token
  /\ form' = [form EXCEPT ![f] = IdleForm]
  /\ UNCHANGED <<account, issued, sentTo, followed, crossed>>

AccountNext ==
  \/ \E f \in Forms :
       \/ \E u \in Users, address \in Addresses :
            Register(f, u, address) \/ EditProfile(f, u, address)
       \/ \E u \in Users : Resend(f, u)
       \/ SaveUser(f) \/ DeleteOutstanding(f) \/ CreateToken(f) \/ Mail(f) \/ Die(f)
       \/ \E n \in Tokens : OpenLink(f, n)
       \/ Confirm(f)
  \/ \E n \in Tokens : ExpireToken(n)

AccountSpec == AccountInit /\ [][AccountNext]_accountVars

-----------------------------------------------------------------------------
(* Properties *)

\* An address shows as verified only if a link that was mailed to that very address, for
\* that account, was followed before it expired - whatever overlaps, and however often
\* the address changed in between.
VerifiedByItsLink ==
  \A u \in Users : account[u] # NoAddress /\ IsVerified(u, account[u]) =>
    <<u, account[u]>> \in followed

\* Unless two issues for one account overlapped, or one died halfway, an account has one
\* outstanding link at most, and its newest token is never taken away without another in
\* its place: a customer who was mailed a link can use it, or used it.
OneLinkAtATime ==
  ~crossed =>
    \A u \in Users :
      LET own == {n \in 1..issued : token[n].user = u} IN
      /\ \A m, n \in own : Outstanding(m) /\ Outstanding(n) => m = n
      /\ own # {} /\ (\A f \in Forms : ~Issuing(f, u)) =>
           \E n \in own : Exists(n) /\ \A m \in own : m <= n
=============================================================================
