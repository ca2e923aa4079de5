------------------------------- MODULE Accounts -------------------------------
(***************************************************************************)
(* One user account from its invitation on: the one-time code that         *)
(* verifies the email or resets the password (one column for both), and    *)
(* the sessions opened and renewed (app/api/v1/endpoints/auth.py, users.py *)
(* and superadmin.py).  A handler decides on the row it loads; its commit  *)
(* writes the columns it changed, whatever the row has become.  Passwords, *)
(* names and properties do not appear.                                     *)
(***************************************************************************)
EXTENDS Integers, Desks

CONSTANTS
    SuperAdmin,  \* is the role of the account Super Admin
    MaxCodes     \* bound: number of codes generated

ASSUME AccountsAssumption == MaxCodes \in Nat \ {0}

VARIABLES
    user,        \* the row of users
    codes,       \* number of codes generated
    expired,     \* has otp_expires_at passed
    sessions,    \* have tokens been issued
    lobby         \* the handlers in progress

avars == <<user, codes, expired, sessions, lobby>>

Code == 1 .. MaxCodes
UserRow == [is_active : BOOLEAN, is_verified : BOOLEAN, otp_code : Code \cup {Null}, deleted : BOOLEAN]
Columns == {"is_active", "is_verified", "otp_code", "deleted"}

Field(c) == IF c = "otp_code" THEN Code \cup {Null} ELSE BOOLEAN

ATypeOK ==
    /\ user \in UserRow
    /\ codes \in 0 .. MaxCodes
    /\ expired \in BOOLEAN
    /\ sessions \in BOOLEAN
    /\ lobby = [k \in Desk |-> lobby[k]]
    /\ \A k \in Desk : lobby[k] = Vacant \/
          /\ lobby[k].pc \in {"edit", "mail", "accept", "login"}
          /\ DOMAIN lobby[k].new \subseteq Columns
          /\ \A c \in DOMAIN lobby[k].new : lobby[k].new[c] \in Field(c)

\* register and the invitations create the row in one transaction and store
\* its first code in a second one, which may be lost.
Registered ==
    /\ user = [is_active |-> TRUE, is_verified |-> FALSE, otp_code |-> Null, deleted |-> FALSE]
    /\ codes = 1 /\ expired = FALSE /\ sessions = FALSE

AInit ==
    /\ Registered
    /\ \E k \in Desk :
          lobby = [j \in Desk |-> IF j = k THEN [pc |-> "mail", new |-> [otp_code |-> 1]] ELSE Vacant]

-----------------------------------------------------------------------------

AGoto(k, t) == lobby' = [lobby EXCEPT ![k] = t]

\* The row with some columns written.
Over(new) == [c \in Columns |-> IF c \in DOMAIN new THEN new[c] ELSE user[c]]

\* Mutant: the commit writes the whole row, as it was loaded where unchanged.
DirtyRow(new) == Over(new)

\* The columns of the row that a handler changes.
Dirty(new) == [c \in {d \in DOMAIN new : new[d] # user[d]} |-> new[c]]
Decides(k, pc, new) == lobby[k] = Vacant /\ AGoto(k, [pc |-> pc, new |-> Dirty(new)])

\* A new code is on its way; it is mailed once it is stored.
Sends(k) ==
    /\ codes < MaxCodes
    /\ codes' = codes + 1
    /\ Decides(k, "mail", [otp_code |-> codes + 1])
    /\ UNCHANGED <<user, expired, sessions>>

Resend(k) == ~user.deleted /\ ~user.is_verified /\ Sends(k)
ForgotPassword(k) == ~user.deleted /\ Sends(k)

\* A code is good while it is the stored one and five minutes have not passed.
Good(c) == ~user.deleted /\ c = user.otp_code /\ ~expired

\* What an accepted code leaves in the row.
Accepted(new) == [new EXCEPT !.otp_code = Null]

Accepts(k, c, new) ==
    /\ Good(c)
    /\ lobby[k] = Vacant
    /\ AGoto(k, [pc |-> "accept", code |-> c, new |-> Dirty(Accepted(new))])
    /\ UNCHANGED <<user, codes, expired, sessions>>

VerifyOtp(k, c) == Accepts(k, c, [is_verified |-> TRUE, otp_code |-> c])
ResetPassword(k, c) == Accepts(k, c, [otp_code |-> c])

Enters(k, new) ==
    /\ user.is_active /\ ~user.deleted
    /\ Decides(k, "login", new)
    /\ UNCHANGED <<user, codes, expired, sessions>>

\* Who may log in with a password.
Verified == user.is_verified

\* A password login changes none of these columns.
Login(k) == Verified /\ Enters(k, <<>>)
SuperadminLogin(k) == SuperAdmin /\ Verified /\ Enters(k, <<>>)
\* Google has verified the email.
GoogleLogin(k) == Enters(k, [is_verified |-> TRUE])

\* A refresh writes nothing: it reads the row and answers.
Refresh ==
    /\ sessions /\ user.is_active /\ user.is_verified /\ ~user.deleted
    /\ UNCHANGED avars

Edits(k, new) ==
    /\ Decides(k, "edit", new)
    /\ UNCHANGED <<user, codes, expired, sessions>>

\* An administrator, also of deleted users in one of the two activations.
Deactivate(k) == ~user.deleted /\ Edits(k, [is_active |-> FALSE])
Activate(k) == Edits(k, [is_active |-> TRUE])
Suspend(k) == ~user.deleted /\ Edits(k, [is_active |-> FALSE])
Unsuspend(k) == ~user.deleted /\ Edits(k, [is_active |-> TRUE])
Delete(k) == ~user.deleted /\ Edits(k, [is_active |-> FALSE, deleted |-> TRUE])

\* The commit of whatever was decided.
ASaves(k) ==
    /\ lobby[k] # Vacant
    /\ user' = Over(lobby[k].new)
    /\ expired' = IF lobby[k].pc = "mail" THEN FALSE ELSE expired
    /\ sessions' = (sessions \/ lobby[k].pc = "login")
    /\ AGoto(k, Vacant)
    /\ UNCHANGED codes

CodeExpires ==
    /\ user.otp_code # Null /\ ~expired
    /\ expired' = TRUE
    /\ UNCHANGED <<user, codes, sessions, lobby>>

AAbandon(k) == lobby[k] # Vacant /\ AGoto(k, Vacant) /\ UNCHANGED <<user, codes, expired, sessions>>

ANext ==
    \/ Refresh \/ CodeExpires
    \/ \E k \in Desk :
          \/ Resend(k) \/ ForgotPassword(k)
          \/ \E c \in Code : VerifyOtp(k, c) \/ ResetPassword(k, c)
          \/ Login(k) \/ SuperadminLogin(k) \/ GoogleLogin(k)
          \/ Deactivate(k) \/ Activate(k) \/ Suspend(k) \/ Unsuspend(k) \/ Delete(k)
          \/ ASaves(k) \/ AAbandon(k)

ASpec == AInit /\ [][ANext]_avars

-----------------------------------------------------------------------------

\* Whoever holds tokens has a verified email: no late commit of another
\* handler, started before the verification, takes it back.
SessionsAreVerified == sessions => user.is_verified
=============================================================================
