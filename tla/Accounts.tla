------------------------------ MODULE Accounts ------------------------------
(***************************************************************************)
(* A user's account: the row of the user, the e-mail addresses, the        *)
(* devices for two-factor login, the avatar and the sessions               *)
(* (src/fiduswriter/user/views.py).  Each request is a few statements of   *)
(* its own, and most of them write whole rows they read before; those of   *)
(* two workers mix, and a server may stop between two of them.             *)
(*                                                                         *)
(* Names, passwords and preferences are the number of the request that set *)
(* them; a code for a device is right or wrong.                            *)
(***************************************************************************)
EXTENDS Integers, FiniteSets

CONSTANTS Clerks,          \* processes that serve requests
          Addresses,       \* e-mail addresses
          FirstAddress,    \* the address the account was opened with
          MaxAsked         \* bound on the requests

ASSUME AccountsAssumption == FirstAddress \in Addresses /\ MaxAsked \in Nat

VARIABLES
    user,        \* the row: none or one
    address,     \* the addresses: primary, verified
    device,      \* the devices: confirmed or not
    avatar,      \* the avatars
    session,     \* the sessions: the password each was opened with
    errand,      \* the rest of the request each clerk serves
    asked,       \* number of the requests
    issued,      \* the number of the last device, avatar and session issued
    set,         \* history: by which request each field of the row was set
    guarded,     \* history: was two-factor login switched on, and not off?
    shutOut,     \* history: sessions that a new password ended
    unsettled    \* history: what two requests, or one that failed, were at work on

accountVars == <<user, address, device, avatar, session, errand, asked, issued, set, guarded,
                 shutOut, unsettled>>

Fields == {"password", "profile", "words", "offer"}
Topics == {"row", "mail", "devices", "avatar"}
NoErrand == [at |-> "none", on |-> {}]

\* An account with one address, or with all of them and two-factor login.
AccountsInit ==
    /\ user = {[field |-> [f \in Fields |-> 0], email |-> FirstAddress]}
    /\ guarded \in BOOLEAN /\ device = (IF guarded THEN <<TRUE>> ELSE <<>>)
    /\ address = [a \in IF guarded THEN Addresses ELSE {FirstAddress} |->
                    [primary |-> a = FirstAddress, verified |-> TRUE]]
    /\ avatar = {}
    /\ session = <<0>>
    /\ errand = [c \in Clerks |-> NoErrand] /\ asked = 0
    /\ issued = [device |-> Cardinality(DOMAIN device), avatar |-> 0, session |-> 1]
    /\ set = [f \in Fields |-> 0] /\ shutOut = {} /\ unsettled = {}

Put(table, i, row) == [x \in DOMAIN table \cup {i} |-> IF x = i THEN row ELSE table[x]]
Cut(table, is) == [x \in DOMAIN table \ is |-> table[x]]
NextOf(kind) == issued[kind] + 1
Make(kind) == issued' = [issued EXCEPT ![kind] = @ + 1]

\* Sessions are bound to the password: a new one ends them.
LoggedIn(s) == s \in DOMAIN session /\ \E u \in user : session[s] = u.field["password"]
InForce == {d \in DOMAIN device : device[d]}
FirstInForce == {d \in InForce : \A e \in InForce : d <= e}
Primaries == {a \in DOMAIN address : address[a].primary}

accountRows == <<user, address, device, avatar, session, issued>>
accountPast == <<set, guarded, shutOut>>

-----------------------------------------------------------------------------
(* Requests.                                                               *)

Take(c, next) ==
    /\ errand[c] = NoErrand /\ asked < MaxAsked
    /\ asked' = asked + 1
    /\ errand' = [errand EXCEPT ![c] = next]
    /\ unsettled' = unsettled \cup UNION {errand[d].on \cap next.on : d \in Clerks}

Proceed(c, next) == errand' = [errand EXCEPT ![c] = next] /\ UNCHANGED <<asked, unsettled>>
To(c, place) == Proceed(c, [errand[c] EXCEPT !.at = place])
Finish(c) == Proceed(c, NoErrand)

\* The server stops, or the database refuses.
Break(c) ==
    /\ errand[c] # NoErrand
    /\ errand' = [errand EXCEPT ![c] = NoErrand]
    /\ unsettled' = unsettled \cup errand[c].on
    /\ UNCHANGED <<accountRows, asked, accountPast>>

-----------------------------------------------------------------------------
(* The row of the user.                                                    *)

\* The row is read ...
SetField(c, s, fields) ==
    /\ LoggedIn(s)
    /\ \E u \in user, f \in fields :
          Take(c, [at |-> "row", on |-> {"row"}, row |-> u, field |-> f, value |-> asked + 1])
    /\ UNCHANGED <<accountRows, accountPast>>

SaveProfile(c, s) == SetField(c, s, {"profile"})
UpdatePreferences(c, s) == SetField(c, s, {"words", "offer"})

\* password_change: the old one is checked.
ChangePassword(c, s) ==
    /\ LoggedIn(s)
    /\ \E u \in user : Take(c, [at |-> "row", on |-> {"row"}, row |-> u, field |-> "password",
                                value |-> asked + 1, session |-> s])
    /\ UNCHANGED <<accountRows, accountPast>>

\* ... and written, all fields of it: if it is gone it comes back.
WriteUser(c) ==
    LET e == errand[c]
    IN  /\ e.at = "row"
        /\ user' = {[e.row EXCEPT !.field[e.field] = e.value]}
        /\ set' = [set EXCEPT ![e.field] = e.value]
        /\ IF e.field = "password"
           THEN To(c, "rehash") /\ shutOut' = shutOut \cup DOMAIN session
           ELSE Finish(c) /\ UNCHANGED shutOut
        /\ UNCHANGED <<address, device, avatar, session, issued, guarded>>

\* The session that asked goes on, under a new key.
Rehash(c) ==
    LET e == errand[c]
    IN  /\ e.at = "rehash"
        /\ session' = Put(Cut(session, {e.session}), NextOf("session"), e.value)
        /\ Make("session") /\ Finish(c)
        /\ UNCHANGED <<user, address, device, avatar, accountPast>>

\* delete_user: the caller is logged out, ...
DeleteUser(c, s) ==
    /\ LoggedIn(s)
    /\ Take(c, [at |-> "delete", on |-> Topics])
    /\ session' = Cut(session, {s})
    /\ UNCHANGED <<user, address, device, avatar, issued, accountPast>>

\* ... and the account is deleted.
RemoveUser(c) ==
    /\ errand[c].at = "delete"
    /\ user' = {} /\ address' = <<>> /\ device' = <<>> /\ avatar' = {}
    /\ guarded' = FALSE
    /\ Finish(c)
    /\ UNCHANGED <<session, issued, set, shutOut>>

-----------------------------------------------------------------------------
(* E-mail addresses.                                                       *)

AddEmail(c, s) ==
    /\ LoggedIn(s)
    /\ \E a \in Addresses \ DOMAIN address :
          address' = Put(address, a, [primary |-> FALSE, verified |-> FALSE])
    /\ Take(c, NoErrand)
    /\ UNCHANGED <<user, device, avatar, session, issued, accountPast>>

\* The link in a mail is followed; an account without a primary address gets one.
ConfirmEmail ==
    /\ \E a \in DOMAIN address :
        /\ ~address[a].verified
        /\ address' = [address EXCEPT ![a].verified = TRUE, ![a].primary = Primaries = {}]
        /\ user' = IF Primaries = {} THEN {[u EXCEPT !.email = a] : u \in user} ELSE user
    /\ UNCHANGED <<device, avatar, session, issued, errand, asked, accountPast, unsettled>>

\* fault: any address can be removed
IsAddress(a) == a \in DOMAIN address

IsSecondary(a) == a \in DOMAIN address /\ ~address[a].primary

\* delete_email: an address that is not the primary one ...
DeleteEmail(c, s) ==
    /\ LoggedIn(s)
    /\ \E a \in Addresses :
          IsSecondary(a) /\ Take(c, [at |-> "drop", on |-> {"mail"}, address |-> a])
    /\ UNCHANGED <<accountRows, accountPast>>

\* ... is removed.
DropAddress(c) ==
    /\ errand[c].at = "drop"
    /\ address' = Cut(address, {errand[c].address})
    /\ Finish(c)
    /\ UNCHANGED <<user, device, avatar, session, issued, accountPast>>

\* primary_email: a verified address ...
PrimaryEmail(c, s) ==
    /\ LoggedIn(s)
    /\ \E a \in DOMAIN address :
        /\ address[a].verified
        /\ Take(c, [at |-> "demote", on |-> {"row", "mail"}, address |-> a])
    /\ UNCHANGED <<accountRows, accountPast>>

\* ... takes the place of the primary one (set_as_primary), row by row, ...
Demote(c) ==
    /\ errand[c].at = "demote"
    /\ address' = [a \in DOMAIN address |-> [address[a] EXCEPT !.primary = FALSE]]
    /\ To(c, "promote")
    /\ UNCHANGED <<user, device, avatar, session, issued, accountPast>>

\* ... unless another one has become primary meanwhile (constraint) or the user is gone; an
\* address that is gone comes back, ...
Promote(c) ==
    LET a == errand[c].address
    IN  /\ errand[c].at = "promote"
        /\ IF user # {} /\ Primaries \ {a} = {}
           THEN address' = Put(address, a, [primary |-> TRUE, verified |-> TRUE]) /\ To(c, "email")
           ELSE Finish(c) /\ UNCHANGED address
        /\ UNCHANGED <<user, device, avatar, session, issued, accountPast>>

\* ... and the user's row names it.
WriteEmail(c) ==
    /\ errand[c].at = "email"
    /\ user' = {[u EXCEPT !.email = errand[c].address] : u \in user}
    /\ Finish(c)
    /\ UNCHANGED <<address, device, avatar, session, issued, accountPast>>

-----------------------------------------------------------------------------
(* Login.                                                                  *)

\* The password is right, as it is now.
Login(c) ==
    /\ \E u \in user : Take(c, [at |-> "address", on |-> {"mail", "devices"}, row |-> u])
    /\ UNCHANGED <<accountRows, accountPast>>

\* The address in the row gets a row of its own if it has none, as the primary one; the login
\* fails if the database does not take it.
LoginAddress(c) ==
    LET a == errand[c].row.email
    IN  /\ errand[c].at = "address"
        /\ \/ a \in DOMAIN address /\ To(c, "device") /\ UNCHANGED address
           \/ /\ a \notin DOMAIN address /\ user # {} /\ Primaries = {}
              /\ address' = Put(address, a, [primary |-> TRUE, verified |-> TRUE])
              /\ To(c, "device")
           \/ /\ a \notin DOMAIN address /\ (user = {} \/ Primaries # {})
              /\ Finish(c) /\ UNCHANGED address
        /\ UNCHANGED <<user, device, avatar, session, issued, accountPast>>

\* With a confirmed device, a code for it is needed.
LoginDevice(c) ==
    /\ errand[c].at = "device"
    /\ IF InForce = {} THEN To(c, "open")
       ELSE \/ \E d \in FirstInForce :
                  Proceed(c, [at |-> "code", on |-> errand[c].on, row |-> errand[c].row,
                              device |-> d])
            \/ Finish(c)
    /\ UNCHANGED <<accountRows, accountPast>>

\* verify_token writes the row of the device, right or wrong (foreign key: the user).
SavesDevice(d, confirmed) ==
    device' = IF user = {} THEN device ELSE Put(device, d, confirmed)

LoginCode(c) ==
    /\ errand[c].at = "code"
    /\ SavesDevice(errand[c].device, TRUE)
    /\ To(c, "open") \/ Finish(c)
    /\ UNCHANGED <<user, address, avatar, session, issued, accountPast>>

OpenSession(c) ==
    /\ errand[c].at = "open"
    /\ session' = Put(session, NextOf("session"), errand[c].row.field["password"])
    /\ Make("session") /\ Finish(c)
    /\ UNCHANGED <<user, address, device, avatar, accountPast>>

Logout(c, s) ==
    /\ s \in DOMAIN session /\ session' = Cut(session, {s})
    /\ Take(c, NoErrand)
    /\ UNCHANGED <<user, address, device, avatar, issued, accountPast>>

-----------------------------------------------------------------------------
(* Two-factor login.                                                       *)

\* two_factor_setup: no device is confirmed, ...
SetUp(c, s) ==
    /\ LoggedIn(s) /\ InForce = {}
    /\ Take(c, [at |-> "setup", on |-> {"devices"}])
    /\ UNCHANGED <<accountRows, accountPast>>

\* ... and one that waits for its confirmation is used, or ...
SetUpAgain(c) ==
    /\ errand[c].at = "setup"
    /\ IF DOMAIN device \ InForce # {} THEN Finish(c) ELSE To(c, "create")
    /\ UNCHANGED <<accountRows, accountPast>>

\* ... one is made.
CreateDevice(c) ==
    /\ errand[c].at = "create" /\ Finish(c)
    /\ IF user = {} THEN UNCHANGED <<device, issued>>
       ELSE device' = Put(device, NextOf("device"), FALSE) /\ Make("device")
    /\ UNCHANGED <<user, address, avatar, session, accountPast>>

\* two_factor_verify: a device that waits, and a code for it ...
Verify(c, s) ==
    /\ LoggedIn(s)
    /\ \E d \in DOMAIN device \ InForce :
          Take(c, [at |-> "confirm", on |-> {"devices"}, device |-> d])
    /\ UNCHANGED <<accountRows, accountPast>>

\* ... that is right confirms it; ...
ConfirmDevice(c) ==
    /\ errand[c].at = "confirm"
    /\ \/ SavesDevice(errand[c].device, FALSE) /\ Finish(c) /\ UNCHANGED guarded
       \/ SavesDevice(errand[c].device, TRUE) /\ To(c, "tidy") /\ guarded' = TRUE
    /\ UNCHANGED <<user, address, avatar, session, issued, set, shutOut>>

\* ... the others that wait go.
TidyDevices(c) ==
    /\ errand[c].at = "tidy"
    /\ device' = Cut(device, DOMAIN device \ (InForce \cup {errand[c].device}))
    /\ Finish(c)
    /\ UNCHANGED <<user, address, avatar, session, issued, accountPast>>

\* two_factor_disable: the password, a confirmed device ...
Disable(c, s) ==
    /\ LoggedIn(s)
    /\ \E d \in FirstInForce :
          Take(c, [at |-> "check", on |-> {"devices"}, device |-> d, session |-> s])
    /\ UNCHANGED <<accountRows, accountPast>>

\* ... and a code for it, ...
CheckCode(c) ==
    /\ errand[c].at = "check"
    /\ SavesDevice(errand[c].device, TRUE)
    /\ To(c, "disable") \/ Finish(c)
    /\ UNCHANGED <<user, address, avatar, session, issued, accountPast>>

\* ... and all devices go, ...
RemoveDevices(c) ==
    /\ errand[c].at = "disable"
    /\ device' = <<>> /\ guarded' = FALSE
    /\ To(c, "expire")
    /\ UNCHANGED <<user, address, avatar, session, issued, set, shutOut>>

\* ... and then the user's other sessions.
ExpireSessions(c) ==
    /\ errand[c].at = "expire"
    /\ session' = Cut(session, DOMAIN session \ {errand[c].session})
    /\ Finish(c)
    /\ UNCHANGED <<user, address, device, avatar, issued, accountPast>>

-----------------------------------------------------------------------------
(* Avatars: there may be one, so each that is saved removes the others.    *)

UploadAvatar(c, s) ==
    /\ LoggedIn(s)
    /\ Take(c, [at |-> "avatar", on |-> {"avatar"}])
    /\ avatar' = {}
    /\ UNCHANGED <<user, address, device, session, issued, accountPast>>

\* The row is saved twice, with the file and for the form.
InsertAvatar(c) ==
    /\ errand[c].at = "avatar"
    /\ IF user = {} THEN Finish(c) /\ UNCHANGED <<avatar, issued>>
       ELSE /\ avatar' = avatar \cup {NextOf("avatar")} /\ Make("avatar")
            /\ Proceed(c, [at |-> "save", on |-> {"avatar"}, avatar |-> NextOf("avatar")])
    /\ UNCHANGED <<user, address, device, session, accountPast>>

SaveAvatar(c) ==
    /\ errand[c].at = "save"
    /\ avatar' = IF user = {} THEN avatar ELSE {errand[c].avatar}
    /\ Finish(c)
    /\ UNCHANGED <<user, address, device, session, issued, accountPast>>

\* delete_avatar: the one that is shown goes; another one, if there is, takes its place, and
\* as it is saved the others go.
DeleteAvatar(c, s) ==
    /\ LoggedIn(s) /\ avatar # {}
    /\ \E a \in avatar :
          Take(c, [at |-> "unshow", on |-> {"avatar"}, avatar |-> a, others |-> avatar \ {a}])
    /\ UNCHANGED <<accountRows, accountPast>>

RemoveAvatar(c) ==
    LET e == errand[c]
    IN  /\ e.at = "unshow"
        /\ \/ e.others = {} /\ avatar' = avatar \ {e.avatar}
           \/ \E a \in e.others : avatar' = IF user = {} THEN avatar ELSE {a}
        /\ Finish(c)
        /\ UNCHANGED <<user, address, device, session, issued, accountPast>>

AccountsNext ==
    \/ \E c \in Clerks, s \in DOMAIN session :
        \/ SaveProfile(c, s) \/ UpdatePreferences(c, s) \/ ChangePassword(c, s) \/ DeleteUser(c, s)
        \/ AddEmail(c, s) \/ DeleteEmail(c, s) \/ PrimaryEmail(c, s) \/ Logout(c, s)
        \/ SetUp(c, s) \/ Verify(c, s) \/ Disable(c, s)
        \/ UploadAvatar(c, s) \/ DeleteAvatar(c, s)
    \/ \E c \in Clerks :
        \/ WriteUser(c) \/ Rehash(c) \/ RemoveUser(c)
        \/ DropAddress(c) \/ Demote(c) \/ Promote(c) \/ WriteEmail(c)
        \/ Login(c) \/ LoginAddress(c) \/ LoginDevice(c) \/ LoginCode(c) \/ OpenSession(c)
        \/ SetUpAgain(c) \/ CreateDevice(c) \/ ConfirmDevice(c) \/ TidyDevices(c)
        \/ CheckCode(c) \/ RemoveDevices(c) \/ ExpireSessions(c)
        \/ InsertAvatar(c) \/ SaveAvatar(c) \/ RemoveAvatar(c) \/ Break(c)
    \/ ConfirmEmail

AccountsSpec == AccountsInit /\ [][AccountsNext]_accountVars

-----------------------------------------------------------------------------
\* One user at most, and numbers that were given out.
AccountsTypeOK ==
    /\ Cardinality(user) <= 1
    /\ DOMAIN address \subseteq Addresses
    /\ DOMAIN device \subseteq 1..issued.device /\ avatar \subseteq 1..issued.avatar
    /\ DOMAIN session \cup shutOut \subseteq 1..issued.session
    /\ asked \in 0..MaxAsked /\ set \in [Fields -> 0..MaxAsked]
    /\ guarded \in BOOLEAN /\ unsettled \subseteq Topics

\* Nothing is at work on it, and nothing ever was at the same time, or failed.
Settled(topics) ==
    topics \cap unsettled = {} /\ \A c \in Clerks : errand[c].on \cap topics = {}

\* Unless two requests were at work on the same part of the account, or one failed: the row
\* keeps what each request set; there is one primary address, the one in the row; two-factor
\* login is on as it was switched, with one device that counts; there is one avatar at most;
\* and a session that a new password ended never works again.
AccountKept ==
    /\ Settled({"row"}) => \A u \in user : u.field = set
    /\ Settled({"row", "mail"}) => \A u \in user : Primaries = {u.email}
    /\ Settled({"devices"}) /\ user # {} =>
        /\ Cardinality(InForce) = (IF guarded THEN 1 ELSE 0)
        /\ Cardinality(DOMAIN device \ InForce) <= (IF guarded THEN 0 ELSE 1)
    /\ Settled({"avatar"}) => Cardinality(avatar) <= 1
    /\ "row" \notin unsettled => \A s \in shutOut : ~LoggedIn(s)
    /\ user = {} /\ Settled(Topics) => DOMAIN address \cup DOMAIN device \cup avatar = {}
=============================================================================
