------------------------------- MODULE WebAuth -------------------------------
(***************************************************************************)
(* Sign-in of the web application, which needs no server: the web branches   *)
(* of usbvault-app/src/stores/authStore.ts and the WebAuthn devices of       *)
(* services/fido2Service.ts.                                                 *)
(*                                                                          *)
(* The account and the list of devices are in localStorage, which all tabs   *)
(* share; the session is in the sessionStorage of a tab; isAuthenticated and *)
(* fido2Verified are in the memory of its page.  A flow waits while Argon2   *)
(* runs and while the user performs a WebAuthn ceremony.  A page may lack     *)
(* WebAuthn, and a write to storage may fail: the code ignores that.         *)
(***************************************************************************)
EXTENDS Naturals, FiniteSets

CONSTANTS
    Tabs,        \* browser tabs
    Accounts,    \* e-mail addresses
    NoAccount,   \* no account stored, no session
    Devs,        \* authenticators
    Passkeys     \* the ones registered as passkeys

ASSUME WebAuthAssumption == NoAccount \notin Accounts /\ Passkeys \subseteq Devs

VARIABLES
    account,       \* WEB_AUTH_KEY: the account
    devices,       \* DEVICES_KEY: the registered devices
    session,       \* per tab, WEB_SESSION_KEY
    signedIn,      \* per tab, isAuthenticated
    fido2Verified, \* per tab, fido2Verified
    webFlow,       \* per tab, the flow in progress
    webAuthn,      \* the tabs whose page has WebAuthn
    registered,    \* history: devices registered and not removed since
    staleWrite,    \* history: authenticate wrote back a list that had changed meanwhile
    unsaved        \* history: a change of the list was reported and not stored

pageVars == <<session, signedIn, fido2Verified>>
listHistory == <<registered, staleWrite, unsaved>>
WebVars == <<account, devices, pageVars, webFlow, webAuthn, listHistory>>

NoWebFlow == [op |-> "none", at |-> "none", acc |-> NoAccount, list |-> {}]
WebFlows ==
    [op : {"none", "login", "fido2", "verify", "passkey", "register", "device", "newPasskey"},
     at : {"none", "derive", "ceremony"},
     acc : Accounts \cup {NoAccount}, list : SUBSET Devs]

(* The type invariant.                                                       *)
WebTypeOK ==
    /\ account \in Accounts \cup {NoAccount}
    /\ devices \subseteq Devs /\ registered \subseteq Devs
    /\ session \in [Tabs -> Accounts \cup {NoAccount}]
    /\ signedIn \in [Tabs -> BOOLEAN] /\ fido2Verified \in [Tabs -> BOOLEAN]
    /\ webFlow \in [Tabs -> WebFlows]
    /\ webAuthn \subseteq Tabs
    /\ staleWrite \in BOOLEAN /\ unsaved \in BOOLEAN

WebInit ==
    /\ account = NoAccount /\ devices = {}
    /\ session = [t \in Tabs |-> NoAccount]
    /\ signedIn = [t \in Tabs |-> FALSE] /\ fido2Verified = [t \in Tabs |-> FALSE]
    /\ webFlow = [t \in Tabs |-> NoWebFlow]
    /\ webAuthn \in SUBSET Tabs
    /\ registered = {} /\ staleWrite = FALSE /\ unsaved = FALSE

-----------------------------------------------------------------------------
WebIdle(t) == webFlow[t] = NoWebFlow
WebEnds(t) == webFlow' = [webFlow EXCEPT ![t] = NoWebFlow]

(* navigator.credentials.get and .create: the list read before the ceremony  *)
(* is kept through it.                                                       *)
Ceremony(t, op, acc) ==
    webFlow' = [webFlow EXCEPT ![t] = [op |-> op, at |-> "ceremony", acc |-> acc, list |-> devices]]

(* saveSession ignores a write that fails.                                   *)
SignIn(t, acc, verified) ==
    /\ session' = [session EXCEPT ![t] = acc] \/ UNCHANGED session
    /\ signedIn' = [signedIn EXCEPT ![t] = TRUE]
    /\ fido2Verified' = [fido2Verified EXCEPT ![t] = verified]

SignInFails(t) ==
    /\ signedIn' = [signedIn EXCEPT ![t] = FALSE]
    /\ UNCHANGED <<session, fido2Verified>>

(* login and register read the stored account before they derive the         *)
(* verifier of the password.                                                 *)
loginWeb(t) ==
    /\ WebIdle(t) /\ account # NoAccount
    /\ webFlow' = [webFlow EXCEPT ![t] = [NoWebFlow EXCEPT !.op = "login", !.at = "derive",
                                                           !.acc = account]]
    /\ UNCHANGED <<account, devices, pageVars, webAuthn, listHistory>>

(* The password is checked and, with a device registered and WebAuthn in the *)
(* page, the second factor asked for.                                        *)
LoginDerived(t) ==
    LET acc == webFlow[t].acc
        fido2Required == devices # {} /\ t \in webAuthn
    IN
    /\ webFlow[t].op = "login" /\ webFlow[t].at = "derive"
    /\ \/ SignInFails(t) /\ WebEnds(t)
       \/ ~fido2Required /\ SignIn(t, acc, FALSE) /\ WebEnds(t)
       \/ fido2Required /\ Ceremony(t, "login", acc) /\ UNCHANGED pageVars
    /\ UNCHANGED <<account, devices, webAuthn, listHistory>>

loginWithFido2(t) ==
    /\ WebIdle(t) /\ account # NoAccount /\ devices # {} /\ t \in webAuthn
    /\ Ceremony(t, "fido2", account)
    /\ UNCHANGED <<account, devices, pageVars, webAuthn, listHistory>>

verifyFido2(t) ==
    /\ WebIdle(t) /\ devices # {} /\ t \in webAuthn
    /\ Ceremony(t, "verify", NoAccount)
    /\ UNCHANGED <<account, devices, pageVars, webAuthn, listHistory>>

authenticateWithPasskey(t) ==
    /\ WebIdle(t) /\ devices \cap Passkeys # {} /\ t \in webAuthn
    /\ Ceremony(t, "passkey", NoAccount)
    /\ UNCHANGED <<account, devices, pageVars, webAuthn, listHistory>>

(* authenticate after the ceremony: lastUsedAt is set in the list that was   *)
(* read before it, and that list is written, or the write fails.             *)
Authenticated(t) ==
    LET fl == webFlow[t] IN
    /\ fl.at = "ceremony" /\ fl.op \in {"login", "fido2", "verify", "passkey"}
    /\ \/ devices' = fl.list /\ staleWrite' = (staleWrite \/ fl.list # devices)
       \/ UNCHANGED <<devices, staleWrite>>
    /\ \/ fl.op \in {"login", "fido2"} /\ SignIn(t, fl.acc, TRUE)
       \/ /\ fl.op = "verify"
          /\ fido2Verified' = [fido2Verified EXCEPT ![t] = TRUE]
          /\ UNCHANGED <<session, signedIn>>
       \/ fl.op = "passkey" /\ UNCHANGED pageVars
    /\ WebEnds(t)
    /\ UNCHANGED <<account, webAuthn, registered, unsaved>>

(* Slip: a failed ceremony falls through to the sign-in.                     *)
CeremonyFailsOpen(t) ==
    LET fl == webFlow[t] IN
    /\ fl.at = "ceremony" /\ WebEnds(t)
    /\ \/ fl.op = "login" /\ SignIn(t, fl.acc, FALSE)
       \/ fl.op # "login" /\ UNCHANGED pageVars
    /\ UNCHANGED <<account, devices, webAuthn, listHistory>>

(* The ceremony is cancelled, times out, or answers for an unknown device.   *)
CeremonyFails(t) ==
    LET fl == webFlow[t] IN
    /\ fl.at = "ceremony" /\ WebEnds(t)
    /\ \/ fl.op \in {"login", "fido2"} /\ SignInFails(t)
       \/ /\ fl.op = "verify"
          /\ fido2Verified' = [fido2Verified EXCEPT ![t] = FALSE]
          /\ UNCHANGED <<session, signedIn>>
       \/ fl.op \in {"passkey", "device", "newPasskey"} /\ UNCHANGED pageVars
    /\ UNCHANGED <<account, devices, webAuthn, listHistory>>

-----------------------------------------------------------------------------
registerWeb(t, a) ==
    /\ WebIdle(t) /\ account # a
    /\ webFlow' = [webFlow EXCEPT ![t] = [NoWebFlow EXCEPT !.op = "register", !.at = "derive",
                                                           !.acc = a]]
    /\ UNCHANGED <<account, devices, pageVars, webAuthn, listHistory>>

(* The new account replaces the stored one, unless saveStoredAuth fails and  *)
(* ignores it; fido2Verified is left alone.                                  *)
RegisterDerived(t) ==
    /\ webFlow[t].op = "register"
    /\ account' = webFlow[t].acc \/ UNCHANGED account
    /\ SignIn(t, webFlow[t].acc, fido2Verified[t])
    /\ WebEnds(t)
    /\ UNCHANGED <<devices, webAuthn, listHistory>>

(* Registration up to the ceremony.                                          *)
registerDevice(t) ==
    /\ WebIdle(t) /\ signedIn[t] /\ t \in webAuthn
    /\ Ceremony(t, "device", NoAccount)
    /\ UNCHANGED <<account, devices, pageVars, webAuthn, listHistory>>

registerPasskey(t) ==
    /\ WebIdle(t) /\ signedIn[t] /\ t \in webAuthn
    /\ Ceremony(t, "newPasskey", NoAccount)
    /\ UNCHANGED <<account, devices, pageVars, webAuthn, listHistory>>

(* The authenticators that can answer; excludeCredentials rules out the ones *)
(* that were registered before the ceremony.                                 *)
NewDevices(t) ==
    CASE webFlow[t].op = "device" -> Devs \ (Passkeys \cup webFlow[t].list \cup devices)
      [] webFlow[t].op = "newPasskey" -> Passkeys \ (webFlow[t].list \cup devices)
      [] OTHER -> {}

(* writeDevices: a change of the list that fails is reported all the same.   *)
writeDevices(list) ==
    \/ devices' = list /\ UNCHANGED unsaved
    \/ UNCHANGED devices /\ unsaved' = TRUE

(* Slip: the new device is added to the list read before the ceremony.       *)
DeviceCreatedStale(t, d) ==
    /\ d \in NewDevices(t)
    /\ writeDevices(webFlow[t].list \cup {d})
    /\ registered' = registered \cup {d}
    /\ WebEnds(t)
    /\ UNCHANGED <<account, pageVars, webAuthn, staleWrite>>

(* After the ceremony the list is read again and the device added.           *)
DeviceCreated(t, d) ==
    /\ d \in NewDevices(t)
    /\ writeDevices(devices \cup {d})
    /\ registered' = registered \cup {d}
    /\ WebEnds(t)
    /\ UNCHANGED <<account, pageVars, webAuthn, staleWrite>>

removeDevice(t, d) ==
    /\ WebIdle(t) /\ signedIn[t] /\ d \in devices
    /\ writeDevices(devices \ {d})
    /\ registered' = registered \ {d}
    /\ UNCHANGED <<account, pageVars, webFlow, webAuthn, staleWrite>>

-----------------------------------------------------------------------------
(* logout leaves fido2Verified as it is; lockVault resets it.                *)
logoutWeb(t) ==
    /\ signedIn[t]
    /\ session' = [session EXCEPT ![t] = NoAccount]
    /\ signedIn' = [signedIn EXCEPT ![t] = FALSE]
    /\ UNCHANGED <<account, devices, fido2Verified, webFlow, webAuthn, listHistory>>

lockVaultWeb(t) ==
    /\ signedIn[t]
    /\ session' = [session EXCEPT ![t] = NoAccount]
    /\ signedIn' = [signedIn EXCEPT ![t] = FALSE]
    /\ fido2Verified' = [fido2Verified EXCEPT ![t] = FALSE]
    /\ UNCHANGED <<account, devices, webFlow, webAuthn, listHistory>>

(* The page is reloaded; checkAuth restores the session of the tab.          *)
checkAuthWeb(t) ==
    /\ signedIn' = [signedIn EXCEPT ![t] = session[t] # NoAccount]
    /\ fido2Verified' = [fido2Verified EXCEPT ![t] = FALSE]
    /\ webAuthn' \in {webAuthn \cup {t}, webAuthn \ {t}}
    /\ WebEnds(t)
    /\ UNCHANGED <<account, devices, session, listHistory>>

WebNext ==
    \E t \in Tabs :
        \/ loginWeb(t) \/ LoginDerived(t) \/ loginWithFido2(t) \/ verifyFido2(t)
        \/ authenticateWithPasskey(t) \/ Authenticated(t) \/ CeremonyFails(t)
        \/ RegisterDerived(t) \/ registerDevice(t) \/ registerPasskey(t)
        \/ \E a \in Accounts : registerWeb(t, a)
        \/ \E d \in Devs : DeviceCreated(t, d) \/ removeDevice(t, d)
        \/ logoutWeb(t) \/ lockVaultWeb(t) \/ checkAuthWeb(t)

WebSpec == WebInit /\ [][WebNext]_WebVars

-----------------------------------------------------------------------------
(* Once the registration of a security key has been reported, in any tab and *)
(* at any time, a password alone signs in to a tab without a session only    *)
(* where the page has no WebAuthn: login then drops the second factor.       *)
(* Exceptions: the list of devices was not stored, or was overwritten by an  *)
(* authentication with an older one.                                         *)
SecondFactorAsked ==
    [][\A t \in Tabs :
          webFlow[t].op = "login" /\ session[t] = NoAccount /\ ~signedIn[t] /\ signedIn'[t] =>
          \/ registered = {} \/ fido2Verified'[t]
          \/ t \notin webAuthn \/ staleWrite \/ unsaved]_WebVars

(* Registrations and removals in several tabs, ceremonies overlapping, lose  *)
(* no device and bring none back, unless an authentication wrote back a list *)
(* older than one of them, or the storage failed to take one.                *)
DeviceListExact == staleWrite \/ unsaved \/ devices = registered

(* Without that exception: a removed device does not come back.              *)
RemovedDeviceStaysOut == devices \subseteq registered

(* fido2Verified: "Whether FIDO2 second-factor was completed for this        *)
(* session".                                                                 *)
VerifiedThisSession ==
    [][\A t \in Tabs : webFlow[t].op = "register" /\ ~signedIn[t] /\ signedIn'[t] =>
          ~fido2Verified'[t]]_WebVars
=============================================================================
