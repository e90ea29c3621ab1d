--------------------------- MODULE SettingsClient ---------------------------
(***************************************************************************)
(* settingsStore with the sheets of the settings page.  A setting is saved *)
(* optimistically: the store changes first, a refused PATCH puts back the  *)
(* whole record it started from.  GET /me replaces the record, and if it   *)
(* says UTC pushes the browser's time zone to the backend in up to three   *)
(* attempts of its own.                                                    *)
(***************************************************************************)
EXTENDS Naturals, FiniteSets

CONSTANTS Fields,       \* the settings played with
          Values,       \* what they can be, "UTC" among them
          BrowserZone,
          MaxPatches,   \* bound: saves
          MaxProfiles   \* bound: GET /me

Guarded == {"notificationsEnabled", "notificationTime", "timezone"}
SheetOf(f) == CASE f = "locale" -> "language"
                [] f \in Guarded -> "notifications"
                [] OTHER -> "none"

ASSUME SettingsAssumption ==
    /\ "timezone" \in Fields
    /\ Fields \subseteq Guarded \cup {"locale", "defaultCurrency"}
    /\ "UTC" \in Values /\ BrowserZone \in Values \ {"UTC"}
    /\ MaxPatches \in Nat /\ MaxProfiles \in Nat

VARIABLES server,             \* the row of the user at the backend
          settings,           \* the store's
          profile, snapshot,  \* GET /me: where it is, what it read
          profiles, landed,
          patches, saves,     \* PATCH requests: running, ever sent
          saving,             \* savingToggle, savingTime, savingTz
          sync, attempt,      \* syncTimezoneWithBackoff
          settingsSheet, downloading,
          erasing,            \* DELETE /me
          raced,              \* history: requests overlapped or an answer was lost
          picked              \* history: the zone the user's last save set and
                              \* saw confirmed, "UTC" without one

getVars == <<profile, snapshot, profiles, landed>>
patchVars == <<patches, saves, saving>>
syncVars == <<sync, attempt>>
pageVars == <<settingsSheet, downloading, erasing>>
histVars == <<raced, picked>>
settingsVars == <<server, settings, getVars, patchVars, syncVars, pageVars,
                  histVars>>

Defaults == [f \in Fields |-> "UTC"]
Patches == [n : 1 .. MaxPatches, field : Fields, value : Values,
            prev : [Fields -> Values], handled : BOOLEAN]
Attempts == 3

SettingsInit ==
    /\ server \in {[f \in Fields |-> v] : v \in Values}
    /\ settings = Defaults
    /\ profile = "idle" /\ snapshot = Defaults /\ profiles = 0 /\ landed = FALSE
    /\ patches = {} /\ saves = 0 /\ saving = {}
    /\ sync = "off" /\ attempt = 0
    /\ settingsSheet = "none" /\ downloading = FALSE /\ erasing = "no"
    /\ raced = FALSE /\ picked = "UTC"

Busy == patches # {} \/ profile # "idle" \/ sync # "off"

-----------------------------------------------------------------------------
(* fetchProfile: at boot, and by the premium sheet when a payment may have *)
(* landed.                                                                 *)
FetchProfile ==
    /\ profile = "idle" /\ profiles < MaxProfiles
    /\ profile' = "sent" /\ profiles' = profiles + 1
    /\ raced' = (raced \/ Busy)
    /\ UNCHANGED <<server, settings, snapshot, landed, patchVars, syncVars,
                   pageVars, picked>>

ProfileRead ==
    /\ profile = "sent"
    /\ profile' = "read" /\ snapshot' = server
    /\ UNCHANGED <<server, settings, profiles, landed, patchVars, syncVars,
                   pageVars, histVars>>

(* A second sync may run beside the first; one of them is followed here.   *)
ProfileAnswered ==
    /\ profile = "read"
    /\ profile' = "idle" /\ landed' = TRUE
    /\ IF snapshot["timezone"] = "UTC"
       THEN /\ settings' = [snapshot EXCEPT !["timezone"] = BrowserZone]
            /\ sync' = "due" /\ attempt' = 1
       ELSE settings' = snapshot /\ UNCHANGED syncVars
    /\ UNCHANGED <<server, snapshot, profiles, patchVars, pageVars, histVars>>

ProfileFails ==
    /\ profile # "idle"
    /\ profile' = "idle"
    /\ UNCHANGED <<server, settings, snapshot, profiles, landed, patchVars,
                   syncVars, pageVars, histVars>>

-----------------------------------------------------------------------------
(* The sync: attempts at once, after one second, after four more.          *)
SyncSends ==
    /\ sync = "due"
    /\ sync' = "sent"
    /\ UNCHANGED <<server, settings, getVars, patchVars, attempt, pageVars,
                   histVars>>

SyncHandled ==
    /\ sync = "sent"
    /\ server' = [server EXCEPT !["timezone"] = BrowserZone]
    /\ sync' = "handled"
    /\ UNCHANGED <<settings, getVars, patchVars, attempt, pageVars, histVars>>

SyncOk ==
    /\ sync = "handled"
    /\ sync' = "off"
    /\ UNCHANGED <<server, settings, getVars, patchVars, attempt, pageVars,
                   histVars>>

(* A refusal ends it; anything else is tried again, even if it was done.   *)
SyncFails(refused) ==
    /\ sync = "sent" \/ (sync = "handled" /\ ~refused)
    /\ IF refused \/ attempt = Attempts
       THEN sync' = "off" /\ UNCHANGED attempt
       ELSE sync' = "due" /\ attempt' = attempt + 1
    /\ raced' = TRUE
    /\ UNCHANGED <<server, settings, getVars, patchVars, pageVars, picked>>

-----------------------------------------------------------------------------
OpenSettingsSheet(s) ==
    /\ settingsSheet = "none" /\ erasing = "no"
    /\ settingsSheet' = s
    /\ UNCHANGED <<server, settings, getVars, patchVars, syncVars, downloading,
                   erasing, histVars>>

CloseSettingsSheet ==
    /\ settingsSheet # "none" /\ erasing = "no"
    /\ settingsSheet' = "none"
    /\ UNCHANGED <<server, settings, getVars, patchVars, syncVars, downloading,
                   erasing, histVars>>

(* updateSettings behind its buttons: the currency and the language can be *)
(* tapped again at once, the notification settings not while one is saved. *)
SaveSetting(f, v) ==
    /\ settingsSheet = SheetOf(f) /\ saves < MaxPatches /\ erasing = "no"
    /\ f \in Guarded => f \notin saving /\ v # settings[f]
    /\ f = "timezone" => v # "UTC"    \* not on the list
    /\ settings' = [settings EXCEPT ![f] = v]
    /\ saves' = saves + 1
    /\ patches' = patches \cup {[n |-> saves + 1, field |-> f, value |-> v,
                                 prev |-> settings, handled |-> FALSE]}
    /\ saving' = IF f \in Guarded THEN saving \cup {f} ELSE saving
    /\ settingsSheet' = IF f = "locale" THEN "none" ELSE settingsSheet
    /\ raced' = (raced \/ Busy)
    /\ picked' = IF f = "timezone" THEN "UTC" ELSE picked
    /\ UNCHANGED <<server, getVars, syncVars, downloading, erasing>>

PatchHandled(p) ==
    /\ p \in patches /\ ~p.handled
    /\ server' = [server EXCEPT ![p.field] = p.value]
    /\ patches' = (patches \ {p}) \cup {[p EXCEPT !.handled = TRUE]}
    /\ UNCHANGED <<settings, getVars, saves, saving, syncVars, pageVars,
                   histVars>>

PatchOk(p) ==
    /\ p \in patches /\ p.handled
    /\ patches' = patches \ {p}
    /\ saving' = saving \ {p.field}
    /\ picked' = IF p.field = "timezone" THEN p.value ELSE picked
    /\ UNCHANGED <<server, settings, getVars, saves, syncVars, pageVars, raced>>

PatchFailsKept(p) ==   \* mutant: the optimistic value stays
    /\ p \in patches
    /\ patches' = patches \ {p}
    /\ saving' = saving \ {p.field}
    /\ raced' = (raced \/ p.handled)
    /\ UNCHANGED <<server, settings, getVars, saves, syncVars, pageVars, picked>>

(* Refused, or its answer lost.                                            *)
PatchFails(p) ==
    /\ p \in patches
    /\ patches' = patches \ {p}
    /\ saving' = saving \ {p.field}
    /\ settings' = p.prev
    /\ raced' = (raced \/ p.handled)
    /\ UNCHANGED <<server, getVars, saves, syncVars, pageVars, picked>>

-----------------------------------------------------------------------------
(* PrivacySheet.                                                           *)
HandleDownload ==
    /\ settingsSheet = "privacy" /\ erasing = "no"
    /\ downloading' = ~downloading   \* sent, and settled one way or the other
    /\ UNCHANGED <<server, settings, getVars, patchVars, syncVars,
                   settingsSheet, erasing, histVars>>

HandleDeleteRequest ==
    /\ settingsSheet = "privacy" /\ erasing = "no"
    /\ erasing' = "asked"
    /\ UNCHANGED <<server, settings, getVars, patchVars, syncVars,
                   settingsSheet, downloading, histVars>>

AnswerDialog(confirmed) ==
    /\ erasing = "asked"
    /\ erasing' = IF confirmed THEN "sent" ELSE "no"
    /\ UNCHANGED <<server, settings, getVars, patchVars, syncVars,
                   settingsSheet, downloading, histVars>>

(* The row goes; the next request that authenticates makes a fresh one.    *)
DeleteAnswered(ok) ==
    /\ erasing = "sent"
    /\ erasing' = IF ok THEN "done" ELSE "no"
    /\ server' = IF ok THEN Defaults ELSE server
    /\ UNCHANGED <<settings, getVars, patchVars, syncVars, settingsSheet,
                   downloading, histVars>>

SettingsNext ==
    \/ FetchProfile \/ ProfileRead \/ ProfileAnswered \/ ProfileFails
    \/ SyncSends \/ SyncHandled \/ SyncOk
    \/ \E refused \in BOOLEAN : SyncFails(refused)
    \/ \E s \in {"language", "notifications", "privacy"} : OpenSettingsSheet(s)
    \/ CloseSettingsSheet
    \/ \E f \in Fields, v \in Values : SaveSetting(f, v)
    \/ \E p \in patches : PatchHandled(p) \/ PatchOk(p) \/ PatchFails(p)
    \/ HandleDownload \/ HandleDeleteRequest
    \/ \E yes \in BOOLEAN : AnswerDialog(yes) \/ DeleteAnswered(yes)

SettingsSpec == SettingsInit /\ [][SettingsNext]_settingsVars

-----------------------------------------------------------------------------
SettingsTypeOK ==
    /\ server \in [Fields -> Values] /\ settings \in [Fields -> Values]
    /\ profile \in {"idle", "sent", "read"} /\ snapshot \in [Fields -> Values]
    /\ profiles \in 0 .. MaxProfiles /\ landed \in BOOLEAN
    /\ patches \subseteq Patches /\ saves \in 0 .. MaxPatches
    /\ saving \subseteq Guarded
    /\ sync \in {"off", "due", "sent", "handled"} /\ attempt \in 0 .. Attempts
    /\ settingsSheet \in {"none", "language", "notifications", "privacy"}
    /\ downloading \in BOOLEAN /\ erasing \in {"no", "asked", "sent", "done"}
    /\ raced \in BOOLEAN /\ picked \in Values

(* As long as requests came one at a time and none was lost, the settings  *)
(* page tells what the backend has, after refusals and syncs too.          *)
QuietStoreIsTrue ==
    landed /\ ~raced /\ ~Busy /\ erasing # "done" => settings = server

(* A zone the user picked and saw confirmed is not replaced by the one the *)
(* client detects.                                                         *)
PickedZoneKept ==
    picked # "UTC" /\ ~Busy /\ erasing # "done" => server["timezone"] = picked
=============================================================================
