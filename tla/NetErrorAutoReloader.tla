----------------------- MODULE NetErrorAutoReloader -----------------------
(***************************************************************************)
(* NetErrorAutoReloader (muim/error_loader.cpp): reloads an error page     *)
(* after growing delays, while the page is visible and the network is up,  *)
(* and hides the error page of a reload that fails in the same way.        *)
(*                                                                         *)
(* Everything runs on the UI thread.  Navigations of the primary main frame*)
(* overlap; their start, failure and end come from the content layer,      *)
(* which is not part of the repository.                                    *)
(***************************************************************************)
EXTENDS Naturals, FiniteSets

CONSTANTS
    Handles,      \* navigation handles that may be in flight together
    Urls,         \* addresses
    Errors,       \* net errors ShouldAutoReload accepts
    NoValue,      \* an empty optional
    LastDelay     \* index of the last entry of kDelays

ASSUME DelayAssumption == LastDelay \in Nat
ASSUME NoValueAssumption == NoValue \notin [url : Urls, error : Errors]

VARIABLES
    nav,          \* the navigation of each handle
    pending,      \* keys of pending_navigations_
    suppressed,   \* those marked IsSuppressedErrorPage(true)
    timer,        \* next_reload_timer_: none, running, or fired but not reset
    count,        \* num_reloads_for_current_error_, up to the last delay
    inProgress,   \* is_auto_reload_in_progress_
    page,         \* current_reloadable_error_page_info_
    online,       \* is_online_
    visible,      \* IsWebContentsVisible()
    reloading,    \* Reload() was called and its navigation has not started
    abandoned     \* history: the page was left without a timer on purpose

reloaderVars == <<nav, pending, suppressed, timer, count, inProgress, page, online, visible,
                  reloading, abandoned>>

Idle == [phase |-> "idle", url |-> NoValue, reload |-> FALSE, throttle |-> FALSE, error |-> NoValue]
Navs == [phase : {"idle", "started", "failed", "cancelled"}, url : Urls \cup {NoValue},
         reload : BOOLEAN, throttle : BOOLEAN, error : Errors \cup {NoValue}]
Pages == [url : Urls, error : Errors]

InFlight(h) == nav[h].phase # "idle"

\* The reloader is created by the first navigation of the page, after that one
\* has started: it is not among the pending ones.
ReloaderInit ==
    /\ \E h \in Handles, u \in Urls :
          nav = [k \in Handles |->
                    IF k = h THEN [Idle EXCEPT !.phase = "started", !.url = u] ELSE Idle]
    /\ pending = {} /\ suppressed = {} /\ timer = "none" /\ count = 0
    /\ inProgress = FALSE /\ page = NoValue /\ reloading = FALSE /\ abandoned = FALSE
    /\ online \in BOOLEAN /\ visible \in BOOLEAN

-----------------------------------------------------------------------------
(* The timer *)

\* ScheduleNextAutoReload starts the timer, if it may.
ScheduleNextAutoReload(isOnline, isVisible) == isOnline /\ isVisible

\* Reset clears everything about the current error page.
Reset ==
    /\ timer' = "none" /\ count' = 0 /\ inProgress' = FALSE /\ page' = NoValue /\ abandoned' = FALSE

\* Mutant: a finished navigation is not waited for.
ResumesEarly == page # NoValue /\ timer = "none"

Resumes == page # NoValue /\ timer = "none" /\ pending = {}

\* OnVisibilityChanged and OnConnectionChanged: pause, or resume if no
\* navigation is pending.  Another kind of network, or a window that is only
\* covered, is notified too and resumes the timer alike.
Changed(isOnline, isVisible, on) ==
    /\ timer' = IF ~on THEN "none"
                ELSE IF Resumes /\ ScheduleNextAutoReload(isOnline, isVisible) THEN "running"
                ELSE timer
    /\ abandoned' = (abandoned /\ timer' # "running")
    /\ UNCHANGED <<nav, pending, suppressed, count, inProgress, page, reloading>>

OnVisibilityChanged ==
    /\ visible' \in BOOLEAN
    /\ Changed(online, visible', visible')
    /\ UNCHANGED online

OnConnectionChanged ==
    /\ online' \in BOOLEAN
    /\ Changed(online', visible, online')
    /\ UNCHANGED visible

\* Mutant: the delay never grows.
GrowNot == count

Grow == IF count < LastDelay THEN count + 1 ELSE count

\* The timer fires; the optional that holds it stays engaged.
ReloadMainFrame ==
    /\ timer = "running"
    /\ timer' = "fired"
    /\ count' = Grow /\ inProgress' = TRUE /\ reloading' = TRUE
    /\ UNCHANGED <<nav, pending, suppressed, page, online, visible, abandoned>>

-----------------------------------------------------------------------------
(* Navigations *)

\* MaybeCreateAndAdd: an automatic reload of the error page gets the throttle.
MaybeCreateAndAdd(u) == page # NoValue /\ page.url = u /\ inProgress

\* DidStartNavigation, and the throttles that are asked for next.
DidStartNavigation(h, u, reload) ==
    /\ ~InFlight(h)
    /\ timer' = "none"
    /\ pending' = pending \cup {h}
    /\ nav' = [nav EXCEPT ![h] = [phase |-> "started", url |-> u, reload |-> reload,
                                  throttle |-> MaybeCreateAndAdd(u), error |-> NoValue]]
    /\ UNCHANGED <<suppressed, count, inProgress, page, online, visible, abandoned>>

\* The navigation Reload() asked for, to the address of the page shown.  That is
\* not always page.url: a reload that was redirected before it failed in the same
\* way keeps the old one there.
StartReload(h) ==
    /\ reloading /\ reloading' = FALSE
    /\ \E u \in Urls : DidStartNavigation(h, u, TRUE)

StartOther(h) ==
    /\ \E u \in Urls, reload \in BOOLEAN : DidStartNavigation(h, u, reload)
    /\ UNCHANGED reloading

\* A redirect changes the address of the navigation.
Redirect(h) ==
    /\ nav[h].phase = "started"
    /\ \E u \in Urls \ {nav[h].url} : nav' = [nav EXCEPT ![h].url = u]
    /\ UNCHANGED <<pending, suppressed, timer, count, inProgress, page, online, visible,
                   reloading, abandoned>>

ShouldSuppressErrorPage(h, e) ==
    page # NoValue /\ page.url = nav[h].url /\ page.error = e

\* The request fails; the throttle may hide the error page and cancel.
WillFailRequest(h) ==
    /\ nav[h].phase = "started"
    /\ \E e \in Errors :
          LET hide == nav[h].throttle /\ ShouldSuppressErrorPage(h, e)
          IN  /\ nav' = [nav EXCEPT ![h].phase = IF hide THEN "cancelled" ELSE "failed",
                                    ![h].error = e]
              /\ suppressed' = IF hide THEN suppressed \cup {h} ELSE suppressed
    /\ UNCHANGED <<pending, timer, count, inProgress, page, online, visible, reloading, abandoned>>

\* What every DidFinishNavigation does first.
Finished(h) ==
    /\ pending' = pending \ {h} /\ suppressed' = suppressed \ {h}
    /\ nav' = [nav EXCEPT ![h] = Idle]
    /\ UNCHANGED <<online, visible, reloading>>

\* Mutant: a suppressed failure schedules nothing.
ReschedulesNever(h) == FALSE

Reschedules(h) == h \in suppressed

\* DidFinishNavigation, not committed: the throttle or the user cancelled it.
FinishUncommitted(h) ==
    /\ InFlight(h)
    /\ Finished(h)
    /\ IF pending' # {} \/ page = NoValue THEN UNCHANGED <<timer, inProgress, abandoned>>
       ELSE /\ inProgress' = FALSE
            /\ timer' = IF Reschedules(h) /\ ScheduleNextAutoReload(online, visible)
                        THEN "running" ELSE timer
            /\ abandoned' = (h \notin suppressed)
    /\ UNCHANGED <<count, page>>

\* DidFinishNavigation, committed, with a page that is not reloaded: a good one,
\* or an error ShouldAutoReload refuses (a POST, say).
FinishGood(h) ==
    /\ nav[h].phase \in {"started", "failed"}
    /\ Finished(h)
    /\ Reset

\* DidFinishNavigation, committed, with an error page to be reloaded.
FinishError(h) ==
    LET same == nav[h].reload /\ page # NoValue /\ page.error = nav[h].error
    IN  /\ nav[h].phase = "failed"
        /\ Finished(h)
        /\ IF same THEN UNCHANGED <<count, inProgress, page>>
           ELSE /\ page' = [url |-> nav[h].url, error |-> nav[h].error]
                /\ count' = 0 /\ inProgress' = FALSE
        /\ timer' = IF pending' = {} /\ ScheduleNextAutoReload(online, visible) THEN "running"
                    ELSE IF same THEN timer ELSE "none"
        /\ abandoned' = FALSE

NavigationStopped ==
    /\ Reset
    /\ UNCHANGED <<nav, pending, suppressed, online, visible, reloading>>

Finishes(h) == FinishUncommitted(h) \/ FinishGood(h) \/ FinishError(h)

ReloaderNext ==
    \/ \E h \in Handles : \/ StartReload(h) \/ StartOther(h) \/ Redirect(h)
                         \/ WillFailRequest(h) \/ Finishes(h)
    \/ ReloadMainFrame \/ NavigationStopped
    \/ OnVisibilityChanged \/ OnConnectionChanged

\* A navigation ends, a timer fires, and Reload() starts its navigation; the
\* user, the network and the window are free.
Fairness ==
    /\ \A h \in Handles : WF_reloaderVars(Finishes(h))
    /\ WF_reloaderVars(ReloadMainFrame)
    /\ WF_reloaderVars(\E h \in Handles : StartReload(h))

ReloaderSpec == ReloaderInit /\ [][ReloaderNext]_reloaderVars /\ Fairness

-----------------------------------------------------------------------------

ReloaderTypeOK ==
    /\ nav \in [Handles -> Navs] /\ pending \subseteq Handles
    /\ timer \in {"none", "running", "fired"} /\ count \in 0 .. LastDelay
    /\ inProgress \in BOOLEAN /\ page \in Pages \cup {NoValue}
    /\ online \in BOOLEAN /\ visible \in BOOLEAN
    /\ reloading \in BOOLEAN /\ abandoned \in BOOLEAN
    \* ShouldSuppressErrorPage asserts that the navigation is pending.
    /\ suppressed \subseteq pending

\* The timer runs only for an error page that is visible, with the network up
\* and no navigation that could replace it: ReloadMainFrame's assertion holds
\* and its early return is never taken.
TimerOnlyWhenUseful ==
    /\ ReloaderTypeOK
    /\ timer = "running" => page # NoValue /\ online /\ visible /\ pending = {}

\* No error page is forgotten: with the network up, the page visible and nothing
\* pending a reload is scheduled or asked for, unless a navigation of the user
\* came to nothing on this page.
NoForgottenPage ==
    page # NoValue /\ online /\ visible /\ pending = {} =>
        timer # "none" \/ reloading \/ abandoned

\* An error page that stays on show, with the network up and the page visible
\* and no navigations but its automatic reloads, is reloaded again and again,
\* and the delay between the reloads grows to the longest one and stays there.
KeepsTrying ==
    \A p \in Pages :
        <>[](page = p /\ online /\ visible /\ ~abandoned)
                /\ <>[][\A h \in Handles : ~StartOther(h)]_reloaderVars
            => []<>(timer = "fired") /\ <>[](count = LastDelay)

=============================================================================
