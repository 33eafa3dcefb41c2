-------------------------------- MODULE Alert --------------------------------
(***************************************************************************)
(* The alert path to the DingTalk robot. Four callers raise an alert:     *)
(* the panic recovery middleware and the gorm logger (SendAlarm of the     *)
(* dingtalk tool), the MQ client's ErrorNotify (also SendAlarm), and       *)
(* thread.recoverLog (SendText on the notifier's robot). Each alert is a   *)
(* synchronous SendText: sign, marshal, one POST on the robot's            *)
(* http.Client, whose 10 s Timeout bounds the wait. The caller continues    *)
(* (the middleware writes its 500 answer) only when the call returns.     *)
(* Time is counted in seconds up to MaxWait.                               *)
(***************************************************************************)
EXTENDS Naturals

CONSTANTS
    Envs,           \* App.Env values, "local" among them
    MaxWait         \* bound: seconds one alert may wait for DingTalk

VARIABLES
    acaller,    \* the caller of this behaviour's alert, or "none"
    astage,     \* "idle", "posting" while Do waits, "returned", "answered"
    aelapsed,   \* seconds since the POST was sent
    aoutcome    \* "none", "skipped", "nil", "error" or "timeout"

alertVars == <<acaller, astage, aelapsed, aoutcome>>

Init == acaller = "none" /\ astage = "idle" /\ aelapsed = 0 /\ aoutcome = "none"

-----------------------------------------------------------------------------
(* NewRobot: every robot's http.Client has a 10 second Timeout.            *)
RobotTimeout == 10

(* sign and sendMessage up to Do: the timestamp and HMAC-SHA256 signature  *)
(* are appended to the webhook, the message is marshalled, the request     *)
(* built with Content-Type json; none of these fails for a text message   *)
(* and the constant webhook URL.                                           *)
Post(c) ==
    /\ acaller' = c /\ astage' = "posting" /\ aelapsed' = 0 /\ aoutcome' = "none"

(* A call that returns without posting.                                    *)
Return(c, outcome) ==
    /\ acaller' = c /\ astage' = "returned" /\ aelapsed' = 0 /\ aoutcome' = outcome

(* Dingtalk.SendAlarm: nothing in the local environment, an error without *)
(* a robot, otherwise SendText.                                            *)
SendAlarm(c) ==
    \E env \in Envs, robot \in BOOLEAN :
        CASE env = "local" -> Return(c, "skipped")
          [] ~robot        -> Return(c, "error")
          [] OTHER         -> Post(c)

(* The recovery middleware and the gorm logger's Trace call SendAlarm     *)
(* (the logger only when DingtalkTool is set).                             *)
Recovery == astage = "idle" /\ SendAlarm("recovery")
SqlLogger ==
    /\ astage = "idle"
    /\ \E toolSet \in BOOLEAN :
         IF toolSet THEN SendAlarm("sqlLogger") ELSE Return("sqlLogger", "skipped")

(* Client.ErrorNotify: logs, then SendAlarm unless no tool was set.       *)
ErrorNotify ==
    /\ astage = "idle"
    /\ \E toolSet \in BOOLEAN :
         IF toolSet THEN SendAlarm("mqClient") ELSE Return("mqClient", "skipped")

(* recoverLog after a recovered panic: logs, then SendText on the          *)
(* notifier's robot if SetNotifier was called (in every environment).     *)
RecoverLog ==
    /\ astage = "idle"
    /\ \E notifierSet \in BOOLEAN :
         IF notifierSet THEN Post("recoverLog") ELSE Return("recoverLog", "skipped")

(* DingTalk has not answered and the client's Timeout has not passed.     *)
Wait ==
    /\ astage = "posting"
    /\ aelapsed < MaxWait
    /\ RobotTimeout = 0 \/ aelapsed < RobotTimeout
    /\ aelapsed' = aelapsed + 1
    /\ UNCHANGED <<acaller, astage, aoutcome>>

(* Do returns: a transport error, a non-200 status (an error), or 200     *)
(* (nil, whatever the body says).                                          *)
Answer ==
    /\ astage = "posting"
    /\ \E outcome \in {"nil", "error"} : aoutcome' = outcome
    /\ astage' = "returned"
    /\ UNCHANGED <<acaller, aelapsed>>

(* The client's Timeout expires and Do returns its error.                  *)
Expire ==
    /\ astage = "posting"
    /\ RobotTimeout > 0 /\ aelapsed >= RobotTimeout
    /\ astage' = "returned" /\ aoutcome' = "timeout"
    /\ UNCHANGED <<acaller, aelapsed>>

(* The caller goes on: the middleware logs a failed alert and aborts with  *)
(* its 500 body; the others log the error.                                 *)
Resume ==
    /\ astage = "returned"
    /\ astage' = "answered"
    /\ UNCHANGED <<acaller, aelapsed, aoutcome>>

Next == Recovery \/ SqlLogger \/ ErrorNotify \/ RecoverLog \/ Wait \/ Answer \/ Expire \/ Resume
=============================================================================
