------------------------------- MODULE SysCache -------------------------------
(***************************************************************************)
(* What crash/cache/syscache.py keeps of the kernel: the configuration,    *)
(* the jiffies and the uptime (CrashConfigCache, CrashKernelCache).        *)
(*                                                                         *)
(* The jiffies arrive through callbacks for two symbols.  The class keeps  *)
(* the flag _reset_uptime; the first uptime sets an attribute of the same  *)
(* name on the instance, which from then on hides the flag of the class.   *)
(***************************************************************************)
EXTENDS Integers

CONSTANTS
    Hertz,          \* the values CONFIG_HZ may have
    Seconds,        \* how long the system may have been up
    Wrap,           \* stands for 2^32
    Grace           \* stands for the 300 seconds before jiffies wrap first

ConstantsOK == /\ Hertz \subseteq Nat \ {0} /\ Seconds \subseteq Nat
               /\ Wrap \in Nat /\ Grace \in Nat

VARIABLES
    system,         \* the dump: HZ, uptime, which symbols and data it has
    configured,     \* _ikconfig_cache is filled
    jiffies,        \* the DelayedValue _jiffies_dv, or NoValue
    _adjust_jiffies,
    resetOnClass, resetOnInstance,      \* _reset_uptime: TRUE, FALSE or absent
    _hz, _uptime,
    shown,          \* the uptime shown since the jiffies were last set, or NoValue
    time,           \* the uptime that the jiffies in force stand for
    late            \* they were set when an uptime had been worked out already

vars == <<system, configured, jiffies, _adjust_jiffies, resetOnClass,
          resetOnInstance, _hz, _uptime, shown, time, late>>
clock == <<jiffies, _adjust_jiffies, resetOnClass>>

NoValue == -1
Systems == [hz : Hertz, up : Seconds, has64 : BOOLEAN, readable64 : BOOLEAN,
            config : {"good", "no HZ", "bad magic", "none"}]

Start ==
    /\ configured = FALSE
    /\ jiffies = NoValue /\ _adjust_jiffies = FALSE
    /\ resetOnClass = TRUE /\ resetOnInstance = "absent"
    /\ _hz = NoValue /\ _uptime = 0
    /\ shown = NoValue /\ time = system.up /\ late = FALSE
\* The counters after `up' seconds: jiffies_64 starts a little before 2^32.
Counter64(up) == Wrap - Grace * system.hz + up * system.hz
Counter(up) == up * system.hz

-----------------------------------------------------------------------------
set_jiffies(value, adjust) ==
    /\ jiffies' = value /\ _adjust_jiffies' = adjust /\ resetOnClass' = TRUE

\* setup_jiffies, called for `jiffies' and again for `jiffies_64' if there is one.
SetupJiffies ==
    /\ IF ~system.has64 THEN set_jiffies(Counter(system.up), FALSE)
       ELSE IF system.readable64 THEN set_jiffies(Counter64(system.up), TRUE)
       ELSE UNCHANGED clock
    /\ UNCHANGED <<system, configured, resetOnInstance, _hz, _uptime, shown, time, late>>

\* A caller puts in the counter of another uptime, as the tests do.
SetJiffies(up) ==
    /\ set_jiffies(IF _adjust_jiffies THEN Counter64(up) ELSE Counter(up), _adjust_jiffies)
    /\ time' = up /\ late' = (late \/ resetOnInstance # "absent")
    /\ shown' = NoValue
    /\ UNCHANGED <<system, configured, resetOnInstance, _hz, _uptime>>

\* hz: config['HZ'] is None if there is no such option, and int() raises.
HzKnown == _hz # NoValue \/ system.config = "good"
Hz == IF _hz # NoValue THEN _hz ELSE system.hz
NeverAdjusted(hz) == jiffies
_adjusted_jiffies(hz) == IF _adjust_jiffies THEN jiffies - (Wrap - Grace * hz) ELSE jiffies

\* The flag that Python finds: the instance's, if it has one.
_reset_uptime == IF resetOnInstance = "absent" THEN resetOnClass ELSE FALSE

(***************************************************************************)
(* uptime.  It is worked out if the flag says so, and the flag is taken    *)
(* back on the instance; the other condition compares a timedelta with 0,  *)
(* which is never true.  Without jiffies or HZ it raises an exception.     *)
(***************************************************************************)
Uptime ==
    /\ IF ~_reset_uptime
       THEN shown' = _uptime /\ UNCHANGED <<configured, _hz, _uptime, resetOnInstance>>
       ELSE IF jiffies # NoValue /\ HzKnown
       THEN /\ _hz' = Hz /\ configured' = TRUE
            /\ _uptime' = _adjusted_jiffies(Hz) \div Hz
            /\ shown' = _uptime'
            /\ resetOnInstance' = "FALSE"
       ELSE /\ configured' = (configured \/ (jiffies # NoValue /\ system.config = "no HZ"))
            /\ UNCHANGED <<_hz, _uptime, resetOnInstance, shown>>
    /\ UNCHANGED <<system, clock, time, late>>

-----------------------------------------------------------------------------
(***************************************************************************)
(* The uptime that is shown is to the second the one that the jiffies      *)
(* stand for, whichever counter the kernel has: that of the dump, or of    *)
(* what a caller has put in before the uptime was first asked for.  Of     *)
(* jiffies that are put in later this says nothing.                        *)
(***************************************************************************)
UptimeRight == shown # NoValue /\ ~late => shown = time

=============================================================================
