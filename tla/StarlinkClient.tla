--------------------------- MODULE StarlinkClient ---------------------------
(***************************************************************************)
(* telemetry/collector/starlink_grpc.py: the client of the dish.  One      *)
(* caller at a time asks for the status, which is cached for Ttl, or       *)
(* whether the dish is available.  A fetch tries the two tiers one after   *)
(* the other; each has a timeout.  The second cannot read any answer: it   *)
(* takes what grpc returns, a pair, for three values, and swallows the     *)
(* error.  Time is kept as ages, up to AgeMax; the stamp of the cache is   *)
(* read off the clock of the host, which may be set back at any time.  The *)
(* fields of a status are left out.                                        *)
(***************************************************************************)
EXTENDS Integers

CONSTANTS
    Installed,      \* the tiers whose packages can be imported
    Ttl,            \* cache_ttl
    TierTime,       \* the timeout of a tier
    AgeMax          \* bound: ages are not told apart beyond it

ASSUME ClientAssumption ==
    /\ Installed \subseteq {"tools", "raw"}
    /\ Ttl \in Nat /\ TierTime \in Nat /\ AgeMax \in Nat /\ Ttl <= AgeMax

VARIABLES
    dishUp,     \* the dish answers requests
    call,       \* the call that runs, or "idle"
    tier,       \* the tier it has come to
    spent,      \* the time the tier has taken
    sampled,    \* the age of the dish's answer that is on its way, or None
    called,     \* the clock's time less now, the time of the call
    cache,      \* _cache: the age of the status, or None
    stamp,      \* the clock's time less _cache_time
    available,  \* _available
    answer,     \* what the last get_status has returned
    setBack     \* history: which of the stamps, that of the cache and that of
                \* the call, the clock was set back since

dishVars == <<dishUp, call, tier, spent, sampled, called, cache, stamp, available, answer, setBack>>

NoAge == -1
Older(a) == IF a = NoAge \/ a = AgeMax THEN a ELSE a + 1
Later(t) == IF t = AgeMax THEN t ELSE t + 1

DishInit ==
    /\ dishUp \in BOOLEAN
    /\ call = "idle" /\ tier = "tools" /\ spent = 0 /\ sampled = NoAge /\ called = 0
    /\ cache = NoAge /\ stamp = 0 /\ setBack = {}
    /\ available = "untested" /\ answer = "untested"

Fetch(c) ==
    /\ call' = c /\ tier' = "tools"
    /\ spent' = 0 /\ sampled' = NoAge
    /\ called' = 0 /\ setBack' = setBack \ {"call"}

Fresh == cache # NoAge /\ stamp < Ttl

\* get_status from the cache.
GetCached ==
    /\ call = "idle" /\ Fresh
    /\ answer' = "cached"
    /\ UNCHANGED <<dishUp, call, tier, spent, sampled, called, cache, stamp, available, setBack>>

\* Mutant of GetStatus: a dish known to be unavailable is not asked again.
GetStatusIfAvailable ==
    \/ GetCached
    \/ /\ call = "idle" /\ ~Fresh /\ available # "no"
       /\ Fetch("get_status")
       /\ UNCHANGED <<dishUp, cache, stamp, available, answer>>

GetStatus ==
    \/ GetCached
    \/ /\ call = "idle" /\ ~Fresh
       /\ Fetch("get_status")
       /\ UNCHANGED <<dishUp, cache, stamp, available, answer>>

\* is_available: the first answer, or that of the last get_status, is kept.
IsAvailable ==
    /\ call = "idle" /\ available = "untested"
    /\ Fetch("is_available")
    /\ UNCHANGED <<dishUp, cache, stamp, available, answer>>

\* The dish takes its status and sends it.
DishAnswers ==
    /\ call # "idle" /\ tier \in Installed /\ dishUp /\ sampled = NoAge
    /\ sampled' = 0
    /\ UNCHANGED <<dishUp, call, tier, spent, called, cache, stamp, available, answer, setBack>>

\* Mutant of StampOfCache: the time when the fetch is over.
StampAfterFetch == 0

\* _cache_time is the time before the fetch.
StampOfCache == called

\* The first tier returns a status; only get_status keeps it.
Succeed ==
    /\ call # "idle" /\ tier = "tools" /\ sampled # NoAge
    /\ available' = "yes"
    /\ IF call = "get_status"
       THEN /\ cache' = sampled /\ stamp' = StampOfCache
            /\ setBack' = IF "call" \in setBack THEN {"call", "cache"} ELSE {}
            /\ answer' = "fresh"
       ELSE UNCHANGED <<cache, stamp, setBack, answer>>
    /\ call' = "idle" /\ sampled' = NoAge
    /\ UNCHANGED <<dishUp, tier, spent, called>>

\* Mutant of NoteFailure: only a success is noted.
NoteNothing == UNCHANGED available

NoteFailure == available' = "no"

\* A tier that is not installed, is refused, times out or cannot read the
\* answer, as the first may and the second always does, gives way to the next,
\* and the last to None.
TierFails ==
    /\ call # "idle"
    /\ tier \notin Installed \/ ~dishUp \/ spent = TierTime \/ sampled # NoAge
    /\ sampled' = NoAge /\ spent' = 0
    /\ IF tier = "tools"
       THEN tier' = "raw" /\ UNCHANGED <<call, available, answer>>
       ELSE /\ call' = "idle" /\ NoteFailure
            /\ answer' = IF call = "get_status" THEN "none" ELSE answer
            /\ UNCHANGED tier
    /\ UNCHANGED <<dishUp, called, cache, stamp, setBack>>

Tick ==
    /\ call = "idle" \/ spent < TierTime
    /\ cache' = Older(cache) /\ sampled' = Older(sampled)
    /\ stamp' = Later(stamp)
    /\ called' = IF call = "idle" THEN called ELSE Later(called)
    /\ spent' = IF call = "idle" THEN spent ELSE spent + 1
    /\ UNCHANGED <<dishUp, call, tier, available, answer, setBack>>

DishChanges ==
    /\ dishUp' = ~dishUp
    /\ UNCHANGED <<call, tier, spent, sampled, called, cache, stamp, available, answer, setBack>>

\* Somebody sets the clock of the host back, also while a fetch runs; it is
\* not set back twice since the same stamp.
ClockSetBack ==
    LET stamps == IF call = "idle" THEN {"cache"} ELSE {"cache", "call"} IN
    /\ setBack \cap stamps = {}
    /\ setBack' = setBack \cup stamps
    /\ stamp' = stamp - AgeMax
    /\ called' = IF call = "idle" THEN called ELSE called - AgeMax
    /\ UNCHANGED <<dishUp, call, tier, spent, sampled, cache, available, answer>>

DishStep == DishAnswers \/ Succeed \/ TierFails
DishNext == GetStatus \/ IsAvailable \/ DishStep \/ Tick \/ DishChanges \/ ClockSetBack

\* Somebody polls the status again and again, and a fetch comes to an end.
DishFairness == WF_dishVars(GetStatus) /\ WF_dishVars(DishAnswers \/ Succeed) /\ WF_dishVars(TierFails)
DishSpec == DishInit /\ [][DishNext]_dishVars /\ DishFairness

DishTypeOK ==
    /\ dishUp \in BOOLEAN /\ setBack \subseteq {"cache", "call"}
    /\ call \in {"idle", "get_status", "is_available"} /\ tier \in {"tools", "raw"}
    /\ spent \in 0..TierTime /\ sampled \in NoAge..AgeMax /\ cache \in NoAge..AgeMax
    /\ called \in (0 - AgeMax)..AgeMax /\ stamp \in (0 - AgeMax)..AgeMax
    /\ available \in {"untested", "yes", "no"}
    /\ answer \in {"untested", "cached", "fresh", "none"}

\* A status from the cache was taken by the dish less than the time to live
\* ago, though the fetch that brought it may have taken longer than that,
\* unless the clock was set back since that fetch began
\* (starlink_grpc.py:308-320).
CachedAnswerIsFresh == [][GetCached => cache < Ttl \/ "cache" \in setBack]_dishVars

\* The two questions agree: the dish is available exactly when the last
\* get_status, if there was one, has returned a status, also when is_available
\* was asked first, and when a fetch failed while an older status was cached,
\* unless the clock was set back (starlink_grpc.py:293-320).
AnswersAgree ==
    answer # "untested" /\ "cache" \notin setBack =>
        (available = "yes" <=> answer \in {"cached", "fresh"})

\* A dish that is back, answers in time and is understood is found again,
\* however often it was found to be unavailable before, if the stubs of the
\* first tier are installed (starlink_grpc.py:308-320).  Without them it is
\* never found: the second tier reads no answer (starlink_grpc.py:242).
DishIsFoundAgain ==
    /\ "tools" \in Installed
    /\ <>[](dishUp /\ spent < TierTime)
    /\ <>[][~(tier = "tools" /\ sampled # NoAge /\ TierFails)]_dishVars
    => <>[](answer \in {"cached", "fresh"})
=============================================================================
