----------------------------- MODULE Availability -----------------------------
(***************************************************************************)
(* "Available now" (lib/availability.ts, and the part of                   *)
(* services/products.ts that uses it): listProducts hides a product        *)
(* outside its availability window, with a filter evaluated by MongoDB on  *)
(* the branch's local clock, and takes the branch's time zone from a cache *)
(* that each container keeps for TIMEZONE_CACHE_TTL.                       *)
(*                                                                         *)
(* Time is counted in ticks, DAY of them a day; a time zone is the ticks   *)
(* it is ahead of UTC.  HH:mm strings, two digits each, compare as the     *)
(* ticks they stand for.  One branch, one product, one container.          *)
(*                                                                         *)
(* `zoneAge' and `answer' are history: no guard reads them.                *)
(***************************************************************************)
EXTENDS Integers

CONSTANTS DAY,
          Zones,              \* time zones of a branch
          DEFAULT_TIMEZONE,   \* that of a branch without one
          Windows,            \* the availability windows a product is given
          Always,             \* no availabilityWindow
          TIMEZONE_CACHE_TTL

Days   == 0..6
Window == [daysOfWeek : SUBSET Days, from : 0..(DAY - 1), to : 0..(DAY - 1)]

ASSUME AvailabilityAssumption ==
    /\ DAY \in Nat \ {0}
    /\ Zones \subseteq Int /\ DEFAULT_TIMEZONE \in Int
    /\ Windows \subseteq Window /\ Always \notin Window
    /\ TIMEZONE_CACHE_TTL \in Nat \ {0}

VARIABLES
    utc,        \* the clock: ticks since Sunday, 0:00
    timezone,   \* the branch's time zone
    cachedZone, \* branchTimezoneCache: its value, and the ticks until it expires
    ttl,
    window,     \* the product's availabilityWindow, or Always
    zoneAge,    \* history: ticks since the branch's zone changed, up to the TTL
    answer      \* history: what the last step was told of the product, if it listed

availabilityVars == <<utc, timezone, cachedZone, ttl, window, zoneAge, answer>>

Clock == [dayOfWeek : Days, minute : 0..(DAY - 1)]

AvailabilityTypeOK ==
    /\ utc \in 0..(7 * DAY - 1)
    /\ timezone \in Int /\ cachedZone \in Int
    /\ ttl \in 0..TIMEZONE_CACHE_TTL /\ zoneAge \in 0..TIMEZONE_CACHE_TTL
    /\ window \in Window \cup {Always}
    /\ answer \in {"none", "listed", "hidden"}

\* getLocalDateTime.
LocalDateTime(zone, now) ==
    LET local == (now + zone) % (7 * DAY) IN
    [dayOfWeek |-> local \div DAY, minute |-> local % DAY]

PreviousDay(d) == (d + 6) % 7

\* The JavaScript reading of a window, which no handler uses any more.
isWithinAvailabilityWindow(w, local) ==
    IF w.to > w.from
      THEN local.dayOfWeek \in w.daysOfWeek /\ local.minute >= w.from /\ local.minute < w.to
      ELSE \/ local.dayOfWeek \in w.daysOfWeek /\ local.minute >= w.from
           \/ PreviousDay(local.dayOfWeek) \in w.daysOfWeek /\ local.minute < w.to

\* Fault: the morning half is looked up under its own day.
buildActiveNowMongoFilterSameDay(w, local) ==
    \/ w = Always
    \/ local.dayOfWeek \in w.daysOfWeek /\ w.from < w.to /\ w.from <= local.minute /\ w.to > local.minute
    \/ local.dayOfWeek \in w.daysOfWeek /\ w.from >= w.to /\ local.minute >= w.from
    \/ local.dayOfWeek \in w.daysOfWeek /\ w.from >= w.to /\ local.minute < w.to

\* The $or of the query, its four branches.
buildActiveNowMongoFilter(w, local) ==
    \/ w = Always
    \/ local.dayOfWeek \in w.daysOfWeek /\ w.from < w.to /\ w.from <= local.minute /\ w.to > local.minute
    \/ local.dayOfWeek \in w.daysOfWeek /\ w.from >= w.to /\ local.minute >= w.from
    \/ /\ PreviousDay(local.dayOfWeek) \in w.daysOfWeek
       /\ w.from >= w.to /\ local.minute < w.to

AvailabilityInit ==
    /\ utc = 0
    /\ timezone = DEFAULT_TIMEZONE
    /\ cachedZone = DEFAULT_TIMEZONE /\ ttl = 0
    /\ window = Always
    /\ zoneAge = TIMEZONE_CACHE_TTL
    /\ answer = "none"

Tick ==
    /\ utc' = (utc + 1) % (7 * DAY)
    /\ ttl' = IF ttl > 0 THEN ttl - 1 ELSE 0
    /\ zoneAge' = IF zoneAge < TIMEZONE_CACHE_TTL THEN zoneAge + 1 ELSE zoneAge
    /\ answer' = "none"
    /\ UNCHANGED <<timezone, cachedZone, window>>

\* Whoever administers the branch; no operation of the API does.
SetTimezone(zone) ==
    /\ zone # timezone
    /\ timezone' = zone
    /\ zoneAge' = 0
    /\ answer' = "none"
    /\ UNCHANGED <<utc, cachedZone, ttl, window>>

\* createProduct; updateProduct takes no window away.
SetWindow(w) ==
    /\ window' = w
    /\ answer' = "none"
    /\ UNCHANGED <<utc, timezone, cachedZone, ttl, zoneAge>>

\* getBranchTimezone and listProducts with activeNow.
ListActiveNow ==
    LET zone == IF ttl > 0 THEN cachedZone ELSE timezone IN
    /\ IF ttl > 0 THEN UNCHANGED <<cachedZone, ttl>>
       ELSE cachedZone' = timezone /\ ttl' = TIMEZONE_CACHE_TTL
    /\ answer' = IF buildActiveNowMongoFilter(window, LocalDateTime(zone, utc))
                   THEN "listed" ELSE "hidden"
    /\ UNCHANGED <<utc, timezone, window, zoneAge>>

AvailabilityNext ==
    \/ Tick \/ ListActiveNow
    \/ \E zone \in Zones : SetTimezone(zone)
    \/ \E w \in Windows : SetWindow(w)

AvailabilitySpec == AvailabilityInit /\ [][AvailabilityNext]_availabilityVars

----------------------------------------------------------------------------
\* "Mirrors isWithinAvailabilityWindow so the JS and DB code paths agree": a product is
\* listed exactly when its window, read on the branch's own clock, is open - unless the
\* branch's time zone changed less than a cache life ago.
ListedIffOpen ==
    answer # "none" /\ zoneAge = TIMEZONE_CACHE_TTL =>
        (answer = "listed" <=>
            \/ window = Always
            \/ isWithinAvailabilityWindow(window, LocalDateTime(timezone, utc)))
=============================================================================
