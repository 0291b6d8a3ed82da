------------------------------ MODULE DayTally ------------------------------
(***************************************************************************)
(* The figures the day is reported by: the running tally and list of the   *)
(* trades closed today, the basket margin of each trade, and the peak of   *)
(* the margin that was blocked at one time.  The durable rows are in       *)
(* PostgreSQL; the tally lives in memory and is fed by every close, by the *)
(* seed at boot, by the tab's own read and by the re-read after a trade is *)
(* deleted.  All of these await the store, and any of them may be under    *)
(* way while a close commits.                                              *)
(*                                                                         *)
(* Each trade that has a margin figure blocks one unit of it; a profit is  *)
(* one unit per trade, so the counts stand for the sums of the code.       *)
(***************************************************************************)
EXTENDS Naturals, FiniteSets, FiniteSetsExt

CONSTANTS DayTrades,        \* the trades
          EarlierTrades,    \* the trades an earlier process closed today
          StartTick,        \* the tick at which this process boots
          Midnight,         \* the last tick of the first day
          LastTick,         \* bound: the last tick of the clock
          MaxMarginTries,   \* MAX_ATTEMPTS of one margin capture
          MaxBackfills      \* MAX_MARGIN_BACKFILLS per position

ASSUME DayTallyAssumption ==
  /\ EarlierTrades \cap DayTrades = {}
  /\ IsFiniteSet(DayTrades) /\ IsFiniteSet(EarlierTrades)
  /\ StartTick \in 1..LastTick
  /\ {Midnight, LastTick, MaxMarginTries, MaxBackfills} \subseteq Nat \ {0}

VARIABLES
  tick,        \* the clock; its day is DayOf(tick)
  rows,        \* box_trades: trade -> [status, opened, closed, margin]
  inBook,      \* this.positions
  marginHeld,  \* the positions whose margin is known in memory
  exiting,     \* closePaperTrade per trade: "no", "asked", "committed"
  capture,     \* captureMargin per trade: 0 none, n at attempt n, then storing
  backfills,   \* marginBackfillTries
  removal,     \* deleteTrade per trade: "no", "fenced", "deleted", "recounted"
  reads,       \* reads of today's closed rows: reader -> its answer
  tally        \* the closed-today fields of the engine

dayVars == <<tick, rows, inBook, marginHeld, exiting, capture, backfills,
             removal, reads, tally>>

AllTrades == DayTrades \cup EarlierTrades
Readers == {"boot", "tab"} \cup DayTrades
NoTradeRow == [status |-> "none", opened |-> 0, closed |-> 0, margin |-> FALSE]
NoRead == [st |-> "idle", day |-> 0, rows |-> {}]
DayOf(t) == IF t > Midnight THEN 2 ELSE 1
Today == DayOf(tick)
FirstTick(day) == IF day = 1 THEN 1 ELSE Midnight + 1

\* The statuses a row may have; a deleted row is gone from the table.
RowStatus == {"none", "open", "closed", "deleted"}

DayTypeOK ==
  /\ tick \in 1..LastTick
  /\ rows \in [AllTrades -> [status : RowStatus, opened : 0..LastTick,
                             closed : 0..LastTick, margin : BOOLEAN]]
  /\ inBook \subseteq DayTrades /\ marginHeld \subseteq DayTrades
  /\ exiting \in [DayTrades -> {"no", "asked", "committed"}]
  /\ capture \in [DayTrades -> 0..(MaxMarginTries + 1)]
  /\ backfills \in [DayTrades -> 0..MaxBackfills]
  /\ removal \in [DayTrades -> {"no", "fenced", "deleted", "recounted"}]
  /\ reads \in [Readers -> [st : {"idle", "asked", "answered"}, day : 0..2,
                            rows : SUBSET AllTrades]]
  /\ tally.day \in 0..2 /\ tally.loadedFor \in 0..2
  /\ tally.count \in Nat /\ tally.margin \in Nat /\ tally.unknown \in Nat
  /\ tally.list \subseteq AllTrades

DayInit ==
  /\ tick = StartTick
  /\ \E past \in [EarlierTrades -> {[status |-> "closed", opened |-> o, closed |-> c,
                                    margin |-> m] :
                                     o \in 1..StartTick, c \in 1..StartTick, m \in BOOLEAN}] :
       /\ \A t \in EarlierTrades : past[t].opened < past[t].closed
       /\ rows = [t \in AllTrades |-> IF t \in EarlierTrades THEN past[t] ELSE NoTradeRow]
  /\ inBook = {} /\ marginHeld = {}
  /\ exiting = [t \in DayTrades |-> "no"]
  /\ capture = [t \in DayTrades |-> 0]
  /\ backfills = [t \in DayTrades |-> 0]
  /\ removal = [t \in DayTrades |-> "no"]
  /\ reads = [r \in Readers |-> IF r = "boot" THEN [NoRead EXCEPT !.st = "asked", !.day = Today]
                             ELSE NoRead]
  /\ tally = [day |-> 0, count |-> 0, margin |-> 0, unknown |-> 0,
              list |-> {}, loadedFor |-> 0]

-----------------------------------------------------------------------------
(***************************************************************************)
(* The tally.                                                              *)
(***************************************************************************)

\* A new day starts from nothing; only a roll from an earlier day counts as
\* loaded, since the first roll may follow a failed seed.
rollClosedTodayDay(y) ==
  IF y.day = Today THEN y
  ELSE [day |-> Today, count |-> 0, margin |-> 0, unknown |-> 0, list |-> {},
        loadedFor |-> IF y.day = 0 THEN y.loadedFor ELSE Today]

\* Put at the head of the list, de-duplicated: a set of ids.
recordClosedToday(y, t) == [y EXCEPT !.list = @ \cup {t}]

foldClose(y, t) ==
  LET r == rollClosedTodayDay(y)
  IN  recordClosedToday(
        [r EXCEPT !.count = @ + 1,
                  !.margin = @ + IF t \in marginHeld THEN 1 ELSE 0,
                  !.unknown = @ + IF t \in marginHeld THEN 0 ELSE 1], t)

\* The rows closed on or after the start of a day.
loadBoxTradesClosedSince(day) ==
  {t \in AllTrades : rows[t].status = "closed" /\ rows[t].closed >= FirstTick(day)}

\* Every figure is replaced by what the read found, under the read's day.
refreshClosedTodayFromDb(a) ==
  [day |-> a.day, count |-> Cardinality(a.rows),
   margin |-> Cardinality({t \in a.rows : rows[t].margin}),
   unknown |-> Cardinality({t \in a.rows : ~rows[t].margin}),
   list |-> a.rows, loadedFor |-> a.day]

\* The store evaluates the query some time after it was sent.
StoreAnswers(r) ==
  /\ reads[r].st = "asked"
  /\ reads' = [reads EXCEPT ![r].st = "answered",
                            ![r].rows = loadBoxTradesClosedSince(reads[r].day)]
  /\ UNCHANGED <<tick, rows, inBook, marginHeld, exiting, capture, backfills, removal, tally>>

Asked(day) == [NoRead EXCEPT !.st = "asked", !.day = day]

\* The seed at boot installs its answer, or fails and leaves the tally alone.
BootSeeds ==
  /\ reads["boot"].st = "answered"
  /\ reads' = [reads EXCEPT !["boot"] = NoRead]
  /\ \/ tally' = refreshClosedTodayFromDb(reads["boot"])
     \/ UNCHANGED tally
  /\ UNCHANGED <<tick, rows, inBook, marginHeld, exiting, capture, backfills, removal>>

\* The tab: served from memory once the day is loaded; otherwise it reads the
\* store, the removed cache answering nothing.
getClosedToday ==
  /\ reads["tab"].st = "idle"
  /\ tally' = rollClosedTodayDay(tally)
  /\ reads' = IF tally'.loadedFor = Today THEN reads
              ELSE [reads EXCEPT !["tab"] = Asked(Today)]
  /\ <<reads', tally'>> # <<reads, tally>>
  /\ UNCHANGED <<tick, rows, inBook, marginHeld, exiting, capture, backfills, removal>>

\* The answer is adopted only when it is at least as long as the list held.
TabAdopts ==
  /\ reads["tab"].st = "answered"
  /\ reads' = [reads EXCEPT !["tab"] = NoRead]
  /\ tally' = IF Cardinality(reads["tab"].rows) < Cardinality(tally.list) THEN tally
              ELSE [tally EXCEPT !.list = reads["tab"].rows,
                                 !.loadedFor = reads["tab"].day]
  /\ UNCHANGED <<tick, rows, inBook, marginHeld, exiting, capture, backfills, removal>>

-----------------------------------------------------------------------------
(***************************************************************************)
(* A trade opens, is priced for margin, closes, or is deleted.             *)
(***************************************************************************)

\* The trade's row and position exist; its margin is asked for off the path.
TradeOpens(t) ==
  /\ rows[t].status = "none"
  /\ rows' = [rows EXCEPT ![t] = [status |-> "open", opened |-> tick,
                                  closed |-> 0, margin |-> FALSE]]
  /\ inBook' = inBook \cup {t}
  /\ capture' = [capture EXCEPT ![t] = 1]
  /\ UNCHANGED <<tick, marginHeld, exiting, backfills, removal, reads, tally>>

Storing == MaxMarginTries + 1

\* The basket margin arrives: it is set on the position, if there still is
\* one, before it is stored.
captureMargin(t) ==
  /\ capture[t] \in 1..MaxMarginTries
  /\ capture' = [capture EXCEPT ![t] = Storing]
  /\ marginHeld' = IF t \in inBook THEN marginHeld \cup {t} ELSE marginHeld
  /\ UNCHANGED <<tick, rows, inBook, exiting, backfills, removal, reads, tally>>

\* A failed call is retried up to its bound, then left to the sweep.
MarginCallFails(t) ==
  /\ capture[t] \in 1..MaxMarginTries
  /\ capture' = [capture EXCEPT ![t] = IF @ = MaxMarginTries THEN 0 ELSE @ + 1]
  /\ UNCHANGED <<tick, rows, inBook, marginHeld, exiting, backfills, removal, reads, tally>>

\* The update finds no row when the trade was deleted; its failure is swallowed.
setBoxTradeMargin(t) ==
  /\ capture[t] = Storing
  /\ capture' = [capture EXCEPT ![t] = 0]
  /\ \/ rows[t].status \in {"open", "closed"} /\ rows' = [rows EXCEPT ![t].margin = TRUE]
     \/ UNCHANGED rows
  /\ UNCHANGED <<tick, inBook, marginHeld, exiting, backfills, removal, reads, tally>>

\* The slow timer asks again for each position without a margin, a bounded
\* number of times.
backfillMissingMargins ==
  LET due == {t \in inBook \ marginHeld : capture[t] = 0 /\ backfills[t] < MaxBackfills}
  IN  /\ due # {}
      /\ backfills' = [t \in DayTrades |-> backfills[t] + IF t \in due THEN 1 ELSE 0]
      /\ capture' = [t \in DayTrades |-> IF t \in due THEN 1 ELSE capture[t]]
      /\ UNCHANGED <<tick, rows, inBook, marginHeld, exiting, removal, reads, tally>>

\* The monitor claims the position for its exit.
CloseBegins(t) ==
  /\ t \in inBook /\ exiting[t] = "no"
  /\ exiting' = [exiting EXCEPT ![t] = "asked"]
  /\ UNCHANGED <<tick, rows, inBook, marginHeld, capture, backfills, removal, reads, tally>>

\* The update closes the row only while it is open; a row that is gone makes
\* the close return false (closed_at is taken within the same tick).  With its
\* answer the position leaves the book and the session is told, an await before
\* the result is folded into the day.
closeBoxTrade(t) ==
  /\ exiting[t] = "asked"
  /\ IF rows[t].status = "open"
     THEN /\ rows' = [rows EXCEPT ![t].status = "closed", ![t].closed = tick]
          /\ exiting' = [exiting EXCEPT ![t] = "committed"]
          /\ inBook' = inBook \ {t}
          /\ backfills' = [backfills EXCEPT ![t] = 0]
     ELSE /\ exiting' = [exiting EXCEPT ![t] = "no"]
          /\ UNCHANGED <<rows, inBook, backfills>>
  /\ UNCHANGED <<tick, marginHeld, capture, removal, reads, tally>>

closePaperTradeFolds(t) ==
  /\ exiting[t] = "committed"
  /\ exiting' = [exiting EXCEPT ![t] = "no"]
  /\ tally' = foldClose(tally, t)
  /\ UNCHANGED <<tick, rows, inBook, marginHeld, capture, backfills, removal, reads>>

\* A deletion refuses a trade that is being closed, then places its fence.
deleteTrade(t) ==
  /\ rows[t].status \in {"open", "closed"}
  /\ removal[t] = "no"
  /\ ~(t \in inBook /\ exiting[t] # "no")
  /\ removal' = [removal EXCEPT ![t] = "fenced"]
  /\ UNCHANGED <<tick, rows, inBook, marginHeld, exiting, capture, backfills, reads, tally>>

deleteBoxTrade(t) ==
  /\ removal[t] = "fenced"
  /\ rows' = [rows EXCEPT ![t].status = "deleted"]
  /\ removal' = [removal EXCEPT ![t] = "deleted"]
  /\ UNCHANGED <<tick, inBook, marginHeld, exiting, capture, backfills, reads, tally>>

\* The position and what is kept for it are dropped and the day is re-read.
recomputeTradeDerivedStatistics(t) ==
  /\ removal[t] = "deleted"
  /\ inBook' = inBook \ {t}
  /\ backfills' = [backfills EXCEPT ![t] = 0]
  /\ capture' = IF t \in inBook THEN [capture EXCEPT ![t] = 0] ELSE capture
  /\ reads' = [reads EXCEPT ![t] = Asked(Today)]
  /\ removal' = [removal EXCEPT ![t] = "recounted"]
  /\ UNCHANGED <<tick, rows, marginHeld, exiting, tally>>

DeletionRecounts(t) ==
  /\ reads[t].st = "answered"
  /\ reads' = [reads EXCEPT ![t] = NoRead]
  /\ tally' = refreshClosedTodayFromDb(reads[t])
  /\ UNCHANGED <<tick, rows, inBook, marginHeld, exiting, capture, backfills, removal>>

\* A status read rolls the day.
computeDayPnl ==
  /\ tally.day # Today
  /\ tally' = rollClosedTodayDay(tally)
  /\ UNCHANGED <<tick, rows, inBook, marginHeld, exiting, capture, backfills, removal, reads>>

TickPasses ==
  /\ tick < LastTick
  /\ tick' = tick + 1
  /\ UNCHANGED <<rows, inBook, marginHeld, exiting, capture, backfills, removal, reads, tally>>

DayNext ==
  \/ TickPasses \/ BootSeeds \/ getClosedToday \/ TabAdopts
  \/ backfillMissingMargins \/ computeDayPnl
  \/ \E r \in Readers : StoreAnswers(r)
  \/ \E t \in DayTrades :
       \/ TradeOpens(t) \/ captureMargin(t) \/ MarginCallFails(t) \/ setBoxTradeMargin(t)
       \/ CloseBegins(t) \/ closeBoxTrade(t)
       \/ closePaperTradeFolds(t) \/ deleteTrade(t) \/ deleteBoxTrade(t)
       \/ recomputeTradeDerivedStatistics(t) \/ DeletionRecounts(t)

DaySpec == DayInit /\ [][DayNext]_dayVars

-----------------------------------------------------------------------------
(***************************************************************************)
(* The replay of the peak.                                                 *)
(***************************************************************************)

\* Open trades hold their margin to now; the others to their close.
loadBoxMarginIntervalsSince(day) ==
  {[id |-> t, from |-> rows[t].opened,
    to |-> IF rows[t].status = "open" THEN tick ELSE rows[t].closed,
    margin |-> rows[t].margin] :
     t \in {u \in AllTrades : \/ rows[u].status = "open"
                              \/ rows[u].status = "closed" /\ rows[u].closed >= FirstTick(day)}}

\* An unknown margin is excluded, never counted as nothing; an interval that
\* ends where it begins held nothing.
usableMarginIntervals(s) == {i \in s : i.margin /\ i.from < i.to}

\* Mutated form: the interval is closed at its end.
HoldsThrough(i, instant) == i.from <= instant /\ instant <= i.to

\* Half-open: what closes at the instant another opens does not overlap it.
HoldsAt(i, instant) == i.from <= instant /\ instant < i.to

\* The largest overlap found at the start of an interval; 0 stands for null.
peakConcurrentMargin(s) ==
  Max({0} \cup {Cardinality({o \in s : HoldsAt(o, probe.from)}) : probe \in s})

\* The replay sweeps only the instants at which an interval begins; the peak
\* it finds is the highest margin blocked at any instant of the day's trades
\* (recomputePeakConcurrentMargin, "sweeping the start points is exact").
PeakIsHighest ==
  LET s == usableMarginIntervals(loadBoxMarginIntervalsSince(Today))
      BlockedAt(instant) ==
        {i \in s : i.from < instant + 1 /\ i.to > instant}
  IN  peakConcurrentMargin(s) =
        Max({Cardinality(BlockedAt(instant)) : instant \in 0..LastTick})

\* Once no read, close or deletion is under way, the number the strip shows is
\* the number of trades the tab lists (getClosedToday, "the strip says 164, the
\* tab shows fewer").
StripMatchesTab ==
  ( /\ tally.day = Today /\ tally.loadedFor = Today
    /\ \A r \in Readers : reads[r].st = "idle"
    /\ \A t \in DayTrades : exiting[t] = "no" /\ removal[t] # "deleted" )
  => tally.count = Cardinality(tally.list)
=============================================================================
