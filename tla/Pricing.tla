------------------------------- MODULE Pricing ------------------------------
(***************************************************************************)
(* The rates of a provider's model by the hour (pricing.rs).  A tariff is  *)
(* a calendar whose layers are the labels "default", "window-0", ...: each *)
(* window's schedule puts its own label first, and the rates of the first  *)
(* layer of the selection are the price.                                   *)
(***************************************************************************)
EXTENDS Calendar

CONSTANT Labels  \* "default", "window-0", "window-1", ...

ASSUME LabelsAssumption ==
  Labels \in Seq(STRING) /\ LayersNamed(Labels)

\* An amount that is no finite number stands below 0.
RatesValid(rates) ==
  /\ rates.hit >= 0
  /\ rates.miss >= 0
  /\ rates.output >= 0

PriceWindows(model) == IF model.prices = None THEN <<>> ELSE model.prices.windows
PriceZone(model) == IF model.prices = None THEN 0 ELSE model.prices.zone

PriceLabels(model) == SubSeq(Labels, 1, Len(PriceWindows(model)) + 1)

PriceSchedules(model) ==
  LET windows == PriceWindows(model)
      labels == PriceLabels(model)
      OwnFirst(i) == [k \in 1 .. Len(labels) |->
                        IF k = 1 THEN labels[i + 1]
                        ELSE IF k <= i + 1 THEN labels[k - 1]
                        ELSE labels[k]]
  IN [i \in DOMAIN windows |->
        [ name |-> windows[i].name, days |-> windows[i].days,
          start |-> windows[i].start, end |-> windows[i].end,
          order |-> OwnFirst(i) ]]

Rates(model) ==
  LET windows == PriceWindows(model)
  IN [k \in 1 .. Len(windows) + 1 |->
        IF k = 1 THEN model.pricing ELSE windows[k - 1].pricing]

\* Tariff::new.
TariffSound(model) ==
  /\ model.prices # None => model.pricing # None
  /\ \A k \in DOMAIN Rates(model) :
        Rates(model)[k] # None => RatesValid(Rates(model)[k])
  /\ CalendarSound(PriceZone(model), PriceLabels(model), PriceSchedules(model))

\* Tariff::at.
PriceAt(model, now) ==
  LET schedules == PriceSchedules(model)
      active == ActiveSchedule(schedules, Instant(PriceZone(model), now))
  IN Rates(model)[Selection(PriceLabels(model), schedules, active)[1]]

\* The rates of the window the instant is meant to fall in, and the default
\* rates outside all of them.
PriceMeant(model, now) ==
  LET windows == PriceWindows(model)
      meant == MeantSchedules(windows, Instant(PriceZone(model), now))
  IN IF meant = {} THEN model.pricing
     ELSE windows[CHOOSE i \in meant : TRUE].pricing

=============================================================================
