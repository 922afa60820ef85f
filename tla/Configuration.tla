------------------------------ MODULE Configuration ------------------------------
(***************************************************************************)
(* What a run's configuration may say and what it means when it is read    *)
(* back (pricelab/core/config.py), and the formula a category is computed  *)
(* with (pricelab/engine/index.py).                                        *)
(*                                                                         *)
(* A configuration is a record of its sections with the fields a validator *)
(* reads; periods are numbers, an expression is "ok", "bad" (it does not   *)
(* parse) or "empty" (of no length), and NA is a field that is not set.    *)
(***************************************************************************)
EXTENDS Integers, Sequences, FiniteSets

CONSTANTS NA, Refused,
          Absent   \* a key that a saved file does not have

Current == "2"

Elementary == {"jevons", "dutot", "carli"}
Quantity == {"laspeyres", "paasche", "fisher", "tornqvist", "walsh", "marshall_edgeworth",
             "geometric_laspeyres", "geometric_paasche", "unit_value"}

-----------------------------------------------------------------------------
(* What the validators accept *)

PriceRef(index) == IF index.priceRef # NA THEN index.priceRef ELSE index.base

IndexConfig(c) ==
  /\ c.formula = "unit_value" => c.homogeneous
  /\ c.formula = "custom" => c.custom \notin {NA, "empty"}
  /\ c.custom \notin {NA, "empty"} => c.formula = "custom" /\ c.custom = "ok"
  /\ c.aggregate \in {NA, "ok"}
  /\ c.weightRef # NA /\ PriceRef(c) # NA => c.weightRef <= PriceRef(c)

QualityAdjustmentConfig(entries) ==
  \A j, k \in DOMAIN entries :
    j # k => entries[j].new # entries[k].new /\ entries[j].old # entries[k].old

SeasonalConfig(c) ==
  /\ c.treatment \in {"class_confinement", "weight_update", "both"}
  /\ c.engine \in {"auto", "x13", "stl"}
  /\ c.perYear >= 2 /\ c.minYears >= 2
  /\ c.stl >= 7 /\ c.stl % 2 = 1
  /\ c.subSamples >= 2

OutlierDecision(e) == e.decision \in {"accept", "reject", "annotate"} /\ e.reason

\* hbU, low and high are in tenths.
OutlierConfig(c) ==
  /\ c.methods \subseteq {"tukey", "quartile", "hidiroglou_berthelot", "ratio"}
  /\ 0 <= c.hbU /\ c.hbU <= 10
  /\ 0 < c.low /\ c.low < c.high
  /\ \A k \in DOMAIN c.entries : OutlierDecision(c.entries[k])
  /\ \A j, k \in DOMAIN c.entries :
       j # k => \/ c.entries[j].period # c.entries[k].period
                \/ c.entries[j].item # c.entries[k].item

\* alpha is in hundredths.
RevisionConfig(c) == c.vintages >= 2 /\ 0 < c.alpha /\ c.alpha < 100

MultilateralConfig(c) ==
  /\ c.method \in {"geks_fisher", "geks_tornqvist", "tpd", "wtpd", "tdh", "geary_khamis"}
  /\ c.splice \in {"movement", "window", "half", "mean", "fbew", "fbmw"}
  /\ c.window >= 2
  /\ 1 <= c.anchorMonth /\ c.anchorMonth <= 12

\* Whether the optional sections are enabled makes no difference.
RunConfig(c) ==
  /\ IndexConfig(c.index)
  /\ QualityAdjustmentConfig(c.replacements)
  /\ SeasonalConfig(c.seasonal)
  /\ OutlierConfig(c.outlier)
  /\ RevisionConfig(c.revision)
  /\ MultilateralConfig(c.multilateral)

-----------------------------------------------------------------------------
(* Reading a saved configuration *)

\* Version 1, which a file without a version has, knew one base period; a field that
\* is present keeps its value.
Present(value) == IF value = Absent THEN NA ELSE value
Migrate(d) ==
  LET base == d.index.base
      default(value) == IF value = Absent /\ base # NA /\ d.version = "1" THEN base ELSE Present(value)
  IN [d EXCEPT !.index = [d.index EXCEPT !.priceRef = default(d.index.priceRef),
                                         !.weightRef = default(d.index.weightRef),
                                         !.indexRef = default(d.index.indexRef)],
               !.version = IF d.version = "1" THEN Current ELSE d.version]

FromDict(d) ==
  LET data == Migrate(d)
  IN IF data.version # Current \/ ~RunConfig(data) THEN Refused
     ELSE [config |-> data, upconverted |-> d.version = "1"]

\* The flag is not written.
ToJson(loaded) == loaded.config

-----------------------------------------------------------------------------
(* The formula of a category; panel gives each category what some of its rows      *)
(* carry, a subset of {"quantity", "expenditure", "weight"}                        *)

HasQuantities(carried) == carried \cap {"quantity", "expenditure"} # {}

FormulaAvailable(formula, panel) ==
  formula \in Quantity \ {"laspeyres"} => HasQuantities(UNION {panel[c] : c \in DOMAIN panel})

\* A Laspeyres without quantities is a weighted mean of relatives, and a Jevons
\* where there are no weights either.
FormulaOf(index, carried) ==
  CASE index.formula \notin Quantity -> index.formula
    [] HasQuantities(carried) -> index.formula
    [] index.formula # "laspeyres" -> Refused
    [] OTHER -> IF "weight" \in carried THEN "weighted relatives" ELSE "jevons"

\* build_all fails with the first category that does.
BuildAll(index, panel) ==
  IF \E c \in DOMAIN panel : FormulaOf(index, panel[c]) = Refused THEN Refused
  ELSE [c \in DOMAIN panel |-> FormulaOf(index, panel[c])]

-----------------------------------------------------------------------------
\* A configuration saved before the reference periods were separate loads if it was
\* valid and means what it meant: the references resolve as they did from its base
\* period ("a run registered under an old config must go on meaning exactly what it
\* meant", _migrate).  Whatever loads, what is saved of it loads as the same
\* configuration and is no longer taken for an old one.
LegacyMeansTheSame(d) ==
  LET loaded == FromDict(d)
      plain == [d EXCEPT !.index = [d.index EXCEPT !.priceRef = Present(d.index.priceRef),
                                                   !.weightRef = Present(d.index.weightRef),
                                                   !.indexRef = Present(d.index.indexRef)]]
      indexRef(c) == IF c.indexRef # NA THEN c.indexRef ELSE PriceRef(c)
      old == d.version = "1" /\ {d.index.priceRef, d.index.weightRef, d.index.indexRef} = {Absent}
  IN /\ old => (loaded # Refused) = RunConfig(plain)
     /\ loaded # Refused => FromDict(ToJson(loaded)) = [loaded EXCEPT !.upconverted = FALSE]
     /\ old /\ loaded # Refused =>
          /\ PriceRef(loaded.config.index) = PriceRef(plain.index)
          /\ indexRef(loaded.config.index) = indexRef(plain.index)

\* One formula for all categories, unless it is a Laspeyres; and a formula that was
\* offered for the collection fails exactly when one of its categories carries no
\* quantities (formula_availability, build_all).
FormulaIsTheOneNamed(index, panel) ==
  LET built == BuildAll(index, panel)
  IN /\ built # Refused /\ index.formula # "laspeyres" =>
          \A c \in DOMAIN panel : built[c] = index.formula
     /\ FormulaAvailable(index.formula, panel) =>
          ((built = Refused) <=> /\ index.formula \in Quantity \ {"laspeyres"}
                                 /\ \E c \in DOMAIN panel : ~HasQuantities(panel[c]))
==================================================================================
