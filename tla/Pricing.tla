------------------------------ MODULE Pricing -------------------------------
(***************************************************************************)
(* The price of a model: the one the user typed for it, else the one       *)
(* captured from the page of the platform, else the one compiled in.       *)
(* Capturing asks the main model to read the page, checks its answer,      *)
(* shows what differs and stores what the user selects                     *)
(* (src-tauri/pricing_capture.rs, crates/token-accounting,                 *)
(* crates/storage).  A name of a model is the name of the platform with    *)
(* what spellings differ in: a prefix Pro/ and the case.                   *)
(***************************************************************************)
EXTENDS Integers, FiniteSets, Sequences, SequencesExt, TLC

CONSTANTS
  Platform,      \* preset of the connection
  Sources,       \* platforms whose page is captured
  Anchor,        \* name that an answer must contain
  Compiled,      \* sequence of entries [model, price] compiled in for it
  Registered,    \* spellings of the models that the user has registered
  Logical,       \* of a name: the model that the platform bills
  Answers,       \* what the main model may read off the page
  Typed,         \* prices the user may type
  MaxPriceOps    \* bound on captures, resets and typed prices

Tier   == [max : Int, input : Int, cached : Int, output : Int]
Tariff == [input : Int, cached : Int, output : Int, tiers : Seq(Tier)]
Entry  == [model : [name : STRING, pro : BOOLEAN], price : Tariff]

ASSUME PricingAssumption ==
  /\ Compiled \in Seq(Entry) /\ Answers \subseteq Seq(Entry)
  /\ Typed \subseteq Tariff /\ MaxPriceOps \in Nat

VARIABLES
  overrides,     \* table preset_pricing_overrides: key -> price
  own,           \* pricing_json of each registered model
  capture,       \* what the panel shows: [stage, diffs]
  applied,       \* history: the last price applied to a model since a reset
  price_ops      \* history: number of bounded operations

prvars == <<overrides, own, capture, applied, price_ops>>

NoPrice == [input |-> -1, cached |-> -1, output |-> -1, tiers |-> <<>>]
Shut    == [stage |-> "shut", diffs |-> <<>>]

(***************************************************************************)
(* Names.                                                                  *)
(***************************************************************************)
Normalize(s) == [s EXCEPT !.pro = FALSE]

ApplyAlias(s) ==
  IF Platform = "deepseek" /\ s.name \in {"chat", "reasoner"} THEN [s EXCEPT !.name = "flash"] ELSE s

CanonicalId(s) == ApplyAlias(Normalize(s)).name

(* The first entry of the same name; case and prefix of entries count as   *)
(* little as those of the name that is looked up.                          *)
LookupPreset(s) ==
  LET hits == {i \in DOMAIN Compiled : Normalize(Compiled[i].model).name = CanonicalId(s)} IN
  IF hits = {} THEN NoPrice ELSE Compiled[Min(hits)].price

(***************************************************************************)
(* Prices and amounts.                                                     *)
(***************************************************************************)
CurrentPrice(s) ==
  IF CanonicalId(s) \in DOMAIN overrides THEN overrides[CanonicalId(s)] ELSE LookupPreset(s)

(* What the user typed wins, whatever the plan; the rest is for plans that  *)
(* are paid by use.                                                        *)
ResolveBilling(mode, typed, fallback) ==
  CASE typed # NoPrice -> typed
    [] typed = NoPrice /\ mode = "api" -> fallback
    [] OTHER -> NoPrice

SelectRates(p, prompt) ==
  LET fits == {i \in DOMAIN p.tiers : p.tiers[i].max >= prompt} IN
  CASE p.tiers = <<>> -> p
    [] p.tiers # <<>> /\ fits # {} -> p.tiers[Min(fits)]
    [] OTHER -> p.tiers[Len(p.tiers)]

(* -1 is no amount: a plan, no price, or no charge at all.  A report that   *)
(* does not tell hits from misses counts as misses.  No cached price means *)
(* the price of the input.                                                 *)
ComputeCost(u, mode, p) ==
  LET miss  == IF u.hit = 0 /\ u.miss = 0 THEN u.prompt ELSE u.miss
      rates == SelectRates(p, u.hit + miss)
      hit   == IF rates.cached = -1 THEN rates.input ELSE rates.cached
  IN IF mode # "api" \/ p = NoPrice THEN -1
     ELSE miss * rates.input + u.hit * hit + u.out * rates.output

(***************************************************************************)
(* Capturing.                                                              *)
(***************************************************************************)
InRange(r) == r.input > 0 /\ r.output > 0 /\ (r.cached = -1 \/ r.cached > 0)

(* Tiers are read in any order and kept by size; of two of one size, the    *)
(* first stays first (sort_by_key).                                        *)
SortTiers(tiers) ==
  LET before(i) == {j \in DOMAIN tiers : \/ tiers[j].max < tiers[i].max
                                         \/ tiers[j].max = tiers[i].max /\ j < i}
  IN  [n \in DOMAIN tiers |-> tiers[CHOOSE i \in DOMAIN tiers : Cardinality(before(i)) = n - 1]]

ParseExtraction(answer) == [i \in DOMAIN answer |-> [answer[i] EXCEPT !.price.tiers = SortTiers(@)]]

ValidateExtraction(models) ==
  /\ \E i \in DOMAIN models : models[i].model.name = Anchor
  /\ \A i \in DOMAIN models :
       /\ InRange(models[i].price)
       /\ \A t \in Range(models[i].price.tiers) : t.max > 0 /\ InRange(t)

DiffPricing(m) ==
  LET current == CurrentPrice(m.model) IN
  [model |-> m.model, price |-> m.price,
   change |-> CASE current = NoPrice -> "new"
                [] current = m.price -> "unchanged"
                [] OTHER -> "changed"]

(* The panel is closed while a capture is under way.                       *)
CaptureStarts ==
  /\ capture.stage # "asked" /\ price_ops < MaxPriceOps
  /\ price_ops' = price_ops + 1
  /\ capture' = IF Platform \in Sources THEN [stage |-> "asked", diffs |-> <<>>] ELSE Shut
  /\ UNCHANGED <<overrides, own, applied>>

(* No page, no answer, nothing to parse, or an answer that is refused as a  *)
(* whole: the prices stay.                                                 *)
CaptureFails ==
  /\ capture.stage = "asked"
  /\ capture' = Shut
  /\ UNCHANGED <<overrides, own, applied, price_ops>>

CaptureAnswers ==
  /\ capture.stage = "asked"
  /\ \E answer \in Answers :
       LET models == ParseExtraction(answer) IN
       /\ ValidateExtraction(models)
       /\ capture' = [stage |-> "shown", diffs |-> [i \in DOMAIN models |-> DiffPricing(models[i])]]
  /\ UNCHANGED <<overrides, own, applied, price_ops>>

(* Rows that are written: the later of two with one key wins.              *)
Upserted(table, written, Key(_)) ==
  LET of(k)   == {i \in written : Key(capture.diffs[i].model) = k}
      last(k) == CHOOSE i \in of(k) : \A j \in of(k) : j <= i
  IN  [k \in DOMAIN table \cup {Key(capture.diffs[i].model) : i \in written} |->
         IF of(k) = {} THEN table[k] ELSE capture.diffs[last(k)].price]

(* The key that is written is the key that is read.                         *)
Upserts(written)    == Upserted(overrides, written, CanonicalId)
AppliedNow(written) == Upserted(applied, written, LAMBDA s : Logical[s.name])

(* One row after the other, in one lock but without a transaction: an error *)
(* of the database leaves the rows before it written and the panel open.   *)
ApplyPrices ==
  /\ capture.stage = "shown"
  /\ \E chosen \in SUBSET {i \in DOMAIN capture.diffs : capture.diffs[i].change # "unchanged"} :
       \E n \in 0..Len(capture.diffs) :
         LET written == {i \in chosen : i <= n}
         IN /\ overrides' = Upserts(written) /\ applied' = AppliedNow(written)
            /\ capture' = IF written = chosen THEN Shut ELSE capture
  /\ UNCHANGED <<own, price_ops>>

ClosePanel ==
  /\ capture.stage = "shown"
  /\ capture' = Shut
  /\ UNCHANGED <<overrides, own, applied, price_ops>>

(* What was typed is dropped model by model, errors are ignored, then the   *)
(* captured prices of the platform go.                                     *)
ResetPrices ==
  /\ capture.stage = "shown"
  /\ \E dropped \in SUBSET Registered :
       own' = [m \in Registered |-> IF m \in dropped THEN NoPrice ELSE own[m]]
  /\ \/ overrides' = <<>> /\ applied' = <<>>
     \/ UNCHANGED <<overrides, applied>>
  /\ capture' = Shut
  /\ UNCHANGED price_ops

TypePrice ==
  /\ price_ops < MaxPriceOps
  /\ \E m \in Registered, p \in Typed \cup {NoPrice} : own[m] # p /\ own' = [own EXCEPT ![m] = p]
  /\ price_ops' = price_ops + 1
  /\ UNCHANGED <<overrides, capture, applied>>

PricingInit ==
  /\ overrides = <<>> /\ own = [m \in Registered |-> NoPrice]
  /\ capture = Shut /\ applied = <<>> /\ price_ops = 0

PricingNext ==
  \/ CaptureStarts \/ CaptureFails \/ CaptureAnswers
  \/ ApplyPrices \/ ClosePanel \/ ResetPrices \/ TypePrice

(***************************************************************************)
(* Properties.                                                             *)
(***************************************************************************)
PricingTypeOK ==
  /\ capture.stage \in {"shut", "asked", "shown"}
  /\ \A k \in DOMAIN overrides : overrides[k] # NoPrice
  /\ own \in [Registered -> Typed \cup {NoPrice}] /\ price_ops \in 0..MaxPriceOps

(* A captured price is found whatever spelling the user has registered the *)
(* model in, and whatever spelling the page has: 写键 == 读键              *)
(* (canonical_model_id).  Without one, or after a reset, the compiled one   *)
(* is back.                                                                *)
AppliedIsCharged ==
  \A m \in Registered :
    CurrentPrice(m) =
      IF Logical[m.name] \in DOMAIN applied THEN applied[Logical[m.name]] ELSE LookupPreset(m)

(* The rates of a request are those of the smallest tier that holds it, in  *)
(* whatever order the page was read (select_rates relies on the order of    *)
(* parse_extraction).                                                      *)
TiersFit ==
  \A k \in DOMAIN overrides : LET tiers == overrides[k].tiers IN
    \A n \in {t.max : t \in Range(tiers)} :
      SelectRates(overrides[k], n).max = n
=============================================================================
