------------------------------ MODULE Accounts ------------------------------
(***************************************************************************)
(* The books of what the models charge.  A run of a conversation collects   *)
(* the usage of every request it makes or has made for it; it is written to *)
(* four places: one row for each consumer (token_usage_attribution), the    *)
(* rows of the vision model (token_ledger), the message that the frontend   *)
(* stores, and the counter of the month of the main connection              *)
(* (src-tauri/agent_loop.rs, crates/storage, App.tsx).                      *)
(***************************************************************************)
EXTENDS Pricing

CONSTANTS
  Reports,       \* usage that a response may report
  RoleModel,     \* registered spelling of the model of each consumer
  Budget,        \* task_token_budget, 0 is none
  MaxRounds,     \* bound on requests of the main model in a run
  MaxRuns, MaxReports

ASSUME AccountsAssumption ==
  /\ Reports \subseteq [prompt : Nat, hit : Nat, miss : Nat, out : Nat]
  /\ \A r \in Reports : r.hit + r.miss = 0 => r.prompt = 0   \* parse_raw_usage derives what is not told
  /\ RoleModel \in [{"main", "vision", "subagent"} -> Registered]
  /\ Budget \in Nat /\ MaxRounds \in Nat /\ MaxRuns \in Nat /\ MaxReports \in Nat

VARIABLES
  acct,          \* the run: [stage, kind, usage, typed, rounds]
  spent,         \* history: for each report its run and consumer
  rows,          \* table token_usage_attribution
  ledger,        \* table token_ledger
  streamed,      \* streamingUsageRef of the frontend
  bills,         \* usage_json of the stored answers
  counter        \* usage_counters of the connection in this month

acvars == <<acct, spent, rows, ledger, streamed, bills, counter>>

(* A usage with no reports in it is a usage that is missing.  raw_json      *)
(* keeps the reports that were merged.                                      *)
NoUsage == [prompt |-> 0, hit |-> 0, miss |-> 0, out |-> 0, of |-> <<>>]

MergeUsage(a, b) ==
  [prompt |-> a.prompt + b.prompt, hit |-> a.hit + b.hit, miss |-> a.miss + b.miss,
   out |-> a.out + b.out, of |-> a.of \o b.of]

Total(u) == u.prompt + u.out
Mode     == "api"
NoRun     == [stage |-> "idle", kind |-> "chat", usage |-> NoUsage, rounds |-> 0,
             typed |-> [c \in {"main", "subagent"} |-> NoPrice]]
ThisRun  == Len(bills)

(* A response reports its usage, or none.                                   *)
Reported(report) == [prompt |-> report.prompt, hit |-> report.hit, miss |-> report.miss,
                     out |-> report.out, of |-> <<Len(spent) + 1>>]
Usages ==
  {NoUsage} \cup (IF Len(spent) < MaxReports THEN {Reported(r) : r \in Reports} ELSE {})
Spends(u, consumer) ==
  spent' = IF u = NoUsage THEN spent
           ELSE Append(spent, [run |-> ThisRun, consumer |-> consumer, kind |-> acct.kind])

(* Each consumer pays its own price.  What the user typed is read when the   *)
(* run starts, for the vision model when the row is written; the rest of    *)
(* the price is looked up when it is needed.                                *)
TypedFor(consumer) == IF consumer = "vision" THEN own[RoleModel.vision] ELSE acct.typed[consumer]
PriceFor(consumer) == ResolveBilling(Mode, TypedFor(consumer), CurrentPrice(RoleModel[consumer]))

Row(u, consumer) ==
  [run |-> ThisRun, consumer |-> consumer, of |-> u.of, price |-> PriceFor(consumer),
   amount |-> ComputeCost(u, Mode, PriceFor(consumer))]
RecordAttribution(u, consumer) ==
  rows' = IF u = NoUsage THEN rows ELSE Append(rows, Row(u, consumer))

LedgerEntry(u) == ledger' = IF u = NoUsage THEN ledger ELSE Append(ledger, u.of[1])

(***************************************************************************)
(* A run.  The price that the user typed is read when it starts.           *)
(***************************************************************************)
StartRun ==
  /\ acct.stage = "idle" /\ Len(bills) < MaxRuns
  /\ \E kind \in {"tools", "plan", "chat"}, stage \in {"look", "request"} :
       acct' = [NoRun EXCEPT !.stage = stage, !.kind = kind,
                      !.typed = [c \in {"main", "subagent"} |-> own[RoleModel[c]]]]
  /\ streamed' = NoUsage
  /\ bills' = Append(bills, [usage |-> NoUsage, amount |-> -1, price |-> NoPrice])
  /\ UNCHANGED <<spent, rows, ledger, counter>>

(* The first look at the images: an error only changes what the model is     *)
(* told.  A run with tools starts with what the look cost.                  *)
FirstLook ==
  /\ acct.stage = "look"
  /\ \E u \in Usages :
       /\ Spends(u, "vision") /\ LedgerEntry(u) /\ RecordAttribution(u, "vision")
       /\ acct' = [acct EXCEPT !.stage = "request",
                               !.usage = IF acct.kind = "tools" THEN u ELSE NoUsage]
  /\ UNCHANGED <<streamed, bills, counter>>

(* A plan or a chat is one request; a stop leaves no usage of it.           *)
SingleRequest ==
  /\ acct.stage = "request" /\ acct.kind # "tools"
  /\ \E u \in Usages :
       Spends(u, "main") /\ acct' = [acct EXCEPT !.stage = "settle", !.usage = u]
  /\ UNCHANGED <<rows, ledger, streamed, bills, counter>>

OverBudget(u) == Budget > 0 /\ u # NoUsage /\ Total(u) >= Budget

(* One request with tools: calls, a final answer, or an answer that a gate   *)
(* sends back; over the budget the run pauses.                              *)
Round ==
  /\ acct.stage \in {"request", "compacted"} /\ acct.kind = "tools" /\ acct.rounds < MaxRounds
  /\ \E u \in Usages : LET merged == MergeUsage(acct.usage, u) IN
       /\ Spends(u, "main") /\ RecordAttribution(u, "main")
       /\ \E next \in IF OverBudget(merged) THEN {"settle"} ELSE {"tool", "request", "settle"} :
            acct' = [acct EXCEPT !.stage = next, !.usage = merged, !.rounds = @ + 1]
  /\ UNCHANGED <<ledger, streamed, bills, counter>>

(* The summary of a history that is too long, once before the next request. *)
Compaction ==
  /\ acct.stage = "request" /\ acct.kind = "tools" /\ acct.rounds > 0
  /\ \E u \in Usages :
       /\ Spends(u, "main") /\ RecordAttribution(u, "main")
       /\ acct' = [acct EXCEPT !.stage = "compacted", !.usage = MergeUsage(@, u)]
  /\ UNCHANGED <<ledger, streamed, bills, counter>>

(* Calls of tools: a question to the vision model.                          *)
AskVision ==
  /\ acct.stage = "tool"
  /\ \E u \in Usages :
       /\ Spends(u, "vision") /\ LedgerEntry(u) /\ RecordAttribution(u, "vision")
       /\ acct' = [acct EXCEPT !.usage = MergeUsage(@, u)]
  /\ UNCHANGED <<streamed, bills, counter>>

(* A subtask, several at once with their usages merged, or the report of    *)
(* one in the background; an error on the way keeps what was spent.         *)
Subagent ==
  /\ acct.stage = "tool"
  /\ \E u \in Usages :
       /\ Spends(u, "subagent") /\ RecordAttribution(u, "subagent")
       /\ acct' = [acct EXCEPT !.usage = MergeUsage(@, u)]
  /\ UNCHANGED <<ledger, streamed, bills, counter>>

CallsEnd ==
  /\ acct.stage = "tool"
  /\ acct' = [acct EXCEPT !.stage = "request"]
  /\ UNCHANGED <<spent, rows, ledger, streamed, bills, counter>>

(* A stop ends a run with tools with what it has so far, and the first look *)
(* is not stopped.                                                          *)
StopRun ==
  /\ acct.stage \in {"request", "compacted", "tool"}
  /\ acct' = [acct EXCEPT !.stage = "settle"]
  /\ UNCHANGED <<spent, rows, ledger, streamed, bills, counter>>

(* Slip: the answer of a run with tools is attributed a second time. *)
SlipAttributedHere == TRUE

(* The one request of a plan or a chat has no other place to be attributed. *)
AttributedHere == acct.kind # "tools"

(* The answer is settled: the amount is that of the merged usage, and the   *)
(* frontend is told.                                                        *)
Settle ==
  /\ acct.stage = "settle"
  /\ IF AttributedHere THEN RecordAttribution(acct.usage, "main") ELSE UNCHANGED rows
  /\ streamed' = IF acct.usage = NoUsage THEN streamed ELSE acct.usage
  /\ counter' = counter + Total(acct.usage)
  /\ bills' = [bills EXCEPT ![ThisRun].price = PriceFor("main"),
       ![ThisRun].amount = IF acct.usage = NoUsage THEN -1 ELSE ComputeCost(acct.usage, Mode, PriceFor("main"))]
  /\ acct' = [acct EXCEPT !.stage = "done"]
  /\ UNCHANGED <<spent, ledger>>

(* chat-done: the frontend stores the answer with the usage it was told.    *)
ChatDone ==
  /\ acct.stage = "done"
  /\ bills' = [bills EXCEPT ![ThisRun].usage = streamed]
  /\ acct' = NoRun
  /\ UNCHANGED <<spent, rows, ledger, streamed, counter>>

(* An error of a request: nothing is settled; an answer that is stored has  *)
(* no usage, for the frontend was told none.                                *)
RunFails ==
  /\ acct.stage \in {"request", "compacted"}
  /\ bills' = [bills EXCEPT ![ThisRun].usage = streamed]
  /\ acct' = NoRun
  /\ UNCHANGED <<spent, rows, ledger, streamed, counter>>

(* The process ends: the tables stay.                                       *)
AcctProcessEnds ==
  /\ acct.stage # "idle"
  /\ acct' = NoRun /\ streamed' = NoUsage
  /\ UNCHANGED <<spent, rows, ledger, bills, counter>>

AcctInit ==
  /\ acct = NoRun /\ spent = <<>> /\ rows = <<>> /\ ledger = <<>>
  /\ streamed = NoUsage /\ bills = <<>> /\ counter = 0

RunSteps ==
  \/ StartRun \/ FirstLook \/ SingleRequest \/ Round \/ Compaction
  \/ AskVision \/ Subagent \/ CallsEnd \/ StopRun
  \/ Settle \/ ChatDone \/ RunFails \/ AcctProcessEnds

AccountsNext ==
  \/ RunSteps /\ UNCHANGED prvars
  \/ PricingNext /\ UNCHANGED acvars

AccountsSpec == PricingInit /\ AcctInit /\ [][AccountsNext]_<<prvars, acvars>>

(***************************************************************************)
(* What is shown of the books: the rows of each consumer, the sum of the    *)
(* answers on screen, and the lines of the export.                          *)
(***************************************************************************)
(* The sum of the first n values of f. *)
SumTo(f, n) == LET sum[k \in Nat] == IF k = 0 THEN 0 ELSE sum[k - 1] + f[k] IN sum[n]

Consumers == {"main", "vision", "subagent"}
AttributedTo(consumer) ==
  UNION {Range(rows[k].of) : k \in {k \in DOMAIN rows : rows[k].consumer = consumer}}
AggregateUsage ==
  [prompt |-> SumTo([r \in DOMAIN bills |-> bills[r].usage.prompt], Len(bills)),
   hit    |-> SumTo([r \in DOMAIN bills |-> bills[r].usage.hit], Len(bills)),
   miss   |-> SumTo([r \in DOMAIN bills |-> bills[r].usage.miss], Len(bills)),
   out    |-> SumTo([r \in DOMAIN bills |-> bills[r].usage.out], Len(bills)),
   of     |-> UNION {Range(bills[r].usage.of) : r \in DOMAIN bills}]
ExportLines == FoldLeft(LAMBDA all, b : all \o b.usage.of, <<>>, bills) \o ledger

(***************************************************************************)
(* Properties.                                                             *)
(***************************************************************************)
AcctTypeOK ==
  /\ acct.stage \in {"idle", "look", "request", "compacted", "tool", "settle", "done"}
  /\ acct.kind \in {"tools", "plan", "chat"} /\ acct.rounds \in 0..MaxRounds
  /\ \A i \in DOMAIN rows : rows[i].consumer \in Consumers
  /\ Len(spent) <= MaxReports /\ Len(bills) <= MaxRuns /\ counter \in Nat

Waits(i)      == spent[i].kind # "tools" /\ spent[i].consumer = "main"
RunRows(r)    == {k \in DOMAIN rows : rows[k].run = r}

(* Every report is attributed, to its consumer and to no other, once, also   *)
(* when the run fails or the process ends; the one request of a plan or a   *)
(* chat only when it is settled.                                            *)
AttributedOnce ==
  /\ \A k \in DOMAIN rows : IsInjective(rows[k].of)
  /\ \A k, l \in DOMAIN rows : Range(rows[k].of) \cap Range(rows[l].of) # {} => k = l
  /\ \A c \in Consumers : \A i \in AttributedTo(c) : spent[i].consumer = c
  /\ \A i \in DOMAIN spent : Waits(i) \/ i \in AttributedTo(spent[i].consumer)

(* The ledger has what the vision model was paid for, each once and in order.*)
LedgerIsVision ==
  /\ Range(ledger) = {i \in DOMAIN spent : spent[i].consumer = "vision"}
  /\ \A k, l \in DOMAIN ledger : k < l => ledger[k] < ledger[l]

(* 各 own usage 之和 == 合并后的 usage: the usage stored with an answer is    *)
(* that of the rows of its run; without tools the first look is not in it.   *)
BillIsItsRows ==
  \A r \in DOMAIN bills : LET u == bills[r].usage IN
    /\ IsInjective(u.of)
    /\ u # NoUsage =>
         Range(u.of) = UNION {Range(rows[k].of) : k \in {j \in RunRows(r) :
            rows[j].consumer # "vision" \/ \E i \in Range(rows[j].of) : spent[i].kind = "tools"}}

(* The counter of the month has at least what the answers have, each once.   *)
CounterCovers == Total(AggregateUsage) <= counter

(* 与主轮计价同一函数: the amount of an answer is that of its rows, if they   *)
(* had one price without tiers; no price is no amount.                      *)
RunAmount(r) == SumTo([k \in DOMAIN rows |-> IF rows[k].run = r THEN rows[k].amount ELSE 0], Len(rows))
OnePrice(r)  == \A k \in RunRows(r) : rows[k].price = bills[r].price /\ rows[k].consumer = "main"
AmountsAdd ==
  \A r \in DOMAIN bills :
    bills[r].usage # NoUsage /\ bills[r].price # NoPrice /\ bills[r].price.tiers = <<>> /\ OnePrice(r)
    => bills[r].amount = RunAmount(r)

AccountsAgree ==
  /\ AttributedOnce /\ LedgerIsVision /\ BillIsItsRows /\ CounterCovers /\ AmountsAdd
  /\ AppliedIsCharged /\ TiersFit

(* Not so: the export has one line for an answer with all its usage and one  *)
(* for each row of the ledger (commands.rs:2584), a run with tools that used *)
(* the vision model is in it twice although the ledger is not merged        *)
(* (lib.rs:826); what a failed run spent is in no answer; tiers are chosen  *)
(* by the sum of the requests of a run, not by each (lib.rs:223).           *)
ExportOnce   == IsInjective(ExportLines)
SpentIsShown == acct.stage = "idle" => DOMAIN spent \subseteq AggregateUsage.of
AmountsAddInTiers ==
  \A r \in DOMAIN bills :
    bills[r].usage # NoUsage /\ bills[r].price # NoPrice /\ OnePrice(r)
    => bills[r].amount = RunAmount(r)
=============================================================================
