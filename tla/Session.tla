------------------------------ MODULE Session -------------------------------
(***************************************************************************)
(* The milter callbacks of mopherd (milter.c) over several messages of a   *)
(* connection, and the watchdog's table of connections (watchdog.c).       *)
(*                                                                         *)
(* A connection keeps its milter_priv_t and its symbol table (mailspec)    *)
(* from milter_connect to milter_close.  The MTA and libmilter, which are  *)
(* external, call the callbacks of one connection in order; callbacks of   *)
(* different connections interleave.  A callback stores its symbols, has   *)
(* the ACL evaluated, and answers; the ACL's answer is an input.           *)
(*                                                                         *)
(* Values are abstracted to the message they belong to: a symbol, and every*)
(* piece of the header and body buffers, is the number of its message.     *)
(***************************************************************************)
EXTENDS Integers, FiniteSets

CONSTANTS
  Sessions,     \* connections, each opened at most once
  Ids,          \* what milter_get_id may return; not necessarily unique
  NoId,
  MaxMsgs,      \* bound: MAIL commands of a connection
  MaxRcpts      \* bound: RCPT commands of a message

ASSUME MaxAssumption == MaxMsgs \in [Sessions -> Nat] /\ MaxRcpts \in Nat
ASSUME IdsAssumption == Ids # {} /\ NoId \notin Ids \cup Sessions

VARIABLES
  st,           \* what the MTA may call next
  msg,          \* the number of the current message, 0 before the first
  count,        \* mp_recipients
  header,       \* mp_header: the messages whose headers are in it
  body,         \* mp_body
  rlist,        \* the "recipient_list" symbol: the messages with recipients in it
  sym,          \* the mailspec: which message a symbol was set for, 0 if it is not set
  id,           \* the "id" symbol
  watch,        \* watchdog_table: id -> the connection whose strings it holds
  view,         \* history: the mailspec the last evaluation of the ACL saw
  cmds,         \* history: RCPT commands of the current message
  dirty         \* history: a message ended without eom and abort since the last clean-up

priv == <<count, header, body>>
vars == <<st, msg, priv, rlist, sym, id, watch, view, cmds, dirty>>

OffEom == {"eom", "abort", "close"}
OffEoh == OffEom \cup {"eoh", "body"}
OffData == OffEoh \cup {"data", "header"}
OffEnvrcpt == OffData \cup {"envrcpt"}
OffEnvfrom == OffEnvrcpt \cup {"envfrom"}
Any == OffEnvfrom \cup {"connect", "helo"}

Symbol == {"envfrom", "envrcpt", "recipients", "queue_id", "header_name", "headers",
           "body", "spamd_spam"}

\* Mutant of Stages: the recipient is announced for the envfrom stage, too.
StagesTooEarly(x) ==
  CASE x = "envfrom" -> OffEnvfrom [] x \in {"envrcpt", "recipients"} -> OffEnvfrom
    [] x = "queue_id" -> OffData [] x = "header_name" -> {"header"}
    [] x = "headers" -> OffEoh [] x \in {"body", "spamd_spam"} -> OffEom

\* The stages a symbol is registered for (milter_symbols, spamd_init).
Stages(x) ==
  CASE x = "envfrom" -> OffEnvfrom [] x \in {"envrcpt", "recipients"} -> OffEnvrcpt
    [] x = "queue_id" -> OffData [] x = "header_name" -> {"header"}
    [] x = "headers" -> OffEoh [] x \in {"body", "spamd_spam"} -> OffEom

\* What acl() may return in a stage (acl_action_handlers): no action at all is
\* allowed in the unknown stage, and greylist from envrcpt on.
Action(stage) ==
  IF stage \notin Any THEN {"none", "error"}
  ELSE {"none", "continue", "reject", "discard", "accept", "tempfail", "error"}
         \cup (IF stage \in OffEnvrcpt THEN {"greylist"} ELSE {})

\* milter_acl: the action becomes an sfsistat.
Stat(a) ==
  CASE a \in {"none", "continue"} -> "CONTINUE" [] a = "reject" -> "REJECT"
    [] a = "discard" -> "DISCARD" [] a = "accept" -> "ACCEPT"
    [] a \in {"tempfail", "greylist", "error"} -> "TEMPFAIL"

Stats(stage) == {Stat(a) : a \in Action(stage)}

NoSymbols == [x \in Symbol |-> 0]
NoView == [stage |-> "none"]

Init ==
  /\ st = [s \in Sessions |-> "none"]
  /\ msg = [s \in Sessions |-> 0]
  /\ count = [s \in Sessions |-> 0]
  /\ header = [s \in Sessions |-> {}]
  /\ body = [s \in Sessions |-> {}]
  /\ rlist = [s \in Sessions |-> {}]
  /\ sym = [s \in Sessions |-> NoSymbols]
  /\ id = [s \in Sessions |-> NoId]
  /\ watch = [i \in Ids |-> NoId]
  /\ view = [s \in Sessions |-> NoView]
  /\ cmds = [s \in Sessions |-> 0]
  /\ dirty = [s \in Sessions |-> FALSE]

(***************************************************************************)
(* What callbacks have in common                                           *)
(***************************************************************************)

\* Mutant of Watchdog: the entry is only created by connect, where the address is unknown.
WatchdogNever(s) == UNCHANGED watch

\* watchdog(): an unknown id gets an entry that points to the strings of s.
Watchdog(s) ==
  watch' = IF watch[id[s]] = NoId THEN [watch EXCEPT ![id[s]] = s] ELSE watch

\* milter_common_init: queue_id is looked up once per connection (the MTA knows it
\* from the data stage on).
CommonInit(s, stage) ==
  [sym[s] EXCEPT !["queue_id"] = IF @ = 0 /\ stage \in OffData \ {"close"} THEN msg[s] ELSE @]

\* What the ACL finds besides the symbols: mp_recipients, recipient_list and the buffers.
Found(s) ==
  [count |-> count[s], cmds |-> cmds[s], rlist |-> rlist[s], header |-> header[s],
   body |-> body[s]]

\* acl_symbol_get of spamd_spam, for an ACL that reads it at eom: the callback is
\* called unless the mailspec has the symbol already.
Symbols(symbols, stage, m, read) ==
  IF read /\ stage = "eom" /\ symbols["spamd_spam"] = 0
  THEN [symbols EXCEPT !["spamd_spam"] = m] ELSE symbols

\* milter_acl in the given stage of message m.
Evaluate(s, stage, m, symbols, found) ==
  \E read \in BOOLEAN :
    LET after == Symbols(symbols, stage, m, read)
    IN  /\ sym' = [sym EXCEPT ![s] = after]
        /\ view' = [view EXCEPT ![s] = [stage |-> stage, msg |-> m, sym |-> after,
                                        found |-> found, dirty |-> dirty[s]]]

\* A message is over before eom and the filter has said so: neither eom nor abort
\* will be called for it.
Ends(s, next, final) ==
  /\ st' = [st EXCEPT ![s] = IF final THEN "idle" ELSE next]
  /\ dirty' = [dirty EXCEPT ![s] = @ \/ final]

\* Mutant of ClearMsg: the recipients are not reset.
ClearMsgKeepsCount(s) ==
  /\ header' = [header EXCEPT ![s] = {}]
  /\ body' = [body EXCEPT ![s] = {}]
  /\ UNCHANGED count

\* milter_priv_clear_msg: the buffers go, the symbols stay.
ClearMsg(s) ==
  /\ header' = [header EXCEPT ![s] = {}]
  /\ body' = [body EXCEPT ![s] = {}]
  /\ count' = [count EXCEPT ![s] = 0]

(***************************************************************************)
(* The callbacks                                                           *)
(***************************************************************************)

\* milter_connect, with milter_init_stage: hostaddr_str is not known yet when the
\* watchdog is called, which ignores the connection until the next callback.
Connect(s, i, stat) ==
  /\ st[s] = "none"
  /\ st' = [st EXCEPT ![s] = IF stat = "CONTINUE" THEN "idle" ELSE "over"]
  /\ id' = [id EXCEPT ![s] = i]
  /\ UNCHANGED <<msg, priv, rlist, watch, cmds, dirty>>
  /\ Evaluate(s, "connect", 0, NoSymbols, Found(s))

\* milter_helo.
Helo(s, stat) ==
  /\ st[s] = "idle"
  /\ st' = [st EXCEPT ![s] = IF stat = "CONTINUE" THEN "idle" ELSE "over"]
  /\ Watchdog(s)
  /\ UNCHANGED <<msg, priv, rlist, id, cmds, dirty>>
  /\ Evaluate(s, "helo", msg[s], CommonInit(s, "helo"), Found(s))

\* milter_unknown, possible in every state of the connection.
Unknown(s, stat) ==
  /\ st[s] \notin {"none", "over", "closed"}
  /\ Watchdog(s)
  /\ UNCHANGED <<st, msg, priv, rlist, id, cmds, dirty>>
  /\ Evaluate(s, "unknown", msg[s], CommonInit(s, "unknown"), Found(s))

\* milter_envfrom.
EnvFrom(s, stat) ==
  LET m == msg[s] + 1 IN
  /\ st[s] = "idle"
  /\ msg[s] < MaxMsgs[s]
  /\ msg' = [msg EXCEPT ![s] = m]
  /\ cmds' = [cmds EXCEPT ![s] = 0]
  /\ Watchdog(s)
  /\ UNCHANGED <<priv, rlist, id>>
  /\ Evaluate(s, "envfrom", m, [CommonInit(s, "envfrom") EXCEPT !["envfrom"] = m],
              [Found(s) EXCEPT !.cmds = 0])
  /\ Ends(s, "mail", stat # "CONTINUE")

\* milter_envfrom with an address it cannot handle: tempfail without an ACL.
EnvFromFails(s) ==
  /\ st[s] = "idle"
  /\ msg[s] < MaxMsgs[s]
  /\ Watchdog(s)
  /\ sym' = [sym EXCEPT ![s] = CommonInit(s, "envfrom")]
  /\ UNCHANGED <<st, msg, priv, rlist, id, view, cmds, dirty>>

\* milter_envrcpt: an answer other than accept and discard concerns the recipient
\* only, and a recipient that is not turned away joins recipient_list.
EnvRcpt(s, stat) ==
  LET n == count[s] + 1
      c == cmds[s] + 1 IN
  /\ st[s] \in {"mail", "rcpt"}
  /\ cmds[s] < MaxRcpts
  /\ count' = [count EXCEPT ![s] = n]
  /\ cmds' = [cmds EXCEPT ![s] = c]
  /\ rlist' = [rlist EXCEPT ![s] = IF stat \in {"CONTINUE", "ACCEPT"} THEN @ \cup {msg[s]} ELSE @]
  /\ Watchdog(s)
  /\ UNCHANGED <<msg, header, body, id>>
  /\ Evaluate(s, "envrcpt", msg[s],
              [CommonInit(s, "envrcpt") EXCEPT !["envrcpt"] = msg[s], !["recipients"] = msg[s]],
              [Found(s) EXCEPT !.count = n, !.cmds = c])
  /\ Ends(s, IF stat = "CONTINUE" THEN "rcpt" ELSE st[s], stat \in {"ACCEPT", "DISCARD"})

\* milter_envrcpt with an address it cannot handle: counted all the same.
EnvRcptFails(s) ==
  /\ st[s] \in {"mail", "rcpt"}
  /\ cmds[s] < MaxRcpts
  /\ count' = [count EXCEPT ![s] = @ + 1]
  /\ cmds' = [cmds EXCEPT ![s] = @ + 1]
  /\ Watchdog(s)
  /\ sym' = [sym EXCEPT ![s] = CommonInit(s, "envrcpt")]
  /\ UNCHANGED <<st, msg, header, body, rlist, id, view, dirty>>

\* milter_data.
Data(s, stat) ==
  /\ st[s] = "rcpt"
  /\ Watchdog(s)
  /\ UNCHANGED <<msg, priv, rlist, id, cmds>>
  /\ Evaluate(s, "data", msg[s], [CommonInit(s, "data") EXCEPT !["recipients"] = msg[s]],
              Found(s))
  /\ Ends(s, "data", stat # "CONTINUE")

\* milter_header: the header is appended to the buffer.
Header(s, stat) ==
  /\ st[s] = "data"
  /\ header' = [header EXCEPT ![s] = @ \cup {msg[s]}]
  /\ Watchdog(s)
  /\ UNCHANGED <<msg, count, body, rlist, id, cmds>>
  /\ Evaluate(s, "header", msg[s], [CommonInit(s, "header") EXCEPT !["header_name"] = msg[s]],
              [Found(s) EXCEPT !.header = header'[s]])
  /\ Ends(s, "data", stat # "CONTINUE")

\* milter_eoh.
Eoh(s, stat) ==
  /\ st[s] = "data"
  /\ Watchdog(s)
  /\ UNCHANGED <<msg, priv, rlist, id, cmds>>
  /\ Evaluate(s, "eoh", msg[s], [CommonInit(s, "eoh") EXCEPT !["headers"] = msg[s]], Found(s))
  /\ Ends(s, "eoh", stat # "CONTINUE")

\* milter_body: the chunk is appended to the buffer.
Body(s, stat) ==
  /\ st[s] = "eoh"
  /\ body' = [body EXCEPT ![s] = @ \cup {msg[s]}]
  /\ Watchdog(s)
  /\ UNCHANGED <<msg, count, header, rlist, id, cmds>>
  /\ Evaluate(s, "body", msg[s], CommonInit(s, "body"),
              [Found(s) EXCEPT !.body = body'[s]])
  /\ Ends(s, "eoh", stat # "CONTINUE")

\* milter_eom: the buffers are freed after the evaluation.
Eom(s, stat) ==
  /\ st[s] = "eoh"
  /\ st' = [st EXCEPT ![s] = "idle"]
  /\ Watchdog(s)
  /\ Evaluate(s, "eom", msg[s], [CommonInit(s, "eom") EXCEPT !["body"] = msg[s]], Found(s))
  /\ ClearMsg(s)
  /\ dirty' = [dirty EXCEPT ![s] = FALSE]
  /\ UNCHANGED <<msg, rlist, id, cmds>>

\* milter_abort: the message is given up before eom (RSET, EHLO or a lost client).
Abort(s, stat) ==
  /\ st[s] \in {"mail", "rcpt", "data", "eoh"}
  /\ st' = [st EXCEPT ![s] = "idle"]
  /\ Watchdog(s)
  /\ Evaluate(s, "abort", msg[s], CommonInit(s, "abort"), Found(s))
  /\ ClearMsg(s)
  /\ dirty' = [dirty EXCEPT ![s] = FALSE]
  /\ UNCHANGED <<msg, rlist, id, cmds>>

\* milter_close: watchdog_close removes whatever entry there is for the id, and the
\* priv and its symbols are freed.
Close(s, stat) ==
  /\ st[s] \in {"idle", "over"}
  /\ st' = [st EXCEPT ![s] = "closed"]
  /\ watch' = [watch EXCEPT ![id[s]] = NoId]
  /\ Evaluate(s, "close", msg[s], CommonInit(s, "close"), Found(s))
  /\ UNCHANGED <<msg, priv, rlist, id, cmds, dirty>>

Next ==
  \E s \in Sessions :
    \/ \E i \in Ids, stat \in Stats("connect") : Connect(s, i, stat)
    \/ \E stat \in Stats("helo") : Helo(s, stat)
    \/ \E stat \in Stats("unknown") : Unknown(s, stat)
    \/ \E stat \in Stats("envfrom") : EnvFrom(s, stat)
    \/ EnvFromFails(s)
    \/ \E stat \in Stats("envrcpt") : EnvRcpt(s, stat)
    \/ EnvRcptFails(s)
    \/ \E stat \in Stats("data") : Data(s, stat)
    \/ \E stat \in Stats("header") : Header(s, stat)
    \/ \E stat \in Stats("eoh") : Eoh(s, stat)
    \/ \E stat \in Stats("body") : Body(s, stat)
    \/ \E stat \in Stats("eom") : Eom(s, stat)
    \/ \E stat \in Stats("abort") : Abort(s, stat)
    \/ \E stat \in Stats("close") : Close(s, stat)

Spec == Init /\ [][Next]_vars

(***************************************************************************)
(* Properties                                                              *)
(***************************************************************************)

Live(s) == st[s] \notin {"none", "closed"}

\* The stages a symbol is registered for keep the symbols of an earlier message out of
\* sight until the callback that sets them has run for the current one: whatever
\* way the earlier messages of the connection ended, an ACL of an SMTP stage (abort
\* and close excepted) reads the sender, recipient, counters and buffers of its own
\* message.  Only what milter_priv_clear_msg or a callback cached is older.
MaskProtects ==
  \A s \in Sessions : LET v == view[s] IN
    v.stage \notin {"none", "abort", "close"} =>
      /\ \A x \in Symbol \ {"queue_id", "spamd_spam"} :
           v.stage \in Stages(x) => v.sym[x] = v.msg
      /\ v.stage \in OffData => v.msg \in v.found.rlist

\* If all messages since the last clean-up went through eom or abort, the evaluation
\* of a message finds only its own headers, body and number of recipients.
CleanMessage ==
  \A s \in Sessions : LET v == view[s] IN
    v.stage \in OffEnvfrom \ {"close"} /\ ~v.dirty =>
      /\ v.found.count = v.found.cmds
      /\ v.found.header \subseteq {v.msg}
      /\ v.found.body \subseteq {v.msg}

\* The watchdog watches the living: the strings an entry points to belong to a connection
\* that has not been freed, even when two connections share an id and one of them closes,
\* and a connection with an id of its own has an entry from its second callback until
\* it is closed.
Watched ==
  /\ \A i \in Ids : watch[i] # NoId => Live(watch[i])
  /\ \A s \in Sessions :
       Live(s) /\ view[s].stage # "connect" /\ (\A t \in Sessions \ {s} : id[t] # id[s])
         => watch[id[s]] = s

\* "SpamAssassin verdict on current message": the verdict an ACL reads at eom was
\* obtained for the message it is evaluated for.
VerdictIsCurrent ==
  \A s \in Sessions : LET v == view[s] IN
    v.stage = "eom" => v.sym["spamd_spam"] \in {0, v.msg}
=============================================================================
