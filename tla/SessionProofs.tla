--------------------------- MODULE SessionProofs ----------------------------
(***************************************************************************)
(* For any number of connections, messages and recipients, and whatever    *)
(* ids the MTA hands out: the watchdog's table points to live connections  *)
(* only (Watched), an ACL reads the symbols of its own message             *)
(* (MaskProtects), and of an undisturbed connection also its own buffers   *)
(* and number of recipients (CleanMessage).                                *)
(***************************************************************************)
EXTENDS Session, TLAPS

States == {"none", "idle", "mail", "rcpt", "data", "eoh", "over", "closed"}

Types ==
  /\ st \in [Sessions -> States]
  /\ msg \in [Sessions -> Nat]
  /\ count \in [Sessions -> Nat]
  /\ cmds \in [Sessions -> Nat]
  /\ header \in [Sessions -> SUBSET Nat]
  /\ body \in [Sessions -> SUBSET Nat]
  /\ rlist \in [Sessions -> SUBSET Nat]
  /\ id \in [Sessions -> Ids \cup {NoId}]
  /\ dirty \in [Sessions -> BOOLEAN]

TypeInv ==
  /\ Types
  /\ sym \in [Sessions -> [Symbol -> Nat]]
  /\ watch \in [Ids -> Sessions \cup {NoId}]
  /\ view = [s \in Sessions |-> view[s]]

(***************************************************************************)
(* The inductive invariants: what Watched, MaskProtects and CleanMessage   *)
(* rest on between two callbacks.                                          *)
(***************************************************************************)

\* An entry is filed under the id of the connection it points to, which is why closing
\* the connection removes it.
WatchInv ==
  /\ \A i \in Ids : watch[i] # NoId => Live(watch[i]) /\ id[watch[i]] = i
  /\ \A s \in Sessions : (Live(s) => id[s] \in Ids) /\ (st[s] = "none" => id[s] = NoId)
  /\ \A s \in Sessions :
       Live(s) /\ view[s].stage # "connect" /\ (\A t \in Sessions \ {s} : id[t] # id[s])
         => watch[id[s]] = s

\* The symbols set so far in a transaction are those of its message m.
SymbolsOf(state, m, recipients, symbols) ==
  /\ state \in {"mail", "rcpt", "data", "eoh"} => symbols["envfrom"] = m
  /\ state \in {"rcpt", "data", "eoh"} =>
       /\ symbols["envrcpt"] = m
       /\ symbols["recipients"] = m
       /\ m \in recipients
  /\ state = "eoh" => symbols["headers"] = m

\* What an ACL of a stage reads, symbol by symbol.
MaskOf(stage, m, recipients, symbols) ==
  /\ stage \in OffEnvfrom => symbols["envfrom"] = m
  /\ stage \in OffEnvrcpt => symbols["envrcpt"] = m /\ symbols["recipients"] = m
  /\ stage \in OffData => m \in recipients
  /\ stage = "header" => symbols["header_name"] = m
  /\ stage \in OffEoh => symbols["headers"] = m
  /\ stage \in OffEom => symbols["body"] = m

MaskInv ==
  \A s \in Sessions :
    /\ SymbolsOf(st[s], msg[s], rlist[s], sym[s])
    /\ view[s].stage \notin {"none", "abort", "close"} =>
         MaskOf(view[s].stage, view[s].msg, view[s].found.rlist, view[s].sym)

\* The buffers hold nothing between the transactions of an undisturbed connection.
BuffersOf(s) ==
  ~dirty[s] =>
    /\ st[s] \in {"none", "idle", "over"} =>
         count[s] = 0 /\ header[s] = {} /\ body[s] = {}
    /\ st[s] \in {"mail", "rcpt", "data", "eoh"} =>
         /\ count[s] = cmds[s]
         /\ header[s] \subseteq {msg[s]}
         /\ body[s] \subseteq {msg[s]}

CleanOf(found, m) ==
  /\ found.count = found.cmds
  /\ found.header \subseteq {m}
  /\ found.body \subseteq {m}

CleanInv ==
  \A s \in Sessions :
    /\ BuffersOf(s)
    /\ view[s].stage \in OffEnvfrom \ {"close"} /\ ~view[s].dirty =>
         CleanOf(view[s].found, view[s].msg)

IInv == TypeInv /\ WatchInv /\ MaskInv /\ CleanInv

(***************************************************************************)
(* Facts about the operators the callbacks share                           *)
(***************************************************************************)

\* Which symbols an ACL of a stage may read.
LEMMA StagesFacts ==
  /\ Stages("envfrom") = OffEnvfrom
  /\ Stages("envrcpt") = OffEnvrcpt /\ Stages("recipients") = OffEnvrcpt
  /\ Stages("queue_id") = OffData
  /\ Stages("header_name") = {"header"}
  /\ Stages("headers") = OffEoh
  /\ Stages("body") = OffEom /\ Stages("spamd_spam") = OffEom
BY DEF Stages

\* milter_common_init and the lookups of an ACL touch no symbol but queue_id and
\* spamd_spam.
LEMMA CommonInitKeeps ==
  ASSUME TypeInv, NEW s \in Sessions, NEW stage
  PROVE  /\ CommonInit(s, stage) \in [Symbol -> Nat]
         /\ \A x \in Symbol \ {"queue_id"} : CommonInit(s, stage)[x] = sym[s][x]
BY DEF TypeInv, Types, CommonInit, Symbol

\* The lookups of an ACL cache spamd_spam and leave every other symbol as it is.
LEMMA SymbolsKeeps ==
  ASSUME NEW symbols \in [Symbol -> Nat], NEW stage, NEW m \in Nat, NEW read \in BOOLEAN
  PROVE  /\ Symbols(symbols, stage, m, read) \in [Symbol -> Nat]
         /\ \A x \in Symbol \ {"spamd_spam"} : Symbols(symbols, stage, m, read)[x] = symbols[x]
BY DEF Symbols, Symbol

\* milter_acl records what the ACL saw, and changes this connection only.
LEMMA EvaluateFacts ==
  ASSUME TypeInv, NEW s \in Sessions, NEW stage, NEW m \in Nat,
         NEW symbols \in [Symbol -> Nat], NEW found,
         Evaluate(s, stage, m, symbols, found)
  PROVE  /\ sym' \in [Sessions -> [Symbol -> Nat]]
         /\ \A t \in Sessions \ {s} : sym'[t] = sym[t] /\ view'[t] = view[t]
         /\ \A x \in Symbol \ {"spamd_spam"} : sym'[s][x] = symbols[x]
         /\ view' = [t \in Sessions |-> view'[t]]
         /\ view'[s].stage = stage
         /\ view'[s].msg = m
         /\ view'[s].sym = sym'[s]
         /\ view'[s].found = found
         /\ view'[s].dirty = dirty[s]
<1>1. PICK read \in BOOLEAN :
        LET after == Symbols(symbols, stage, m, read)
        IN  /\ sym' = [sym EXCEPT ![s] = after]
            /\ view' = [view EXCEPT ![s] = [stage |-> stage, msg |-> m, sym |-> after,
                                            found |-> found, dirty |-> dirty[s]]]
  BY DEF Evaluate
<1> DEFINE after == Symbols(symbols, stage, m, read)
           seen == [stage |-> stage, msg |-> m, sym |-> after, found |-> found,
                    dirty |-> dirty[s]]
<1>2. after \in [Symbol -> Nat] /\ \A x \in Symbol \ {"spamd_spam"} : after[x] = symbols[x]
  BY SymbolsKeeps
<1>3. /\ seen.stage = stage /\ seen.msg = m /\ seen.sym = after
      /\ seen.found = found /\ seen.dirty = dirty[s]
  OBVIOUS
<1>4. sym' = [sym EXCEPT ![s] = after] /\ view' = [view EXCEPT ![s] = seen]
  BY <1>1
<1> HIDE DEF after, seen
<1>5. sym'[s] = after /\ view'[s] = seen
  BY <1>4 DEF TypeInv, Types
<1> QED  BY <1>2, <1>3, <1>4, <1>5 DEF TypeInv, Types

\* watchdog() in a callback of a live connection that goes on: whoever shares the id,
\* the entry points to a live connection with that id.
LEMMA WatchdogStep ==
  ASSUME TypeInv, WatchInv, NEW s \in Sessions, Live(s), Watchdog(s), id' = id,
         st' \in [Sessions -> States],
         \A t \in Sessions \ {s} : st'[t] = st[t] /\ view'[t] = view[t],
         Live(s)'
  PROVE  watch' \in [Ids -> Sessions \cup {NoId}] /\ WatchInv'
<1>1. id[s] \in Ids /\ NoId \notin Sessions
  BY IdsAssumption DEF WatchInv
<1>2. watch' \in [Ids -> Sessions \cup {NoId}]
  BY <1>1 DEF TypeInv, Types, Watchdog
<1>3. \A t \in Sessions : (Live(t) <=> Live(t)') /\ (st'[t] = "none" => st[t] = "none")
  BY DEF Live
<1>4. /\ \A i \in Ids : i # id[s] => watch'[i] = watch[i]
      /\ watch'[id[s]] = IF watch[id[s]] = NoId THEN s ELSE watch[id[s]]
  BY <1>1 DEF TypeInv, Types, Watchdog
<1>5. \A i \in Ids : watch'[i] # NoId =>
        st'[watch'[i]] \notin {"none", "closed"} /\ id[watch'[i]] = i
  <2> TAKE i \in Ids
  <2>1. CASE i # id[s]
    BY <1>2, <1>3, <1>4, <2>1 DEF WatchInv, TypeInv, Types, Live
  <2>2. CASE i = id[s] /\ watch[i] = NoId
    BY <1>4, <2>2 DEF Live
  <2>3. CASE i = id[s] /\ watch[i] # NoId
    BY <1>2, <1>3, <1>4, <2>3 DEF WatchInv, TypeInv, Types, Live
  <2> QED  BY <2>1, <2>2, <2>3
<1>6. ASSUME NEW t \in Sessions, Live(t)', view'[t].stage # "connect",
             \A u \in Sessions \ {t} : id[u] # id[t]
      PROVE  watch'[id[t]] = t
  <2>1. CASE t # s
    <3>1. Live(t) /\ view[t].stage # "connect" /\ id[t] \in Ids /\ id[t] # id[s]
      BY <1>3, <1>6, <2>1 DEF WatchInv
    <3> QED  BY <1>4, <1>6, <3>1 DEF WatchInv
  <2>2. CASE t = s
    <3>1. watch[id[s]] # NoId => watch[id[s]] \in Sessions /\ id[watch[id[s]]] = id[s]
      BY <1>1 DEF WatchInv, TypeInv, Types
    <3> QED  BY <1>4, <1>6, <2>2, <3>1
  <2> QED  BY <2>1, <2>2
<1> QED  BY <1>2, <1>3, <1>5, <1>6 DEF WatchInv, Live


\* A callback of s, up to its evaluation of the ACL and the watchdog: whoever else is
\* connected, the invariant is preserved if the callback of s respects it.
Touches(s) ==
  \A t \in Sessions \ {s} :
    /\ st'[t] = st[t] /\ msg'[t] = msg[t] /\ count'[t] = count[t] /\ cmds'[t] = cmds[t]
    /\ header'[t] = header[t] /\ body'[t] = body[t] /\ rlist'[t] = rlist[t]
    /\ dirty'[t] = dirty[t]

\* milter_acl and the watchdog at the end of a callback preserve the invariant.
LEMMA EvaluateStep ==
  ASSUME IInv, NEW s \in Sessions, Types', Touches(s),
         watch' \in [Ids -> Sessions \cup {NoId}],
         WatchInv',
         NEW stage, NEW m \in Nat, NEW symbols \in [Symbol -> Nat], NEW found,
         Evaluate(s, stage, m, symbols, found),
         SymbolsOf(st'[s], msg'[s], rlist'[s], symbols),
         stage \notin {"none", "abort", "close"} => MaskOf(stage, m, found.rlist, symbols),
         BuffersOf(s)',
         stage \in OffEnvfrom \ {"close"} /\ ~dirty[s] => CleanOf(found, m)
  PROVE  IInv'
<1>1. TypeInv
  BY DEF IInv
<1>2. /\ sym' \in [Sessions -> [Symbol -> Nat]]
      /\ \A t \in Sessions \ {s} : sym'[t] = sym[t] /\ view'[t] = view[t]
      /\ \A x \in Symbol \ {"spamd_spam"} : sym'[s][x] = symbols[x]
      /\ view' = [t \in Sessions |-> view'[t]]
      /\ view'[s].stage = stage
      /\ view'[s].msg = m
      /\ view'[s].sym = sym'[s]
      /\ view'[s].found = found
      /\ view'[s].dirty = dirty[s]
  BY <1>1, EvaluateFacts
<1>3. TypeInv'
  BY <1>2 DEF TypeInv
<1>4. MaskInv'
  <2>1. ASSUME NEW t \in Sessions \ {s}
        PROVE  /\ SymbolsOf(st'[t], msg'[t], rlist'[t], sym'[t])
               /\ view'[t].stage \notin {"none", "abort", "close"} =>
                    MaskOf(view'[t].stage, view'[t].msg, view'[t].found.rlist, view'[t].sym)
    BY <1>2, <2>1 DEF IInv, MaskInv, Touches
  <2>2. \A x \in {"envfrom", "envrcpt", "recipients", "header_name", "headers", "body"} :
          sym'[s][x] = symbols[x]
    BY <1>2 DEF Symbol
  <2>3. SymbolsOf(st'[s], msg'[s], rlist'[s], sym'[s])
    BY <2>2 DEF SymbolsOf
  <2>4. view'[s].stage \notin {"none", "abort", "close"} =>
          MaskOf(view'[s].stage, view'[s].msg, view'[s].found.rlist, view'[s].sym)
    BY <1>2, <2>2 DEF MaskOf
  <2> QED  BY <2>1, <2>3, <2>4 DEF MaskInv
<1>5. CleanInv'
  <2>1. ASSUME NEW t \in Sessions \ {s}
        PROVE  BuffersOf(t)' /\ view'[t] = view[t]
    BY <1>2, <2>1 DEF IInv, CleanInv, Touches, BuffersOf
  <2> QED  BY <1>2, <2>1 DEF IInv, CleanInv
<1> QED  BY <1>3, <1>4, <1>5 DEF IInv

\* The same for the callbacks that call watchdog() and leave the connection open.
LEMMA CallbackStep ==
  ASSUME IInv, NEW s \in Sessions, Types', Touches(s), Live(s), Live(s)', Watchdog(s),
         id' = id,
         NEW stage, NEW m \in Nat, NEW symbols \in [Symbol -> Nat], NEW found,
         Evaluate(s, stage, m, symbols, found),
         SymbolsOf(st'[s], msg'[s], rlist'[s], symbols),
         stage \notin {"none", "abort", "close"} => MaskOf(stage, m, found.rlist, symbols),
         BuffersOf(s)',
         stage \in OffEnvfrom \ {"close"} /\ ~dirty[s] => CleanOf(found, m)
  PROVE  IInv'
<1>1. TypeInv /\ WatchInv
  BY DEF IInv
<1>2. st' \in [Sessions -> States]
  BY DEF Types
<1>3. \A t \in Sessions \ {s} : st'[t] = st[t] /\ view'[t] = view[t]
  BY <1>1, EvaluateFacts DEF Touches
<1>4. watch' \in [Ids -> Sessions \cup {NoId}] /\ WatchInv'
  BY <1>1, <1>2, <1>3, WatchdogStep
<1> QED  BY <1>4, EvaluateStep

(***************************************************************************)
(* One lemma per callback                                                  *)
(***************************************************************************)

\* What every callback may assume of its connection.
LEMMA Before ==
  ASSUME IInv, NEW s \in Sessions
  PROVE  /\ TypeInv /\ Types
         /\ msg[s] \in Nat /\ count[s] \in Nat /\ cmds[s] \in Nat /\ dirty[s] \in BOOLEAN
         /\ sym[s] \in [Symbol -> Nat]
         /\ SymbolsOf(st[s], msg[s], rlist[s], sym[s])
         /\ BuffersOf(s)
BY DEF IInv, TypeInv, Types, MaskInv, CleanInv

\* milter_data.
LEMMA DataStep ==
  ASSUME IInv, NEW s \in Sessions, NEW stat, Data(s, stat)
  PROVE  IInv'
<1> DEFINE m == msg[s]
           symbols == [CommonInit(s, "data") EXCEPT !["recipients"] = m]
           found == Found(s)
<1>1. TypeInv /\ Types /\ m \in Nat /\ BuffersOf(s)
      /\ SymbolsOf(st[s], msg[s], rlist[s], sym[s])
  BY Before
<1>2. /\ symbols \in [Symbol -> Nat]
      /\ \A x \in {"envfrom", "envrcpt", "headers"} : symbols[x] = sym[s][x]
      /\ symbols["recipients"] = m
  BY <1>1, CommonInitKeeps DEF Symbol
<1>3. /\ Evaluate(s, "data", m, symbols, found)
      /\ Watchdog(s) /\ id' = id
  BY DEF Data
<1>4. found.rlist = rlist[s] /\ (~dirty[s] => CleanOf(found, m))
  BY <1>1 DEF Data, BuffersOf, CleanOf, Found, Types
<1> HIDE DEF symbols, found
<1>5. Types' /\ Touches(s) /\ Live(s) /\ Live(s)'
  BY <1>1 DEF Data, Ends, Types, Touches, States, Live, priv
<1>6. SymbolsOf(st'[s], msg'[s], rlist'[s], symbols)
  BY <1>1, <1>2 DEF Data, Ends, SymbolsOf, Types
<1>7. MaskOf("data", m, found.rlist, symbols)
  BY <1>1, <1>2, <1>4 DEF Data, SymbolsOf, MaskOf, OffEom, OffEoh, OffData, OffEnvrcpt, OffEnvfrom
<1>8. BuffersOf(s)'
  BY <1>1 DEF Data, Ends, BuffersOf, Types, priv
<1> QED  BY <1>1, <1>2, <1>3, <1>4, <1>5, <1>6, <1>7, <1>8, CallbackStep

\* milter_header.
LEMMA HeaderStep ==
  ASSUME IInv, NEW s \in Sessions, NEW stat, Header(s, stat)
  PROVE  IInv'
<1> DEFINE m == msg[s]
           symbols == [CommonInit(s, "header") EXCEPT !["header_name"] = m]
           found == [Found(s) EXCEPT !.header = header'[s]]
<1>1. TypeInv /\ Types /\ m \in Nat /\ BuffersOf(s)
      /\ SymbolsOf(st[s], msg[s], rlist[s], sym[s])
  BY Before
<1>2. /\ symbols \in [Symbol -> Nat]
      /\ \A x \in {"envfrom", "envrcpt", "headers", "recipients"} : symbols[x] = sym[s][x]
      /\ symbols["header_name"] = m
  BY <1>1, CommonInitKeeps DEF Symbol
<1>3. /\ Evaluate(s, "header", m, symbols, found)
      /\ Watchdog(s) /\ id' = id
  BY DEF Header
<1>4. found.rlist = rlist[s] /\ (~dirty[s] => CleanOf(found, m))
  BY <1>1 DEF Header, BuffersOf, CleanOf, Found, Types
<1> HIDE DEF symbols, found
<1>5. Types' /\ Touches(s) /\ Live(s) /\ Live(s)'
  BY <1>1 DEF Header, Ends, Types, Touches, States, Live, priv
<1>6. SymbolsOf(st'[s], msg'[s], rlist'[s], symbols)
  BY <1>1, <1>2 DEF Header, Ends, SymbolsOf, Types
<1>7. MaskOf("header", m, found.rlist, symbols)
  BY <1>1, <1>2, <1>4 DEF Header, SymbolsOf, MaskOf, OffEom, OffEoh, OffData, OffEnvrcpt, OffEnvfrom
<1>8. BuffersOf(s)'
  BY <1>1 DEF Header, Ends, BuffersOf, Types, priv
<1> QED  BY <1>1, <1>2, <1>3, <1>4, <1>5, <1>6, <1>7, <1>8, CallbackStep

\* milter_eoh.
LEMMA EohStep ==
  ASSUME IInv, NEW s \in Sessions, NEW stat, Eoh(s, stat)
  PROVE  IInv'
<1> DEFINE m == msg[s]
           symbols == [CommonInit(s, "eoh") EXCEPT !["headers"] = m]
           found == Found(s)
<1>1. TypeInv /\ Types /\ m \in Nat /\ BuffersOf(s)
      /\ SymbolsOf(st[s], msg[s], rlist[s], sym[s])
  BY Before
<1>2. /\ symbols \in [Symbol -> Nat]
      /\ \A x \in {"envfrom", "envrcpt", "recipients"} : symbols[x] = sym[s][x]
      /\ symbols["headers"] = m
  BY <1>1, CommonInitKeeps DEF Symbol
<1>3. /\ Evaluate(s, "eoh", m, symbols, found)
      /\ Watchdog(s) /\ id' = id
  BY DEF Eoh
<1>4. found.rlist = rlist[s] /\ (~dirty[s] => CleanOf(found, m))
  BY <1>1 DEF Eoh, BuffersOf, CleanOf, Found, Types
<1> HIDE DEF symbols, found
<1>5. Types' /\ Touches(s) /\ Live(s) /\ Live(s)'
  BY <1>1 DEF Eoh, Ends, Types, Touches, States, Live, priv
<1>6. SymbolsOf(st'[s], msg'[s], rlist'[s], symbols)
  BY <1>1, <1>2 DEF Eoh, Ends, SymbolsOf, Types
<1>7. MaskOf("eoh", m, found.rlist, symbols)
  BY <1>1, <1>2, <1>4 DEF Eoh, SymbolsOf, MaskOf, OffEom, OffEoh, OffData, OffEnvrcpt, OffEnvfrom
<1>8. BuffersOf(s)'
  BY <1>1 DEF Eoh, Ends, BuffersOf, Types, priv
<1> QED  BY <1>1, <1>2, <1>3, <1>4, <1>5, <1>6, <1>7, <1>8, CallbackStep

\* milter_body.
LEMMA BodyStep ==
  ASSUME IInv, NEW s \in Sessions, NEW stat, Body(s, stat)
  PROVE  IInv'
<1> DEFINE m == msg[s]
           symbols == CommonInit(s, "body")
           found == [Found(s) EXCEPT !.body = body'[s]]
<1>1. TypeInv /\ Types /\ m \in Nat /\ BuffersOf(s)
      /\ SymbolsOf(st[s], msg[s], rlist[s], sym[s])
  BY Before
<1>2. /\ symbols \in [Symbol -> Nat]
      /\ \A x \in {"envfrom", "envrcpt", "headers", "recipients"} : symbols[x] = sym[s][x]
  BY <1>1, CommonInitKeeps DEF Symbol
<1>3. /\ Evaluate(s, "body", m, symbols, found)
      /\ Watchdog(s) /\ id' = id
  BY DEF Body
<1>4. found.rlist = rlist[s] /\ (~dirty[s] => CleanOf(found, m))
  BY <1>1 DEF Body, BuffersOf, CleanOf, Found, Types
<1> HIDE DEF symbols, found
<1>5. Types' /\ Touches(s) /\ Live(s) /\ Live(s)'
  BY <1>1 DEF Body, Ends, Types, Touches, States, Live, priv
<1>6. SymbolsOf(st'[s], msg'[s], rlist'[s], symbols)
  BY <1>1, <1>2 DEF Body, Ends, SymbolsOf, Types
<1>7. MaskOf("body", m, found.rlist, symbols)
  BY <1>1, <1>2, <1>4 DEF Body, SymbolsOf, MaskOf, OffEom, OffEoh, OffData, OffEnvrcpt, OffEnvfrom
<1>8. BuffersOf(s)'
  BY <1>1 DEF Body, Ends, BuffersOf, Types, priv
<1> QED  BY <1>1, <1>2, <1>3, <1>4, <1>5, <1>6, <1>7, <1>8, CallbackStep

\* milter_eom.
LEMMA EomStep ==
  ASSUME IInv, NEW s \in Sessions, NEW stat, Eom(s, stat)
  PROVE  IInv'
<1> DEFINE m == msg[s]
           symbols == [CommonInit(s, "eom") EXCEPT !["body"] = m]
           found == Found(s)
<1>1. TypeInv /\ Types /\ m \in Nat /\ BuffersOf(s)
      /\ SymbolsOf(st[s], msg[s], rlist[s], sym[s])
  BY Before
<1>2. /\ symbols \in [Symbol -> Nat]
      /\ \A x \in {"envfrom", "envrcpt", "headers", "recipients"} : symbols[x] = sym[s][x]
      /\ symbols["body"] = m
  BY <1>1, CommonInitKeeps DEF Symbol
<1>3. /\ Evaluate(s, "eom", m, symbols, found)
      /\ Watchdog(s) /\ id' = id
  BY DEF Eom
<1>4. found.rlist = rlist[s] /\ (~dirty[s] => CleanOf(found, m))
  BY <1>1 DEF Eom, BuffersOf, CleanOf, Found, Types
<1> HIDE DEF symbols, found
<1>5. Types' /\ Touches(s) /\ Live(s) /\ Live(s)'
  BY <1>1 DEF Eom, ClearMsg, Types, Touches, States, Live, priv
<1>6. SymbolsOf(st'[s], msg'[s], rlist'[s], symbols)
  BY <1>1, <1>2 DEF Eom, ClearMsg, SymbolsOf, Types
<1>7. MaskOf("eom", m, found.rlist, symbols)
  BY <1>1, <1>2, <1>4 DEF Eom, SymbolsOf, MaskOf, OffEom, OffEoh, OffData, OffEnvrcpt, OffEnvfrom
<1>8. BuffersOf(s)'
  BY <1>1 DEF Eom, ClearMsg, BuffersOf, Types, priv
<1> QED  BY <1>1, <1>2, <1>3, <1>4, <1>5, <1>6, <1>7, <1>8, CallbackStep

\* milter_abort.
LEMMA AbortStep ==
  ASSUME IInv, NEW s \in Sessions, NEW stat, Abort(s, stat)
  PROVE  IInv'
<1> DEFINE m == msg[s]
           symbols == CommonInit(s, "abort")
           found == Found(s)
<1>1. TypeInv /\ Types /\ m \in Nat /\ BuffersOf(s)
      /\ SymbolsOf(st[s], msg[s], rlist[s], sym[s])
  BY Before
<1>2. /\ symbols \in [Symbol -> Nat]
      /\ \A x \in {"envfrom", "envrcpt", "headers", "recipients"} : symbols[x] = sym[s][x]
  BY <1>1, CommonInitKeeps DEF Symbol
<1>3. /\ Evaluate(s, "abort", m, symbols, found)
      /\ Watchdog(s) /\ id' = id
  BY DEF Abort
<1>4. found.rlist = rlist[s] /\ (~dirty[s] => CleanOf(found, m))
  BY <1>1 DEF Abort, BuffersOf, CleanOf, Found, Types
<1> HIDE DEF symbols, found
<1>5. Types' /\ Touches(s) /\ Live(s) /\ Live(s)'
  BY <1>1 DEF Abort, ClearMsg, Types, Touches, States, Live, priv
<1>6. SymbolsOf(st'[s], msg'[s], rlist'[s], symbols)
  BY <1>1, <1>2 DEF Abort, ClearMsg, SymbolsOf, Types
<1>8. BuffersOf(s)'
  BY <1>1 DEF Abort, ClearMsg, BuffersOf, Types, priv
<1> QED  BY <1>1, <1>2, <1>3, <1>4, <1>5, <1>6, <1>8, CallbackStep

\* milter_envfrom.
LEMMA EnvFromStep ==
  ASSUME IInv, NEW s \in Sessions, NEW stat, EnvFrom(s, stat)
  PROVE  IInv'
<1> DEFINE m == msg[s] + 1
           symbols == [CommonInit(s, "envfrom") EXCEPT !["envfrom"] = m]
           found == [Found(s) EXCEPT !.cmds = 0]
<1>1. TypeInv /\ Types /\ m \in Nat /\ BuffersOf(s)
      /\ SymbolsOf(st[s], msg[s], rlist[s], sym[s])
  BY Before
<1>2. /\ symbols \in [Symbol -> Nat]
      /\ \A x \in {"envrcpt", "headers", "recipients"} : symbols[x] = sym[s][x]
      /\ symbols["envfrom"] = m
  BY <1>1, CommonInitKeeps DEF Symbol
<1>3. /\ Evaluate(s, "envfrom", m, symbols, found)
      /\ Watchdog(s) /\ id' = id
  BY DEF EnvFrom
<1>4. found.rlist = rlist[s] /\ (~dirty[s] => CleanOf(found, m))
  BY <1>1 DEF EnvFrom, BuffersOf, CleanOf, Found, Types
<1> HIDE DEF symbols, found
<1>5. Types' /\ Touches(s) /\ Live(s) /\ Live(s)'
  BY <1>1 DEF EnvFrom, Ends, Types, Touches, States, Live, priv
<1>6. SymbolsOf(st'[s], msg'[s], rlist'[s], symbols)
  BY <1>1, <1>2 DEF EnvFrom, Ends, SymbolsOf, Types
<1>7. MaskOf("envfrom", m, found.rlist, symbols)
  BY <1>1, <1>2, <1>4 DEF EnvFrom, SymbolsOf, MaskOf, OffEom, OffEoh, OffData, OffEnvrcpt, OffEnvfrom
<1>8. BuffersOf(s)'
  BY <1>1 DEF EnvFrom, Ends, BuffersOf, Types, priv
<1> QED  BY <1>1, <1>2, <1>3, <1>4, <1>5, <1>6, <1>7, <1>8, CallbackStep

\* milter_envrcpt.
LEMMA EnvRcptStep ==
  ASSUME IInv, NEW s \in Sessions, NEW stat, EnvRcpt(s, stat)
  PROVE  IInv'
<1> DEFINE m == msg[s]
           symbols == [CommonInit(s, "envrcpt") EXCEPT !["envrcpt"] = m, !["recipients"] = m]
           found == [Found(s) EXCEPT !.count = count[s] + 1, !.cmds = cmds[s] + 1]
<1>1. TypeInv /\ Types /\ m \in Nat /\ BuffersOf(s)
      /\ SymbolsOf(st[s], msg[s], rlist[s], sym[s])
  BY Before
<1>2. /\ symbols \in [Symbol -> Nat]
      /\ \A x \in {"envfrom", "headers"} : symbols[x] = sym[s][x]
      /\ symbols["envrcpt"] = m
      /\ symbols["recipients"] = m
  BY <1>1, CommonInitKeeps DEF Symbol
<1>3. /\ Evaluate(s, "envrcpt", m, symbols, found)
      /\ Watchdog(s) /\ id' = id
  BY DEF EnvRcpt
<1>4. found.rlist = rlist[s] /\ (~dirty[s] => CleanOf(found, m))
  BY <1>1 DEF EnvRcpt, BuffersOf, CleanOf, Found, Types
<1> HIDE DEF symbols, found
<1>5. Types' /\ Touches(s) /\ Live(s) /\ Live(s)'
  BY <1>1 DEF EnvRcpt, Ends, Types, Touches, States, Live, priv
<1>6. SymbolsOf(st'[s], msg'[s], rlist'[s], symbols)
  BY <1>1, <1>2 DEF EnvRcpt, Ends, SymbolsOf, Types
<1>7. MaskOf("envrcpt", m, found.rlist, symbols)
  BY <1>1, <1>2, <1>4 DEF EnvRcpt, SymbolsOf, MaskOf, OffEom, OffEoh, OffData, OffEnvrcpt, OffEnvfrom
<1>8. BuffersOf(s)'
  BY <1>1 DEF EnvRcpt, Ends, BuffersOf, Types, priv
<1> QED  BY <1>1, <1>2, <1>3, <1>4, <1>5, <1>6, <1>7, <1>8, CallbackStep

\* milter_helo.
LEMMA HeloStep ==
  ASSUME IInv, NEW s \in Sessions, NEW stat, Helo(s, stat)
  PROVE  IInv'
<1> DEFINE m == msg[s]
           symbols == CommonInit(s, "helo")
           found == Found(s)
<1>1. TypeInv /\ Types /\ m \in Nat /\ BuffersOf(s)
      /\ SymbolsOf(st[s], msg[s], rlist[s], sym[s])
  BY Before
<1>2. /\ symbols \in [Symbol -> Nat]
      /\ \A x \in {"envfrom", "envrcpt", "headers", "recipients"} : symbols[x] = sym[s][x]
  BY <1>1, CommonInitKeeps DEF Symbol
<1>3. /\ Evaluate(s, "helo", m, symbols, found)
      /\ Watchdog(s) /\ id' = id
  BY DEF Helo
<1>4. "helo" \notin OffEnvfrom
  BY DEF OffEom, OffEoh, OffData, OffEnvrcpt, OffEnvfrom
<1> HIDE DEF symbols, found
<1>5. Types' /\ Touches(s) /\ Live(s) /\ Live(s)'
  BY <1>1 DEF Helo, Types, Touches, States, Live, priv
<1>6. SymbolsOf(st'[s], msg'[s], rlist'[s], symbols)
  BY <1>1, <1>2 DEF Helo, SymbolsOf, Types
<1>7. MaskOf("helo", m, found.rlist, symbols)
  BY <1>1, <1>2, <1>4 DEF Helo, SymbolsOf, MaskOf, OffEom, OffEoh, OffData, OffEnvrcpt
<1>8. BuffersOf(s)'
  BY <1>1 DEF Helo, BuffersOf, Types, priv
<1> QED  BY <1>1, <1>2, <1>3, <1>4, <1>5, <1>6, <1>7, <1>8, CallbackStep

\* milter_unknown.
LEMMA UnknownStep ==
  ASSUME IInv, NEW s \in Sessions, NEW stat, Unknown(s, stat)
  PROVE  IInv'
<1> DEFINE m == msg[s]
           symbols == CommonInit(s, "unknown")
           found == Found(s)
<1>1. TypeInv /\ Types /\ m \in Nat /\ BuffersOf(s)
      /\ SymbolsOf(st[s], msg[s], rlist[s], sym[s])
  BY Before
<1>2. /\ symbols \in [Symbol -> Nat]
      /\ \A x \in {"envfrom", "envrcpt", "headers", "recipients"} : symbols[x] = sym[s][x]
  BY <1>1, CommonInitKeeps DEF Symbol
<1>3. /\ Evaluate(s, "unknown", m, symbols, found)
      /\ Watchdog(s) /\ id' = id
  BY DEF Unknown
<1>4. "unknown" \notin OffEnvfrom
  BY DEF OffEom, OffEoh, OffData, OffEnvrcpt, OffEnvfrom
<1> HIDE DEF symbols, found
<1>5. Types' /\ Touches(s) /\ Live(s) /\ Live(s)'
  BY <1>1 DEF Unknown, Types, Touches, States, Live, priv
<1>6. SymbolsOf(st'[s], msg'[s], rlist'[s], symbols)
  BY <1>1, <1>2 DEF Unknown, SymbolsOf, Types
<1>7. MaskOf("unknown", m, found.rlist, symbols)
  BY <1>1, <1>2, <1>4 DEF Unknown, SymbolsOf, MaskOf, OffEom, OffEoh, OffData, OffEnvrcpt
<1>8. BuffersOf(s)'
  BY <1>1 DEF Unknown, BuffersOf, Types, priv
<1> QED  BY <1>1, <1>2, <1>3, <1>4, <1>5, <1>6, <1>7, <1>8, CallbackStep

\* milter_connect: the connection has no entry in the watchdog's table yet, and its id
\* is new to it.
LEMMA ConnectStep ==
  ASSUME IInv, NEW s \in Sessions, NEW i \in Ids, NEW stat, Connect(s, i, stat)
  PROVE  IInv'
<1>1. TypeInv /\ Types /\ WatchInv /\ BuffersOf(s)
  BY Before DEF IInv
<1>2. NoSymbols \in [Symbol -> Nat] /\ Evaluate(s, "connect", 0, NoSymbols, Found(s))
  BY DEF NoSymbols, Connect
<1>3. Types' /\ Touches(s) /\ ~Live(s) /\ st'[s] \in {"idle", "over"}
  BY <1>1 DEF Connect, Types, Touches, States, Live, priv
<1>4. /\ \A t \in Sessions \ {s} : view'[t] = view[t] /\ id'[t] = id[t]
      /\ view'[s].stage = "connect" /\ id'[s] = i /\ watch' = watch
  <2>1. /\ \A t \in Sessions \ {s} : view'[t] = view[t]
        /\ view'[s].stage = "connect"
    BY <1>1, <1>2, EvaluateFacts
  <2> QED  BY <1>1, <2>1 DEF Connect, Types
<1>5. WatchInv'
  <2>1. ASSUME NEW j \in Ids, watch[j] # NoId
        PROVE  st'[watch[j]] \notin {"none", "closed"} /\ id'[watch[j]] = j
    <3>1. watch[j] \in Sessions /\ watch[j] # s
      BY <1>1, <1>3, <2>1 DEF WatchInv, TypeInv
    <3> QED  BY <1>1, <1>3, <1>4, <2>1, <3>1 DEF WatchInv, Live, Touches
  <2>2. ASSUME NEW t \in Sessions, Live(t)'
        PROVE  id'[t] \in Ids
    BY <1>1, <1>3, <1>4, <2>2 DEF WatchInv, Live, Touches
  <2>4. \A t \in Sessions : st'[t] = "none" => id'[t] = NoId
    BY <1>1, <1>3, <1>4 DEF WatchInv, Touches
  <2>3. ASSUME NEW t \in Sessions, Live(t)', view'[t].stage # "connect",
               \A u \in Sessions \ {t} : id'[u] # id'[t]
        PROVE  watch[id'[t]] = t
    <3>1. t # s /\ Live(t) /\ view[t].stage # "connect" /\ id'[t] = id[t]
      BY <1>3, <1>4, <2>3 DEF Live, Touches
    <3>2. id[s] # id[t]
      BY <1>1, <3>1, IdsAssumption DEF WatchInv, Connect
    <3>3. \A u \in Sessions \ {t} : id[u] # id[t]
      BY <1>4, <2>3, <3>1, <3>2
    <3> QED  BY <1>1, <3>1, <3>3 DEF WatchInv
  <2> QED  BY <1>4, <2>1, <2>2, <2>3, <2>4 DEF WatchInv, Live
<1>6. SymbolsOf(st'[s], msg'[s], rlist'[s], NoSymbols)
  BY <1>3 DEF SymbolsOf
<1>7. MaskOf("connect", 0, Found(s).rlist, NoSymbols)
  BY DEF MaskOf, OffEom, OffEoh, OffData, OffEnvrcpt, OffEnvfrom
<1>8. BuffersOf(s)' /\ "connect" \notin OffEnvfrom
  BY <1>1, <1>3 DEF Connect, BuffersOf, priv, OffEom, OffEoh, OffData, OffEnvrcpt, OffEnvfrom
<1> QED  BY <1>1, <1>2, <1>3, <1>4, <1>5, <1>6, <1>7, <1>8, EvaluateStep DEF TypeInv

\* milter_close: the entry that points to the connection is the one its id finds.
LEMMA CloseStep ==
  ASSUME IInv, NEW s \in Sessions, NEW stat, Close(s, stat)
  PROVE  IInv'
<1> DEFINE symbols == CommonInit(s, "close")
<1>1. TypeInv /\ Types /\ WatchInv /\ BuffersOf(s) /\ msg[s] \in Nat
  BY Before DEF IInv
<1>2. symbols \in [Symbol -> Nat] /\ Evaluate(s, "close", msg[s], symbols, Found(s))
  BY <1>1, CommonInitKeeps DEF Close
<1> HIDE DEF symbols
<1>3. Types' /\ Touches(s) /\ Live(s) /\ st'[s] = "closed" /\ id[s] \in Ids
  BY <1>1 DEF Close, Types, Touches, States, Live, priv, WatchInv
<1>4. /\ \A t \in Sessions \ {s} : view'[t] = view[t] /\ st'[t] = st[t]
      /\ id' = id
      /\ watch' \in [Ids -> Sessions \cup {NoId}]
      /\ watch'[id[s]] = NoId
      /\ \A i \in Ids \ {id[s]} : watch'[i] = watch[i]
  BY <1>1, <1>2, <1>3, EvaluateFacts DEF Close, Touches, TypeInv
<1>5. WatchInv'
  <2>1. ASSUME NEW i \in Ids, watch'[i] # NoId
        PROVE  st'[watch'[i]] \notin {"none", "closed"} /\ id[watch'[i]] = i
    <3>1. i # id[s] /\ watch'[i] = watch[i]
      BY <1>4, <2>1
    <3>2. watch[i] \in Sessions \ {s} /\ Live(watch[i]) /\ id[watch[i]] = i
      BY <1>1, <2>1, <3>1 DEF WatchInv, TypeInv
    <3> QED  BY <1>4, <3>1, <3>2 DEF Live
  <2>2. ASSUME NEW t \in Sessions
        PROVE  (Live(t)' => id[t] \in Ids) /\ (st'[t] = "none" => id[t] = NoId)
    BY <1>1, <1>3, <1>4 DEF WatchInv, Live
  <2>3. ASSUME NEW t \in Sessions, Live(t)', view'[t].stage # "connect",
               \A u \in Sessions \ {t} : id[u] # id[t]
        PROVE  watch'[id[t]] = t
    <3>1. t # s /\ Live(t) /\ view[t].stage # "connect" /\ id[t] # id[s] /\ id[t] \in Ids
      BY <1>1, <1>3, <1>4, <2>3 DEF Live, WatchInv
    <3> QED  BY <1>1, <1>4, <2>3, <3>1 DEF WatchInv
  <2> QED  BY <1>4, <2>1, <2>2, <2>3 DEF WatchInv, Live
<1>6. SymbolsOf(st'[s], msg'[s], rlist'[s], symbols) /\ BuffersOf(s)'
  BY <1>3 DEF SymbolsOf, BuffersOf
<1> QED  BY <1>1, <1>2, <1>3, <1>4, <1>5, <1>6, EvaluateStep

\* milter_envfrom and milter_envrcpt when they fail: no ACL is evaluated.
LEMMA FailsStep ==
  ASSUME IInv, NEW s \in Sessions, EnvFromFails(s) \/ EnvRcptFails(s)
  PROVE  IInv'
<1>1. PICK stage \in {"envfrom", "envrcpt"} : sym' = [sym EXCEPT ![s] = CommonInit(s, stage)]
  BY DEF EnvFromFails, EnvRcptFails
<1>2. /\ TypeInv /\ Types /\ BuffersOf(s) /\ SymbolsOf(st[s], msg[s], rlist[s], sym[s])
      /\ WatchInv /\ MaskInv /\ CleanInv
  BY Before DEF IInv
<1>3. /\ sym' \in [Sessions -> [Symbol -> Nat]]
      /\ \A t \in Sessions \ {s} : sym'[t] = sym[t]
      /\ \A x \in {"envfrom", "envrcpt", "recipients", "headers"} : sym'[s][x] = sym[s][x]
  BY <1>1, <1>2, CommonInitKeeps DEF TypeInv, Symbol
<1>4. /\ Types' /\ Touches(s) /\ Live(s) /\ Live(s)' /\ Watchdog(s) /\ id' = id
      /\ st' = st /\ msg' = msg /\ rlist' = rlist /\ view' = view
  BY <1>2 DEF EnvFromFails, EnvRcptFails, Types, Touches, Live, priv
<1>5. watch' \in [Ids -> Sessions \cup {NoId}] /\ WatchInv'
  BY <1>2, <1>4, WatchdogStep DEF Types
<1>6. TypeInv'
  BY <1>2, <1>3, <1>4, <1>5 DEF TypeInv
<1>7. MaskInv'
  <2>1. SymbolsOf(st'[s], msg'[s], rlist'[s], sym'[s])
    BY <1>2, <1>3, <1>4 DEF SymbolsOf
  <2> QED  BY <1>2, <1>3, <1>4, <2>1 DEF MaskInv
<1>8. CleanInv'
  <2>1. BuffersOf(s)'
    BY <1>2 DEF EnvFromFails, EnvRcptFails, BuffersOf, Types, priv
  <2>2. \A t \in Sessions \ {s} : BuffersOf(t)'
    BY <1>2, <1>4 DEF CleanInv, BuffersOf, Touches
  <2> QED  BY <1>2, <1>4, <2>1, <2>2 DEF CleanInv
<1> QED  BY <1>5, <1>6, <1>7, <1>8 DEF IInv

(***************************************************************************)
(* The theorems                                                            *)
(***************************************************************************)

\* Before the first connection the invariant holds.
LEMMA Start ==
  ASSUME Init
  PROVE  IInv
<1>1. TypeInv
  BY DEF Init, TypeInv, Types, States, NoSymbols, NoView
<1>2. WatchInv
  BY IdsAssumption DEF Init, WatchInv, Live
<1>3. MaskInv
  BY DEF Init, MaskInv, SymbolsOf, NoView
<1>4. CleanInv
  BY DEF Init, CleanInv, BuffersOf, NoView, OffEom, OffEoh, OffData, OffEnvrcpt, OffEnvfrom
<1> QED  BY <1>1, <1>2, <1>3, <1>4 DEF IInv

\* Every callback preserves it.
LEMMA Step ==
  ASSUME IInv, [Next]_vars
  PROVE  IInv'
<1>1. CASE Next
  <2>1. PICK s \in Sessions :
          \/ \E i \in Ids, stat \in Stats("connect") : Connect(s, i, stat)
          \/ \E stat \in Stats("helo") : Helo(s, stat)
          \/ \E stat \in Stats("unknown") : Unknown(s, stat)
          \/ \E stat \in Stats("envfrom") : EnvFrom(s, stat)
          \/ EnvFromFails(s)
          \/ \E stat \in Stats("envrcpt") : EnvRcpt(s, stat)
          \/ EnvRcptFails(s)
          \/ \E stat \in Stats("data") : Data(s, stat)
          \/ \E stat \in Stats("header") : Header(s, stat)
          \/ \E stat \in Stats("eoh") : Eoh(s, stat)
          \/ \E stat \in Stats("body") : Body(s, stat)
          \/ \E stat \in Stats("eom") : Eom(s, stat)
          \/ \E stat \in Stats("abort") : Abort(s, stat)
          \/ \E stat \in Stats("close") : Close(s, stat)
    BY <1>1 DEF Next
  <2> QED
    BY <2>1, ConnectStep, HeloStep, UnknownStep, EnvFromStep, EnvRcptStep, FailsStep,
       DataStep, HeaderStep, EohStep, BodyStep, EomStep, AbortStep, CloseStep
<1>2. CASE UNCHANGED vars
  <2>1. TypeInv' /\ WatchInv'
    BY <1>2 DEF vars, priv, IInv, TypeInv, Types, WatchInv, Live
  <2>2. MaskInv' /\ CleanInv'
    BY <1>2 DEF vars, priv, IInv, MaskInv, CleanInv, BuffersOf
  <2> QED  BY <2>1, <2>2 DEF IInv
<1> QED  BY <1>1, <1>2

\* So it always holds.
LEMMA Inductive == Spec => []IInv
<1>1. Init => IInv
  BY Start
<1>2. IInv /\ [Next]_vars => IInv'
  BY Step
<1> QED  BY <1>1, <1>2, PTL DEF Spec

\* No entry of the watchdog's table outlives the connection whose strings it points to,
\* though connections may share an id and watchdog_close removes by id; and a connection
\* with an id of its own is watched from its second callback on.
THEOREM WatchdogSound == Spec => []Watched
<1>1. IInv => Watched
  BY DEF IInv, WatchInv, Watched
<1> QED  BY <1>1, Inductive, PTL

\* However the earlier messages of a connection ended, the stages a symbol is registered
\* for keep their values out of the ACLs of the current message.
THEOREM StagesProtect == Spec => []MaskProtects
<1>1. ASSUME MaskInv
      PROVE  MaskProtects
  <2>1. ASSUME NEW s \in Sessions, view[s].stage \notin {"none", "abort", "close"},
               NEW x \in Symbol \ {"queue_id", "spamd_spam"}, view[s].stage \in Stages(x)
        PROVE  view[s].sym[x] = view[s].msg
    BY <1>1, <2>1, StagesFacts DEF MaskInv, MaskOf, Symbol
  <2>2. ASSUME NEW s \in Sessions, view[s].stage \notin {"none", "abort", "close"},
               view[s].stage \in OffData
        PROVE  view[s].msg \in view[s].found.rlist
    BY <1>1, <2>2 DEF MaskInv, MaskOf
  <2> QED  BY <2>1, <2>2 DEF MaskProtects
<1>2. IInv => MaskProtects
  BY <1>1 DEF IInv
<1> QED  BY <1>2, Inductive, PTL

\* milter_priv_clear_msg is enough for the messages that end in eom or abort: the next
\* one finds no header, no part of a body and no recipient of theirs.
THEOREM ClearedBetweenMessages == Spec => []CleanMessage
<1>1. IInv => CleanMessage
  BY DEF IInv, CleanInv, CleanOf, CleanMessage
<1> QED  BY <1>1, Inductive, PTL
=============================================================================
