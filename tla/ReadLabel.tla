----------------------------- MODULE ReadLabel -----------------------------
(***************************************************************************)
(* aa_gettaskcon, aa_getcon and aa_getpeercon (kernel.c): a confinement    *)
(* context is read into a buffer that grows, while the target may change   *)
(* to another one.  A context is a sequence of characters; "\n" and NUL    *)
(* end it, depending on the interface and on the kernel.                   *)
(***************************************************************************)
EXTENDS ChangeHat

CONSTANTS Contexts,           \* [label, mode], the contexts a target may have
          GuessSize,          \* INITIAL_GUESS_SIZE
          LsmCtxSize, Align,  \* sizeof(struct lsm_ctx), and what its entries are rounded up to
          MaxChanges
VARIABLES rd,        \* the call: [st, api, mode, via, size, got, res]
          target     \* [ctx, had, extra], extra if the kernel ends a context with "\n" or NUL where others do not
read_vars == <<rd, target>>

NUL == "NUL"
UNCONFINED == <<"u">>
ASSUME SizesAssumption == GuessSize \in Nat \ {0} /\ LsmCtxSize \in Nat /\ Align \in Nat \ {0}
(* A context is a line of text with a mode of one word; only unconfined has *)
(* none.                                                                    *)
ASSUME ContextsAssumption ==
  \A c \in Contexts : /\ c.label \in Seq(STRING) /\ c.mode \in Seq(STRING) /\ c.label # <<>>
                      /\ c.mode = <<>> => c.label = UNCONFINED
                      /\ \A i \in DOMAIN c.label : c.label[i] \notin {"\n", NUL}
                      /\ \A i \in DOMAIN c.mode : c.mode[i] \notin {" ", "\n", NUL}
NoRes == [rc |-> "none", label |-> <<>>, mode |-> <<>>, to |-> "unset"]
NoRead == [st |-> "none", api |-> "none", mode |-> FALSE, via |-> "none", size |-> 0, got |-> <<>>, res |-> NoRes]
ReadInit == /\ rd \in IF prog = "reader" THEN [st : {"start"}, api : {"task", "self", "prev", "peer"}, mode : BOOLEAN, via : {"none"},
                                               size : {GuessSize}, got : {<<>>}, res : {NoRes}]
                      ELSE {NoRead}
            /\ target \in IF prog = "reader" THEN {[ctx |-> c, had |-> <<c>>, extra |-> x] : c \in Contexts, x \in BOOLEAN}
                          ELSE {[ctx |-> [label |-> UNCONFINED, mode |-> <<>>], had |-> <<>>, extra |-> FALSE]}
ReadIdle == UNCHANGED read_vars
ReadingNow == prog = "reader" /\ rd.st \notin {"start", "end", "crash"}

Text(c) == IF c.mode = <<>> THEN c.label ELSE c.label \o <<" ", "(">> \o c.mode \o <<")">>
Ended(c, e) == Text(c) \o <<e>>
TargetChanges(c) == /\ ReadingNow /\ Len(target.had) <= MaxChanges
                    /\ target' = [target EXCEPT !.ctx = c, !.had = Append(@, c)] /\ UNCHANGED rd /\ NotBase

(* parse_unconfined and splitcon: [ok, label, mode, to], to what *mode is   *)
Opening(con) == {p \in 2 .. Len(con) - 1 : con[p] = " " /\ con[p + 1] = "("}
(* Mutant: the first opening parenthesis begins the mode. *)
SplitAt_first(con) == CHOOSE p \in Opening(con) : \A q \in Opening(con) : p <= q
SplitAt(con) == CHOOSE p \in Opening(con) : \A q \in Opening(con) : p >= q
Splitcon(con, strip) ==
  LET c == IF strip /\ con # <<>> /\ con[Len(con)] = "\n" THEN Front(con) ELSE con
      null == [ok |-> FALSE, label |-> <<>>, mode |-> <<>>, to |-> "null"]
  IN  IF con = <<>> THEN null
      ELSE IF c = UNCONFINED THEN [null EXCEPT !.ok = TRUE, !.label = c]
      ELSE IF Len(c) > 3 /\ c[Len(c)] = ")" /\ Opening(c) # {}
           THEN [ok |-> TRUE, label |-> SubSeq(c, 1, SplitAt(c) - 1), mode |-> SubSeq(c, SplitAt(c) + 2, Len(c) - 1), to |-> "mode"]
      ELSE null

Res(rc, s) == [rc |-> rc, label |-> s.label, mode |-> IF rd.mode THEN s.mode ELSE <<>>, to |-> IF rd.mode THEN s.to ELSE "unset"]
Ends(res) == rd' = [rd EXCEPT !.st = "end", !.res = res]
Fails(rc) == Ends([NoRes EXCEPT !.rc = rc, !.to = IF rd.mode THEN "null" ELSE "unset"])
(* the error path of get_self_attr_via_syscall stores to mode unasked *)
SyscallFails(rc) == IF rd.mode THEN Fails(rc) ELSE rd' = [rd EXCEPT !.st = "crash", !.res.rc = rc]

(* aa_get_self_attr chooses the interface; aa_gettaskcon has no choice. *)
Begin == /\ prog = "reader" /\ rd.st = "start" /\ UNCHANGED <<prog, sys, policy, task, foreign, target>>
         /\ lib' = IF rd.api \in {"self", "prev"} THEN SelfSyscall(lib, sys) ELSE lib
         /\ rd' = [rd EXCEPT !.st = CASE rd.api = "peer" -> "peer"
                                     [] rd.api \in {"self", "prev"} /\ lib'.syscall # "ENOSYS" -> "syscall"
                                     [] OTHER -> "open"]

(* get_self_attr_via_syscall, first and second call.  The size asked for is *)
(* that of the entry, rounded up.                                           *)
SelfText == IF target.extra THEN Ended(target.ctx, "\n") ELSE Text(target.ctx)
EntrySize == LET n == LsmCtxSize + Len(SelfText) IN Align * ((n + Align - 1) \div Align)
GotSelf == LET s == Splitcon(SelfText, TRUE) IN rd' = [rd EXCEPT !.st = "end", !.via = "syscall", !.res = Res("ok", s)]
SelfAttr1 == /\ ReadingNow /\ rd.st = "syscall" /\ NotBase /\ UNCHANGED target
             /\ IF sys.syscall # "ok" THEN IF rd.mode THEN rd' = [rd EXCEPT !.st = "open"] ELSE SyscallFails("EOPNOTSUPP")
                ELSE IF rd.api = "prev" THEN SyscallFails("EINVAL")
                ELSE IF EntrySize <= GuessSize - 1 THEN GotSelf
                ELSE rd' = [rd EXCEPT !.st = "again", !.size = EntrySize]
SelfAttr2 == /\ ReadingNow /\ rd.st = "again" /\ NotBase /\ UNCHANGED target
             /\ IF EntrySize > rd.size THEN SyscallFails("ENOSPC") ELSE GotSelf

(* aa_getprocattr and aa_getprocattr_raw, one read at a time *)
ReadOpen == LET s == ProcattrOpen(lib, sys)
            IN  /\ ReadingNow /\ rd.st = "open" /\ lib' = s.lib /\ UNCHANGED <<prog, sys, policy, task, foreign, target>>
                /\ IF s.via = "none" THEN Fails(s.errno) ELSE rd' = [rd EXCEPT !.st = "read", !.via = s.via, !.got = <<>>]
OtherLsm == rd.via = "old" /\ sys.old = "other"
ProcText == IF OtherLsm THEN IF target.extra THEN <<"o", NUL>> ELSE <<"o">> ELSE Ended(target.ctx, "\n")
Unread == SubSeq(ProcText, Len(rd.got) + 1, IF Len(ProcText) < rd.size THEN Len(ProcText) ELSE rd.size)
ReadSome == /\ ReadingNow /\ rd.st = "read" /\ NotBase /\ UNCHANGED target
            /\ ~OtherLsm => Active /\ rd.api # "prev"
            /\ Unread # <<>> /\ rd' = [rd EXCEPT !.got = @ \o Unread]
ReadError == /\ ReadingNow /\ rd.st = "read" /\ NotBase /\ UNCHANGED target
             /\ \/ Fails("ESRCH")
                \/ ~OtherLsm /\ (~Active \/ rd.api = "prev") /\ Fails("EINVAL")
(* Mutant: the buffer does not grow. *)
GrownSize_same(n) == n
GrownSize(n) == 2 * n
ReadAll == LET last == rd.got[Len(rd.got)]
               s == Splitcon(IF last = "\n" THEN rd.got ELSE Append(rd.got, NUL), TRUE)
           IN  /\ ReadingNow /\ rd.st = "read" /\ NotBase /\ UNCHANGED target
               /\ ~OtherLsm => Active /\ rd.api # "prev"
               /\ Unread = <<>>
               /\ IF last = NUL THEN Ends([NoRes EXCEPT !.rc = "ok", !.label = rd.got])
                  ELSE IF last # "\n" /\ Len(rd.got) = rd.size THEN rd' = [rd EXCEPT !.st = "open", !.size = GrownSize(@)]
                  ELSE IF s.ok THEN Ends(Res("ok", s)) ELSE Fails("EINVAL")

(* aa_getpeercon and aa_getpeercon_raw *)
PeerText == IF target.extra THEN Ended(target.ctx, NUL) ELSE Text(target.ctx)
NeedsMore(n) == n > rd.size \/ (~target.extra /\ n = rd.size)
PeerSize(n) == IF n > rd.size THEN n ELSE n + 1
GetPeer == /\ ReadingNow /\ rd.st = "peer" /\ UNCHANGED <<prog, sys, policy, task, foreign, target>> /\ lib' = Once(lib, sys, "enabled")
           /\ LET n == Len(PeerText)
                  s == Splitcon(Text(target.ctx), FALSE)
              IN  IF ParamCheck(lib, sys, "enabled") # "Y" THEN Fails("EINVAL")
                  ELSE IF NeedsMore(n) THEN rd' = [rd EXCEPT !.size = PeerSize(n)]
                  ELSE rd' = [rd EXCEPT !.st = "end", !.via = "peer", !.res = Res("ok", s)]
NoPeer == ReadingNow /\ rd.st = "peer" /\ Fails("ENOPROTOOPT") /\ NotBase /\ UNCHANGED target

ReadStep == Begin \/ SelfAttr1 \/ SelfAttr2 \/ ReadOpen \/ ReadSome \/ ReadError \/ ReadAll \/ GetPeer \/ NoPeer
Reader == ReadStep \/ \E c \in Contexts : TargetChanges(c)

(* A context that did not change while it was read is returned as it is,    *)
(* however often the buffer had to grow and whatever its name holds; the    *)
(* system call and the socket give one the target had in any case.  Only a  *)
(* context that grew can be too large (the "should never happen" of         *)
(* get_self_attr_via_syscall).                                              *)
ReadExact ==
  rd.st = "end" =>
    /\ rd.res.rc = "ok" /\ ~OtherLsm =>
         \/ \E k \in DOMAIN target.had : /\ rd.res.label = target.had[k].label
                                         /\ rd.mode => rd.res.mode = target.had[k].mode /\ (rd.res.to = "null") = (rd.res.mode = <<>>)
         \/ Len(target.had) > 1 /\ rd.via \in {"new", "old"}
    /\ rd.res.rc = "ENOSPC" => Len(target.had) > 1
    /\ rd.res.rc = "EINVAL" /\ Len(target.had) = 1 /\ rd.api # "prev" => Look(sys, "enabled") # "Y"

(* Without a place for the mode, only the system call's error path crashes. *)
CrashNeedsSyscallError == rd.st = "crash" => ~rd.mode /\ (sys.syscall = "late" \/ rd.api = "prev" \/ Len(target.had) > 1)

(* A reader gets the context or an error that is due.                       *)
ReadsAreTrue == ReadExact /\ CrashNeedsSyscallError

(* Every call ends: the buffer outgrows the context. *)
ReadingEnds == (prog = "reader") ~> (rd.st \in {"end", "crash"})
=============================================================================
