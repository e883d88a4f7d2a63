----------------------------- MODULE QueryLabel -----------------------------
(***************************************************************************)
(* aa_query_file_path, aa_query_link_path and aa_query_label (kernel.c):   *)
(* the query that is put together, and the file .access that answers it,   *)
(* while the interface is mounted and unmounted and the label is removed.  *)
(* The query is a sequence of bytes after the command's name; NUL and      *)
(* AA_CLASS_FILE are bytes.                                                *)
(***************************************************************************)
EXTENDS ChangeHat

CONSTANTS Queries      \* [kind, mask, label, path, target], the last three sequences of bytes
VARIABLES q,           \* the call: [st, args, sent, reply, rc, allowed, audited]
          aafs,        \* [mounted, access, known, seen]: the interface, its file, the label; what the library found
          asked        \* history: whether the label was known when it was written
query_vars == <<q, aafs, asked>>

Zero == "NUL"
AA_CLASS_FILE == "file"
NoAnswer == [allow |-> {}, deny |-> {}, audit |-> {}, quiet |-> {}]
NoQuery == [st |-> "none", args |-> [kind |-> "none", mask |-> {}, label |-> <<>>, path |-> <<>>, target |-> <<>>],
            sent |-> <<>>, reply |-> NoAnswer, rc |-> "none", allowed |-> FALSE, audited |-> FALSE]
QueryInit == /\ q = [NoQuery EXCEPT !.st = IF prog = "query" THEN "idle" ELSE "none"] /\ asked = TRUE
             /\ aafs \in IF prog = "query" THEN [mounted : BOOLEAN, access : BOOLEAN, known : {TRUE}, seen : {"unset"}]
                         ELSE {[mounted |-> FALSE, access |-> FALSE, known |-> FALSE, seen |-> "unset"]}
QueryIdle == UNCHANGED query_vars

Mounts == prog = "query" /\ aafs' = [aafs EXCEPT !.mounted = ~@] /\ NotBase /\ UNCHANGED <<q, asked>>
LabelGone == prog = "query" /\ aafs' = [aafs EXCEPT !.known = ~@] /\ NotBase /\ UNCHANGED <<q, asked>>

(* aa_query_file_path_len, aa_query_link_path_len: what is written to the   *)
(* buffer, and the size that is passed on.                                  *)
Bytes(a) == a.label \o <<Zero, AA_CLASS_FILE>> \o a.path \o IF a.kind = "link" THEN <<Zero>> \o a.target ELSE <<>>
QuerySize(a) == Len(a.label) + 1 + Len(a.path) + IF a.kind = "link" THEN 1 + Len(a.target) ELSE 0
Sent(a) == SubSeq(Bytes(a), 1, QuerySize(a))

Returns(rc) == q' = [q EXCEPT !.st = "done", !.rc = rc]
(* query_label *)
Ask(a) == /\ prog = "query" /\ q.st \in {"idle", "done"} /\ NotBase /\ UNCHANGED <<asked, aafs>>
          /\ q' = [NoQuery EXCEPT !.args = a, !.sent = Sent(a), !.st = IF a.mask = {} THEN "done" ELSE "once",
                                  !.rc = IF a.mask = {} THEN "EINVAL" ELSE "none"]
(* aafs_access_init_once: once for the process *)
FindAccess == LET seen == IF aafs.seen # "unset" THEN aafs.seen ELSE IF aafs.mounted THEN "path" ELSE "null"
              IN  /\ prog = "query" /\ q.st = "once" /\ aafs' = [aafs EXCEPT !.seen = seen] /\ NotBase /\ UNCHANGED asked
                  /\ IF seen = "null" THEN Returns("ENOMEM") ELSE q' = [q EXCEPT !.st = "open"]
(* Mutant: the error of open is passed on as it is. *)
OpenErrno_plain(errno) == errno
OpenErrno(errno) == IF errno = "ENOENT" THEN "EPROTONOSUPPORT" ELSE errno
OpenAccess == /\ prog = "query" /\ q.st = "open" /\ NotBase /\ UNCHANGED <<asked, aafs>>
              /\ \/ Returns(OpenErrno("EACCES"))
                 \/ IF aafs.mounted /\ aafs.access THEN q' = [q EXCEPT !.st = "write"] ELSE Returns(OpenErrno("ENOENT"))
(* The kernel's side: the first part of the query is the label.  Policy     *)
(* allows what the queries ask for.                                         *)
Decision(sent) == IF "d" \in Range(sent) THEN [allow |-> {"r", "w"}, deny |-> {"w"}, audit |-> {"r"}, quiet |-> {"w"}]
                  ELSE [allow |-> {"r"}, deny |-> {}, audit |-> {}, quiet |-> {}]
WriteQuery == /\ prog = "query" /\ q.st = "write" /\ NotBase /\ UNCHANGED aafs /\ asked' = aafs.known
              /\ \/ Returns("EPROTO")
                 \/ IF ~aafs.known THEN Returns("ENOENT") ELSE q' = [q EXCEPT !.st = "read", !.reply = Decision(q.sent)]
ReadAnswer ==
  LET a == q.reply
      allowed == q.args.mask \subseteq a.allow \ a.deny
      audit == IF allowed THEN a.audit ELSE {"r", "w"}
  IN  /\ prog = "query" /\ q.st = "read" /\ NotBase /\ UNCHANGED <<asked, aafs>>
      /\ \/ \E rc \in {"EPROTO", "EPROTONOSUPPORT"} : Returns(rc)
         \/ q' = [q EXCEPT !.st = "done", !.rc = "0", !.allowed = allowed, !.audited = q.args.mask \subseteq audit \ a.quiet]
Query == Mounts \/ LabelGone \/ (\E a \in Queries : Ask(a)) \/ FindAccess \/ OpenAccess \/ WriteQuery \/ ReadAnswer

(* "The only valid error path that can have errno set to ENOENT": the       *)
(* caller may conclude that the label is unknown, however the interface is  *)
(* mounted and unmounted meanwhile, and no answer is given then.            *)
EnoentMeansUnknown == q.st = "done" => /\ q.rc = "ENOENT" => ~asked
                                       /\ q.rc = "0" => asked

(* The query holds all of the path: path_len "specifies the number of bytes *)
(* in the path to use as part of the query" (aa_query_label(2)).  Violated: *)
(* the size does not count the byte of the class, so the last byte of the   *)
(* path is not sent.                                                        *)
QueryWhole == q.st # "none" /\ q.args.mask # {} => q.sent = Bytes(q.args)
=============================================================================
