----------------------------- MODULE MountRule -----------------------------
(***************************************************************************)
(* Mount rules (parser/mount.cc, mount.h): from the options of a rule to   *)
(* sets of required and optional flags, and from these to the patterns for *)
(* the commands the kernel tells apart: remount, bind, change of the       *)
(* propagation type, move and new mount; also umount and pivotroot.        *)
(*                                                                         *)
(* A flag word is the set of its flags, of which the model keeps one or    *)
(* two of every group that is treated alike.  A rule is [class, keyword,   *)
(* conds, fields, types, mode, pri, audit]: conds are the options=(...)    *)
(* and options in (...), fields the mount point and the source, types the  *)
(* file system types.  The data of a mount cannot be given in a rule (an   *)
(* option that is no flag is an error), so opts is always empty.           *)
(***************************************************************************)
EXTENDS RuleClass

(* The flags in the order of their bits, MS_NOUSER the only one that is     *)
(* not in MS_ALL_FLAGS.                                                     *)
MsFlags == <<"ro", "nosuid", "remount", "bind", "move", "rec", "private", "nouser">>
MsAllFlags == Range(MsFlags) \ {"nouser"}
MsBindFlags == {"bind", "rec"}
MsMakeCmds == {"private", "rec"}
MsMakeFlags == MsAllFlags \ {"nosuid"}
MsMoveFlags == {"move"}
MsCmds == {"move", "remount"} \union MsBindFlags \union MsMakeCmds
MsRemountFlags == MsAllFlags \ MsMoveFlags
MsNewFlags == MsAllFlags \ MsCmds

(* mnt_opts_table: what a keyword sets and clears *)
MntOptsTable ==
  [ro |-> <<{"ro"}, {}>>, rw |-> <<{}, {"ro"}>>, nosuid |-> <<{"nosuid"}, {}>>, suid |-> <<{}, {"nosuid"}>>,
   remount |-> <<{"remount"}, {}>>, bind |-> <<{"bind"}, {}>>, rbind |-> <<{"bind", "rec"}, {}>>,
   move |-> <<{"move"}, {}>>, private |-> <<{"private"}, {}>>, rprivate |-> <<{"private", "rec"}, {}>>,
   nouser |-> <<{"nouser"}, {}>>]

(* extract_flags and process_one_option: every value must be a keyword.     *)
ExtractFlags(vals, k) == UNION {MntOptsTable[v][k] : v \in Range(vals)}
ProcessOneOption(c) == [flags |-> ExtractFlags(c.vals, 1), inv |-> ExtractFlags(c.vals, 2)]
Unknown(r) == \E i \in DOMAIN r.conds : ~(Range(r.conds[i].vals) \subseteq DOMAIN MntOptsTable)

(* extract_options hands the conditions of one kind over last first.        *)
ExtractOptions(r, comp) == Reverse(Each(ProcessOneOption, SelectSeq(r.conds, LAMBDA c : c.comp = comp)))

(* The constructor: the sets of optional flags, for which set and clear are *)
(* the same, and of required ones, with remount added for that keyword.     *)
OptFlagsGiven(r) == Each(LAMBDA c : c.flags \union c.inv, ExtractOptions(r, "in"))
Remounts(r, f) == IF r.keyword = "remount" THEN f \union {"remount"} ELSE f
FlagsGiven(r) == Each(LAMBDA c : Remounts(r, c.flags), ExtractOptions(r, "="))
ConflictingFlags(r) ==
  \E i \in DOMAIN ExtractOptions(r, "=") :
    LET c == ExtractOptions(r, "=")[i] IN Remounts(r, c.flags) \intersect c.inv # {}
NoOptions(r) == FlagsGiven(r) = <<>> /\ OptFlagsGiven(r) = <<>>
Flagsv(r) == IF FlagsGiven(r) # <<>> THEN FlagsGiven(r)
             ELSE IF NoOptions(r) /\ r.keyword # "remount" THEN <<MsAllFlags>>
             ELSE <<Remounts(r, {})>>
OptFlagsv(r) == IF OptFlagsGiven(r) # <<>> THEN OptFlagsGiven(r)
                ELSE IF ~NoOptions(r) THEN <<{}>>
                ELSE IF r.keyword = "remount" THEN <<MsRemountFlags \ {"remount"}>>
                ELSE <<MsAllFlags>>
MntPerms(r) == CASE r.keyword \in {"mount", "remount"} -> {"m"}
                 [] r.keyword = "umount" -> {"r"}
                 [] r.keyword = "pivotroot" -> {"x"}

(* build_mnt_flags.  The byte of a flag is written with two characters of   *)
(* the model's alphabet, all flags with the same number, and so is the byte *)
(* that stands for no flag at all.                                          *)
Pairs == <<<<"/", "/">>, <<"/", "p">>, <<"/", "q">>, <<"p", "/">>, <<"p", "p">>, <<"p", "q">>, <<"q", "/">>, <<"q", "p">>>>
FlagText(f) == Pairs[CHOOSE i \in DOMAIN MsFlags : MsFlags[i] = f]
NoFlagText == <<"q", "q">>
OptionalText(text) == <<"(">> \o text \o <<"|", ")">>
BuildMntFlags(flags, optional) ==
  LET one(out, f) == out \o (IF f \in optional THEN OptionalText(FlagText(f)) ELSE IF f \in flags THEN FlagText(f) ELSE <<>>)
      text == FoldLeft(one, <<>>, MsFlags)
  IN  IF flags = MsAllFlags THEN DefaultMatch ELSE IF text = <<>> THEN OptionalText(NoFlagText) ELSE text

(* build_list_val_expr: one of the types *)
BuildListValExpr(types) ==
  IF types = <<>> THEN [pcre |-> DefaultMatch, type |-> "Regex"]
  ELSE LET next(c, t) == IF c.type = "Invalid" THEN c ELSE Convert(c.pcre \o <<"|">>, t, "default")
           all == FoldLeft(next, Convert(<<"(">>, types[1], "default"), Tail(types))
       IN  [all EXCEPT !.pcre = @ \o <<")">>]

(* A source that is the word detached is the empty string.                  *)
Detached == <<"detached">>
MntPoint(r) == FilterSlashes(r.fields[1])
Device(r) == FilterSlashes(r.fields[2])
SourceEntry(r) == IF Device(r) = Detached THEN [pcre |-> <<>>, type |-> "Basic"] ELSE ConvertEntry(<<>>, Device(r), DefaultMatch)
AnyEntry == [pcre |-> DefaultMatch, type |-> "Regex"]

GenPolicy(acc, r, target, source, types, flags, optional) ==
  LET cs == <<ConvertEntry(ClassByte, target, DefaultMatch), source, types>>
  IN  IF acc.res # "ok" THEN acc
      ELSE IF ~AllValid(cs) THEN GiveUp(acc)
      ELSE AddIf(TRUE, acc, Pcres(cs) \o <<BuildMntFlags(flags, optional)>>, FlagFor(r, MntPerms(r)))

(* gen_policy_remount: no condition on source and type *)
GenPolicyRemount(acc, r, f, o) ==
  GenPolicy(acc, r, IF MntPoint(r) # None THEN MntPoint(r) ELSE Device(r), AnyEntry, AnyEntry,
            f \intersect MsRemountFlags, o \intersect MsRemountFlags)
(* gen_policy_bind_mount, gen_policy_move_mount: none on the type *)
GenPolicyBindMount(acc, r, f, o) ==
  GenPolicy(acc, r, MntPoint(r), SourceEntry(r), AnyEntry, f \intersect MsBindFlags, o \intersect MsBindFlags)
GenPolicyMoveMount(acc, r, f, o) ==
  GenPolicy(acc, r, MntPoint(r), SourceEntry(r), AnyEntry, f \intersect MsMoveFlags, o \intersect MsMoveFlags)
(* gen_policy_change_mount_type: a source alone is the mount point *)
GenPolicyChangeMountType(acc, r, f, o) ==
  IF f # {} /\ f # MsAllFlags /\ Device(r) # None /\ MntPoint(r) # None THEN GiveUp(acc)
  ELSE GenPolicy(acc, r, IF MntPoint(r) = None THEN Device(r) ELSE MntPoint(r), AnyEntry, AnyEntry,
                 f \intersect MsMakeFlags, o \intersect MsMakeFlags)
GenPolicyNewMount(acc, r, f, o) ==
  GenPolicy(acc, r, MntPoint(r), SourceEntry(r), BuildListValExpr(r.types), f \intersect MsNewFlags, o \intersect MsNewFlags)

(* gen_flag_rules: without flags all commands the other conditions allow,   *)
(* else the first command that is asked for and allowed, else a new mount   *)
(* if any other flag is given.                                              *)
GenFlagRules(acc, r, f, o) ==
  LET plain == r.types = <<>>
      single == Device(r) = None \/ MntPoint(r) = None
      remount(a) == IF Device(r) = None /\ plain THEN GenPolicyRemount(a, r, f, o) ELSE a
      bind(a) == IF plain THEN GenPolicyBindMount(a, r, f, o) ELSE a
      make(a) == IF single /\ plain THEN GenPolicyChangeMountType(a, r, f, o) ELSE a
      move(a) == IF plain THEN GenPolicyMoveMount(a, r, f, o) ELSE a
  IN  IF "m" \notin MntPerms(r) THEN acc
      ELSE IF f = {} \/ f = MsAllFlags THEN GenPolicyNewMount(move(make(bind(remount(acc)))), r, f, o)
      ELSE IF "remount" \in f /\ Device(r) = None /\ plain THEN remount(acc)
      ELSE IF "bind" \in f /\ plain THEN bind(acc)
      ELSE IF f \intersect MsMakeCmds # {} /\ single /\ plain THEN make(acc)
      ELSE IF "move" \in f /\ plain THEN move(acc)
      ELSE IF (f \union o) \ MsCmds # {} THEN GenPolicyNewMount(acc, r, f, o)
      ELSE acc

(* gen_policy_re of mnt_rule; a rule that becomes nothing is an error.      *)
UmountText(acc, r) ==
  LET c == ConvertEntry(ClassByte, MntPoint(r), DefaultMatch)
  IN  IF r.keyword # "umount" \/ acc.res # "ok" THEN acc
      ELSE IF c.type = "Invalid" THEN GiveUp(acc) ELSE AddIf(TRUE, acc, <<c.pcre>>, FlagFor(r, MntPerms(r)))
PivotText(acc, r) ==
  LET cs == <<ConvertEntry(ClassByte, MntPoint(r), DefaultMatch), ConvertEntry(<<>>, Device(r), DefaultMatch)>>
  IN  IF r.keyword # "pivotroot" \/ acc.res # "ok" THEN acc
      ELSE IF ~AllValid(cs) THEN GiveUp(acc) ELSE AddIf(TRUE, acc, Pcres(cs), FlagFor(r, MntPerms(r)))
FlagRules(r) ==
  FoldLeft(LAMBDA a, f : FoldLeft(LAMBDA b, o : GenFlagRules(b, r, f, o), a, OptFlagsv(r)), Nothing, Flagsv(r))
MountRe(r) ==
  IF Unknown(r) \/ ConflictingFlags(r) THEN NoConvert
  ELSE LET acc == PivotText(UmountText(FlagRules(r), r), r)
       IN  IF acc.texts = <<>> THEN GiveUp(acc) ELSE acc

RuleRe(r) == IF r.class = "mount" THEN MountRe(r) ELSE GenPolicyRe(r)

(***************************************************************************)
(* Reference: the command a request is by its flags, the string the kernel *)
(* looks up for it, and what a rule says about it.                         *)
(***************************************************************************)
Kind(F) == IF "remount" \in F THEN "remount" ELSE IF "bind" \in F THEN "bind" ELSE IF "private" \in F THEN "make"
           ELSE IF "move" \in F THEN "move" ELSE "new"
KernelMask(kind) == CASE kind = "bind" -> MsBindFlags [] kind = "make" -> MsMakeCmds
                      [] kind = "move" -> MsMoveFlags [] OTHER -> MsAllFlags
FlagWord(F) == FoldLeft(LAMBDA w, f : IF f \in F THEN w \o Each(Code, FlagText(f)) ELSE w, <<>>, MsFlags)
MountWord(q) ==
  LET named == Kind(q.flags) \in {"bind", "move", "new"}
  IN  JoinNul(<<<<C>> \o q.mnt, IF named THEN q.dev ELSE <<>>, IF Kind(q.flags) = "new" THEN q.type ELSE <<>>,
                FlagWord(q.flags \intersect KernelMask(Kind(q.flags)))>>)

(* Which commands the conditions of a rule leave.                           *)
Fits(r, kind) ==
  CASE kind = "new" -> TRUE
    [] kind = "remount" -> r.types = <<>> /\ Device(r) = None
    [] kind = "make" -> r.types = <<>> /\ (Device(r) = None \/ MntPoint(r) = None)
    [] OTHER -> r.types = <<>>
AtPoint(r, q) == FieldMatch(IF MntPoint(r) = None /\ Kind(q.flags) = "make" THEN Device(r) ELSE MntPoint(r), q.mnt)
FromSource(r, q) ==
  Kind(q.flags) \in {"bind", "move", "new"} =>
    IF Device(r) = Detached THEN q.dev = <<>> ELSE FieldMatch(Device(r), q.dev)
OfType(r, q) == Kind(q.flags) = "new" /\ r.types # <<>> => \E i \in DOMAIN r.types : FieldMatch(r.types[i], q.type)

(* The options, by "Mount Rules" of apparmor.d.pod.  A keyword that clears  *)
(* a flag names none: the kernel sees no flag for it.  Options with = are   *)
(* exactly what is set; of options in a list at least one is given, or, in  *)
(* a rule that also has options with =, any number beside these.            *)
Sets(V) == UNION {MntOptsTable[v][1] : v \in V}
Clears(V) == UNION {MntOptsTable[v][2] : v \in V}
OptionsOf(r, comp) == {Range(c.vals) : c \in {d \in Range(r.conds) : d.comp = comp}}
Always(r) == IF r.keyword = "remount" THEN {"remount"} ELSE {}
Exactly(r) == {Always(r) \union Sets(V) : V \in OptionsOf(r, "=")}
Start(r) == IF Exactly(r) = {} THEN {Always(r)} ELSE Exactly(r)
Listed(r) == {Sets(W) : W \in UNION {(SUBSET V) \ {{}} : V \in OptionsOf(r, "in")}}
OptionSets(r) == Exactly(r) \union {B \union S : B \in Start(r), S \in Listed(r)}
AnyOptions(r, q) == r.conds = <<>> /\ (r.keyword = "remount" => "remount" \in q.flags /\ "move" \notin q.flags)

(* The kernel tells flags apart as far as they matter to the command.       *)
SameOptions(F, q) == Kind(F) = Kind(q.flags) /\ (F \intersect KernelMask(Kind(F))) = (q.flags \intersect KernelMask(Kind(F)))
Grants(r, q) ==
  /\ Fits(r, Kind(q.flags)) /\ AtPoint(r, q) /\ FromSource(r, q) /\ OfType(r, q)
  /\ AnyOptions(r, q) \/ \E F \in OptionSets(r) : SameOptions(F, q)

(* The exceptions.  A rule with nothing but a list of options also grants   *)
(* the mount with none of them; and a flag that a keyword of a list clears  *)
(* may as well be set, as for the keyword that sets it (mnt_rule: set and   *)
(* clear mean the same thing).                                              *)
NoneListed(r) == IF Exactly(r) = {} /\ OptionsOf(r, "in") # {} THEN {Always(r)} ELSE {}
ClearedSet(r) ==
  UNION {{B \union S : B \in Start(r), S \in {T \in SUBSET (Sets(V) \union Clears(V)) : T \intersect Clears(V) # {}}} :
           V \in OptionsOf(r, "in")}
GrantsMore(r, q) ==
  /\ Fits(r, Kind(q.flags)) /\ AtPoint(r, q) /\ FromSource(r, q) /\ OfType(r, q)
  /\ \E F \in NoneListed(r) \union ClearedSet(r) : SameOptions(F, q)

(* A rule that asks for a command which its other conditions rule out, or   *)
(* for remount and move at once.                                            *)
Misfit(r) == "m" \in MntPerms(r) /\ \E F \in Start(r) \ {{}} : ~Fits(r, Kind(F)) \/ {"remount", "move"} \subseteq F

(* A rule with a source alone and no command is also written as one for the *)
(* change of the type of the source as a mount point, with any source and   *)
(* most flags optional, and so is found by other requests for that place.   *)
SourceAsPoint(r, q) ==
  /\ r.types = <<>> /\ Device(r) # None /\ MntPoint(r) = None
  /\ {} \in Start(r) /\ FieldMatch(Device(r), q.mnt)

(* Flags that may come together: rec goes with a command it extends.        *)
Asked == {F \in SUBSET MsAllFlags : Cardinality(F) <= 2 /\ ("rec" \in F => F \intersect {"bind", "private"} # {})}
Mounts == [flags : Asked, mnt : Values, dev : {<<>>, <<2>>}, type : Values]
MountRequests(r) ==
  {Request(MountWord(q), IF "m" \in MntPerms(r) /\ (Grants(r, q) \/ GrantsMore(r, q)) THEN {"m"} ELSE {}) :
     q \in {p \in Mounts : ~SourceAsPoint(r, p)}}
    \union {Request(<<C>> \o v, IF r.keyword = "umount" /\ FieldMatch(MntPoint(r), v) THEN {"r"} ELSE {}) : v \in Values}
    \union {Request(JoinNul(<<<<C>> \o v, w>>),
                    IF r.keyword = "pivotroot" /\ FieldMatch(MntPoint(r), v) /\ FieldMatch(Device(r), w) THEN {"x"} ELSE {}) :
              v, w \in Values}
RuleRequests(r) == IF r.class = "mount" THEN (IF Misfit(r) THEN {} ELSE MountRequests(r)) ELSE Requests(r)

(* What may be refused: an unknown option, a flag that is set and cleared,  *)
(* and a command that the other conditions rule out.                        *)
Refusable(r) ==
  r.class = "mount" /\ (Unknown(r) \/ Misfit(r) \/ \E V \in OptionsOf(r, "=") : Sets(V) \intersect Clears(V) # {})
=============================================================================
