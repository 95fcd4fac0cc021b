---------------------------- MODULE PolicySyntax ----------------------------
(* The policy language: its grammar, parser and formatter.                  *)
EXTENDS Integers, Sequences, SequencesExt

-----------------------------------------------------------------------------
(***************************************************************************)
(* The grammar of policy files (voom-dsl grammar.pest) as data, and the    *)
(* matcher the pest crate runs over it.  A text is a sequence of tokens: a *)
(* word, a quoted string, a number or a symbol.  Matching is that of a     *)
(* parsing expression grammar: alternatives are tried in order, the first  *)
(* that matches is kept, and a repetition never gives anything back.  A    *)
(* literal matches a prefix of a word, the rest of the word stays to be    *)
(* matched: this is what makes the order of alternatives matter.           *)
(***************************************************************************)

CONSTANT Remainder   \* <<literal, word>> |-> what is left of the word after the literal

Token(c, t) == [c |-> c, t |-> t]
Word(w) == Token("word", <<w>>)
Sym(s)  == Token("sym", <<s>>)

(* Expressions of the grammar, all records of one shape. *)
Expr(op, s, es) == [op |-> op, s |-> s, es |-> es]
Lit(s)    == Expr("lit", s, <<>>)
Class(c)  == Expr("class", c, <<>>)
Rule(r)   == Expr("rule", r, <<>>)
AllOf(es)   == Expr("all", "", es)
OneOf(es)   == Expr("any", "", es)
Many(e)   == Expr("many", "", <<e>>)
Opt(e)    == Expr("opt", "", <<e>>)
Words(ws) == OneOf([i \in 1..Len(ws) |-> Lit(ws[i])])
Keyed(w, e)   == AllOf(<<Lit(w), Lit(":"), e>>)
Braced(e)     == AllOf(<<Lit("{"), e, Lit("}")>>)
Separated(e, sep) == AllOf(<<e, Many(AllOf(<<Lit(sep), e>>))>>)

value_or_field == OneOf(<<Rule("field_access"), Rule("value")>>)
where == Opt(AllOf(<<Lit("where"), Rule("filter_expr")>>))

LoudnessPresets == <<"ebu_r128", "ebu_r128_broadcast", "streaming_movies", "streaming_music",
                     "mobile", "voice_focused">>

TrackTargets == <<"audio", "subtitles", "subtitle", "attachments", "attachment", "video">>

(* Rules whose matches leave no node of their own in the tree. *)
Silent == {"keep_item", "transcode_item"}

PolicyRules == [
  policy |-> AllOf(<<Lit("policy"), Class("str"), Opt(Rule("extends_clause")), Lit("{"),
                   Opt(Rule("metadata")), Opt(Rule("config")), Rule("phase"), Many(Rule("phase")),
                   Lit("}")>>),
  extends_clause |-> AllOf(<<Lit("extends"), Class("str")>>),
  metadata |-> AllOf(<<Lit("metadata"), Braced(Many(Rule("metadata_item")))>>),
  metadata_item |-> OneOf(<<Keyed("version", Class("str")), Keyed("author", Class("str")),
                          Keyed("description", Class("str")), Keyed("requires_voom", Class("str")),
                          Keyed("requires_tools", Rule("list")), Keyed("test_fixtures", Rule("list"))>>),
  config |-> AllOf(<<Lit("config"), Braced(Many(Rule("config_item")))>>),
  config_item |-> OneOf(<<AllOf(<<Lit("languages"), Rule("lang_target"), Lit(":"), Rule("list")>>),
                        Keyed("on_error", Class("word")), Keyed("commentary_patterns", Rule("list")),
                        Keyed("keep_backups", Rule("boolean"))>>),
  lang_target |-> Words(<<"audio", "subtitle">>),
  phase |-> AllOf(<<Lit("phase"), Class("word"), Lit("{"), Opt(Rule("phase_extend")),
                  Many(Rule("phase_item")), Lit("}")>>),
  phase_extend |-> Lit("extend"),
  phase_item |-> OneOf(<<Rule("skip_when"), Rule("depends_on"), Rule("run_if"), Rule("on_error"),
                       Rule("clear_tags_op"), Rule("set_tag_op"), Rule("delete_tag_op"),
                       Rule("container_op"), Rule("keep_op"), Rule("remove_op"), Rule("order_op"),
                       Rule("defaults_op"), Rule("actions_op"), Rule("transcode_op"),
                       Rule("synthesize_op"), Rule("verify_op"), Rule("when_block"),
                       Rule("rules_block")>>),
  skip_when |-> AllOf(<<Lit("skip"), Lit("when"), Rule("condition")>>),
  depends_on |-> Keyed("depends_on", Rule("list")),
  run_if |-> AllOf(<<Lit("run_if"), Class("word"), Lit("."), Rule("run_if_trigger")>>),
  run_if_trigger |-> Words(<<"modified", "completed">>),
  on_error |-> Keyed("on_error", Class("word")),
  clear_tags_op |-> Lit("clear_tags"),
  set_tag_op |-> AllOf(<<Lit("set_tag"), Class("str"), value_or_field>>),
  delete_tag_op |-> AllOf(<<Lit("delete_tag"), Class("str")>>),
  container_op |-> AllOf(<<Lit("container"), Class("word")>>),
  keep_op |-> AllOf(<<Lit("keep"), Rule("track_target"), Opt(Rule("where_clause")), Opt(Rule("keep_block"))>>),
  remove_op |-> AllOf(<<Lit("remove"), Rule("track_target"), Opt(Rule("where_clause"))>>),
  track_target |-> Words(TrackTargets),
  where_clause |-> AllOf(<<Lit("where"), Rule("filter_expr")>>),
  keep_block |-> Braced(Many(Rule("keep_item"))),
  keep_item |-> Rule("normalize_block"),
  normalize_block |-> Keyed("normalize", AllOf(<<Rule("loudness_preset"), Opt(Rule("block"))>>)),
  loudness_preset |-> Words(LoudnessPresets),
  order_op |-> AllOf(<<Lit("order"), Lit("tracks"), Rule("list")>>),
  defaults_op |-> AllOf(<<Lit("defaults"), Braced(Many(Rule("default_item")))>>),
  default_item |-> AllOf(<<Words(<<"audio", "subtitle">>), Lit(":"), Class("word")>>),
  actions_op |-> AllOf(<<Words(<<"audio", "subtitle", "video">>), Lit("actions"),
                       Braced(Many(Rule("action_setting")))>>),
  action_setting |-> AllOf(<<Class("word"), Lit(":"), Rule("value")>>),
  transcode_op |-> AllOf(<<Lit("transcode"), Words(<<"video", "audio">>), Lit("to"), Class("word"),
                         Opt(Rule("transcode_block"))>>),
  transcode_block |-> Braced(Many(Rule("transcode_item"))),
  transcode_item |-> OneOf(<<Rule("transcode_fallback"), Rule("transcode_vmaf_override"),
                           Rule("transcode_kv_pair")>>),
  transcode_kv_pair |-> AllOf(<<Class("word"), Lit(":"), Rule("transcode_value")>>),
  transcode_value |-> OneOf(<<Rule("sample_strategy"), Rule("value")>>),
  sample_strategy |-> OneOf(<<AllOf(<<Rule("sample_strategy_kind"), Lit("("),
                                  Separated(Rule("sample_strategy_arg"), ","), Lit(")")>>),
                            Lit("full")>>),
  sample_strategy_kind |-> Words(<<"scenes", "uniform">>),
  sample_strategy_arg |-> AllOf(<<Class("word"), Lit(":"), Rule("value")>>),
  transcode_fallback |-> AllOf(<<Lit("fallback"), Braced(Many(Rule("kv_pair")))>>),
  transcode_vmaf_override |-> AllOf(<<Lit("target_vmaf_when"), Rule("field_access"), Lit(":"), Class("num")>>),
  verify_op |-> AllOf(<<Lit("verify"), Rule("verify_mode")>>),
  verify_mode |-> Words(<<"quick", "thorough", "hash">>),
  block |-> Braced(Many(Rule("kv_pair"))),
  kv_pair |-> AllOf(<<Class("word"), Lit(":"), Rule("value")>>),
  synthesize_op |-> AllOf(<<Lit("synthesize"), Class("str"), Braced(Many(Rule("synth_item")))>>),
  synth_item |-> OneOf(<<Keyed("codec", Class("word")),
                       Keyed("channels", OneOf(<<Class("word"), Class("num")>>)),
                       Keyed("source", Rule("source_pref")), Keyed("bitrate", Class("str")),
                       AllOf(<<Lit("skip_if_exists"), Braced(Rule("filter_expr"))>>),
                       AllOf(<<Lit("create_if"), Rule("condition")>>),
                       Keyed("title", Class("str")), Keyed("language", Class("word")),
                       Keyed("position", OneOf(<<Class("word"), Class("num")>>)),
                       Rule("normalize_block")>>),
  source_pref |-> AllOf(<<Lit("prefer"), Lit("("), Rule("filter_expr"), Lit(")")>>),
  when_block |-> AllOf(<<Lit("when"), Rule("condition"), Braced(Many(Rule("action"))),
                       Opt(Rule("else_block"))>>),
  else_block |-> AllOf(<<Lit("else"), Braced(Many(Rule("action")))>>),
  rules_block |-> AllOf(<<Lit("rules"), Rule("match_mode"), Braced(Many(Rule("rule_item")))>>),
  match_mode |-> Words(<<"first", "all">>),
  rule_item |-> AllOf(<<Lit("rule"), Class("str"), Braced(Rule("when_block"))>>),
  condition |-> Rule("condition_or"),
  condition_or |-> Separated(Rule("condition_and"), "or"),
  condition_and |-> Separated(Rule("condition_not"), "and"),
  condition_not |-> OneOf(<<AllOf(<<Lit("not"), Rule("condition_atom")>>), Rule("condition_atom")>>),
  condition_atom |-> OneOf(<<AllOf(<<Lit("exists"), Lit("("), Rule("track_query"), Lit(")")>>),
                           AllOf(<<Lit("count"), Lit("("), Rule("track_query"), Lit(")"),
                                 Rule("compare_op"), Class("num")>>),
                           Lit("audio_is_multi_language"), Lit("is_dubbed"), Lit("is_original"),
                           AllOf(<<Rule("field_access"), Rule("compare_op"), Rule("value")>>),
                           AllOf(<<Rule("field_access"), Lit("exists")>>),
                           AllOf(<<Lit("("), Rule("condition"), Lit(")")>>)>>),
  field_access |-> AllOf(<<Class("word"), Lit("."), Class("word"), Many(AllOf(<<Lit("."), Class("word")>>))>>),
  track_query |-> AllOf(<<OneOf(<<Rule("track_target"), Lit("track")>>), where>>),
  filter_expr |-> Rule("filter_or"),
  filter_or |-> Separated(Rule("filter_and"), "or"),
  filter_and |-> Separated(Rule("filter_not"), "and"),
  filter_not |-> OneOf(<<AllOf(<<Lit("not"), Rule("filter_atom")>>), Rule("filter_atom")>>),
  filter_atom |-> OneOf(<<AllOf(<<Lit("lang"), Lit("in"), Rule("list")>>),
                        AllOf(<<Lit("lang"), Rule("compare_op"), value_or_field>>),
                        AllOf(<<Lit("codec"), Lit("in"), Rule("list")>>),
                        AllOf(<<Lit("codec"), Rule("compare_op"), value_or_field>>),
                        AllOf(<<Lit("channels"), Rule("compare_op"), Class("num")>>),
                        Lit("commentary"), Lit("forced"), Lit("default"), Lit("font"),
                        AllOf(<<Lit("title"), Words(<<"contains", "matches">>), Class("str")>>),
                        AllOf(<<Lit("("), Rule("filter_expr"), Lit(")")>>)>>),
  action |-> OneOf(<<Rule("keep_op"), Rule("remove_op"), AllOf(<<Lit("skip"), Opt(Class("word"))>>),
                   AllOf(<<Lit("warn"), Class("str")>>), AllOf(<<Lit("fail"), Class("str")>>),
                   AllOf(<<Lit("set_default"), Rule("track_ref")>>),
                   AllOf(<<Lit("set_forced"), Rule("track_ref")>>),
                   AllOf(<<Lit("set_language"), Rule("track_ref"),
                         OneOf(<<Rule("field_access"), Class("str")>>)>>),
                   AllOf(<<Lit("set_tag"), Class("str"), value_or_field>>)>>),
  track_ref |-> AllOf(<<Rule("track_target"), where>>),
  compare_op |-> Words(<<"==", "!=", "<=", ">=", "<", ">", "in">>),
  list |-> AllOf(<<Lit("["), Opt(Separated(Rule("value"), ",")), Opt(Lit(",")), Lit("]")>>),
  value |-> OneOf(<<Class("str"), Class("num"), Rule("boolean"), Class("word"), Rule("list")>>),
  boolean |-> Words(<<"true", "false">>)
]

(***************************************************************************)
(* Matching.  A tree node has the rule it matched, the tokens it covers and *)
(* the nodes below it; the tokens of a class are leaves under the name of   *)
(* the class.                                                              *)
(***************************************************************************)
Node(r, text, kids) == [r |-> r, text |-> text, kids |-> kids]
Failed == [ok |-> FALSE, rest |-> <<>>, kids |-> <<>>]
Matched(rest, kids) == [ok |-> TRUE, rest |-> rest, kids |-> kids]

(* A literal against the head of the text; a symbol or a whole word is consumed, of a longer word its beginning. *)
MatchLit(s, toks) ==
  IF toks = <<>> \/ Head(toks).c \notin {"word", "sym"} THEN Failed
  ELSE LET w == Head(toks).t[1]
       IN IF w = s THEN Matched(Tail(toks), <<>>)
          ELSE IF <<s, w>> \in DOMAIN Remainder
               THEN Matched(<<Word(Remainder[<<s, w>>])>> \o Tail(toks), <<>>)
               ELSE Failed

(* What a rule matched is one node, unless the rule is silent. *)
AsNode(rule, toks, m) ==
  IF ~m.ok \/ rule \in Silent THEN m
  ELSE Matched(m.rest, <<Node(rule, SubSeq(toks, 1, Len(toks) - Len(m.rest)), m.kids)>>)

RECURSIVE Match(_, _), MatchAll(_, _), MatchAny(_, _), MatchMany(_, _)

Match(e, toks) ==
  CASE e.op = "lit"   -> MatchLit(e.s, toks)
    [] e.op = "class" -> IF toks # <<>> /\ Head(toks).c = e.s
                         THEN Matched(Tail(toks), <<Node(e.s, <<Head(toks)>>, <<>>)>>)
                         ELSE Failed
    [] e.op = "rule"  -> AsNode(e.s, toks, Match(PolicyRules[e.s], toks))
    [] e.op = "all"   -> MatchAll(e.es, toks)
    [] e.op = "any"   -> MatchAny(e.es, toks)
    [] e.op = "opt"   -> LET m == Match(e.es[1], toks) IN IF m.ok THEN m ELSE Matched(toks, <<>>)
    [] e.op = "many"  -> MatchMany(e.es[1], toks)

MatchAll(es, toks) ==
  IF es = <<>> THEN Matched(toks, <<>>)
  ELSE LET m == Match(Head(es), toks)
       IN IF ~m.ok THEN Failed
          ELSE LET n == MatchAll(Tail(es), m.rest)
               IN IF n.ok THEN Matched(n.rest, m.kids \o n.kids) ELSE Failed

MatchAny(es, toks) ==
  IF es = <<>> THEN Failed
  ELSE LET m == Match(Head(es), toks) IN IF m.ok THEN m ELSE MatchAny(Tail(es), toks)

MatchMany(e, toks) ==
  LET m == Match(e, toks)
  IN IF ~m.ok \/ m.rest = toks THEN Matched(toks, <<>>)
     ELSE LET n == MatchMany(e, m.rest) IN Matched(n.rest, m.kids \o n.kids)

-----------------------------------------------------------------------------
(***************************************************************************)
(* Reading and writing policy files: the builders that turn a match of the *)
(* grammar into the syntax tree (voom-dsl parser.rs, ast.rs) and the       *)
(* formatter behind `voom policy format` (formatter.rs).                   *)
(*                                                                         *)
(* A syntax node has a kind, a text (a sequence of symbols: one word, one  *)
(* number with its suffix, or the characters of a string) and children;    *)
(* absent optional parts are absent children.  A part that cannot be built *)
(* makes the whole tree an error, as `?` does in the parser.               *)
(***************************************************************************)

CONSTANTS Texts,       \* the policy files: sequences of tokens
          Numerals,    \* the symbols that are numbers
          MaxNesting   \* MAX_NESTING_DEPTH

VARIABLES file,        \* the text of the policy file
          written,     \* what the file's author wrote
          formats      \* how many times it has been formatted, up to 2

syntaxVars == <<file, written, formats>>

Leaf(k, v) == [k |-> k, v |-> v, kids |-> <<>>]
Bad == Leaf("error", <<>>)
Make(k, v, kids) == IF \E i \in DOMAIN kids : kids[i].k = "error" THEN Bad
                    ELSE [k |-> k, v |-> v, kids |-> kids]

RECURSIVE Flat(_)
Flat(ss) == IF ss = <<>> THEN <<>> ELSE Head(ss) \o Flat(Tail(ss))
Each(F(_), s) == [i \in DOMAIN s |-> F(s[i])]
OfRule(n, r) == SelectSeq(n.kids, LAMBDA c : c.r = r)
Kid(n, i) == n.kids[i]

(* The first word of a match, up to white space, a colon or a parenthesis. *)
leading_keyword(n) == IF Len(n.text) > 1 /\ n.text[2] = Sym(".") THEN "" ELSE n.text[1].t[1]

(* The text of a match as it stands in the file, the quotes of a string included. *)
as_str(n) == Flat(Each(LAMBDA t : IF t.c = "str" THEN <<"\"">> \o t.t \o <<"\"">> ELSE t.t, n.text))

RECURSIVE Unescape(_)
Unescape(s) ==
  IF s = <<>> THEN <<>>
  ELSE IF Head(s) = "\\" /\ Len(s) > 1
       THEN (IF s[2] \in {"\"", "\\"} THEN <<s[2]>> ELSE <<"\\", s[2]>>) \o Unescape(Tail(Tail(s)))
       ELSE <<Head(s)>> \o Unescape(Tail(s))

parse_string_value(n) == Unescape(n.text[1].t)
escape_string(s) == Flat(Each(LAMBDA c : IF c \in {"\"", "\\"} THEN <<"\\", c>> ELSE <<c>>, s))

(* The leading digits of a number; the suffix is for other readers. *)
parse_number_f64(n) == <<n.text[1].t[1]>>

build_field_access(n) == SelectSeq(as_str(n), LAMBDA c : c # ".")

---------------------------------------------------------------------------
(* Values and lists. *)

RECURSIVE build_value(_)
build_value(n) ==
  CASE n.r \in {"value", "transcode_value"} -> build_value(Kid(n, 1))
    [] n.r = "str"     -> Leaf("string", parse_string_value(n))
    [] n.r = "num"     -> Leaf("number", n.text[1].t)
    [] n.r = "boolean" -> Leaf("bool", as_str(n))
    [] n.r = "list"    -> Make("list", <<>>, Each(build_value, n.kids))
    [] n.r = "sample_strategy" /\ n.kids # <<>> ->
         Make("call", as_str(Kid(n, 1)),
              Each(LAMBDA a : Make("pair", as_str(Kid(a, 1)), <<build_value(Kid(a, 2))>>), Tail(n.kids)))
    [] OTHER           -> Leaf("ident", as_str(n))

(* The items of a list as plain strings: a quoted item loses its quotes here. *)
build_list(n) ==
  Each(LAMBDA v : LET i == Kid(v, 1)
                  IN Leaf("text", IF i.r = "str" THEN parse_string_value(i) ELSE as_str(i)), n.kids)

build_object(ns) ==
  Each(LAMBDA p : Make("pair", as_str(Kid(p, 1)), <<build_value(Kid(p, 2))>>),
       SelectSeq(ns, LAMBDA p : p.r = "kv_pair"))

parse_set_tag_value(n) == IF n.r = "field_access" THEN Leaf("field", build_field_access(n)) ELSE build_value(n)

(* The first part is taken as the preset and the second as its settings. *)
build_normalize(parts) ==
  Make("normalize", as_str(parts[1]), IF Len(parts) > 1 THEN build_object(parts[2].kids) ELSE <<>>)

---------------------------------------------------------------------------
(* Filters. *)

(* `lang` and `codec` against a list, a field or a value; the value keeps its quotes. *)
build_list_or_compare_filter(kind, kids) ==
  IF kids[1].r = "list" THEN Make("in", <<kind>>, build_list(kids[1]))
  ELSE LET op == as_str(kids[1])
           v  == kids[2]
       IN IF v.r = "field_access"
          THEN IF op \in {<<"==">>, <<"!=">>}
               THEN Make("compare", <<kind>> \o op, <<Leaf("field", build_field_access(v))>>) ELSE Bad
          ELSE CASE op \in {<<"==">>, <<"in">>} -> Make("in", <<kind>>, <<Leaf("text", as_str(Kid(v, 1)))>>)
                 [] op = <<"!=">> -> Make("compare", <<kind>> \o op, <<Leaf("text", as_str(Kid(v, 1)))>>)
                 [] OTHER -> Bad

(* One operand is itself; of several a node is made. *)
Combined(k, items) == IF Len(items) = 1 THEN items[1] ELSE Make(k, <<>>, items)
Negated(n, a) == IF leading_keyword(n) = "not" THEN Make("not", <<>>, <<a>>) ELSE a

RECURSIVE build_filter(_, _)

build_filter_atom(n, depth) ==
  LET key == leading_keyword(n)
  IN CASE key \in {"lang", "codec"} -> build_list_or_compare_filter(key, n.kids)
       [] key = "channels" -> Make("compare", <<key>> \o as_str(Kid(n, 1)),
                                   <<Leaf("number", parse_number_f64(Kid(n, 2)))>>)
       [] key = "title"    -> Make("title", n.text[2].t, <<Leaf("string", parse_string_value(Kid(n, 1)))>>)
       [] key = "("        -> IF depth + 1 > MaxNesting THEN Bad ELSE build_filter(Kid(n, 1), depth + 1)
       [] OTHER            -> Leaf("is", <<key>>)

build_filter_not(n, depth) == Negated(n, build_filter_atom(Kid(n, 1), depth))

build_filter_and(n, depth) == Combined("and", Each(LAMBDA c : build_filter_not(c, depth), n.kids))

build_filter_or(n, depth) == Combined("or", Each(LAMBDA c : build_filter_and(c, depth), n.kids))

build_filter(n, depth) == build_filter_or(Kid(n, 1), depth)

build_track_query(n) ==
  Make("query", n.text[1].t, Each(LAMBDA f : build_filter(f, 0), OfRule(n, "filter_expr")))

---------------------------------------------------------------------------
(* Conditions. *)

RECURSIVE build_condition(_, _)

build_condition_atom(n, depth) ==
  LET key == leading_keyword(n)
  IN CASE key \in {"audio_is_multi_language", "is_dubbed", "is_original"} -> Leaf("is", <<key>>)
       [] key = "exists" -> Make("exists", <<>>, <<build_track_query(Kid(n, 1))>>)
       [] key = "count"  -> Make("count", as_str(Kid(n, 2)),
                                 <<build_track_query(Kid(n, 1)), Leaf("number", parse_number_f64(Kid(n, 3)))>>)
       [] key = "("      -> IF depth + 1 > MaxNesting THEN Bad ELSE build_condition(Kid(n, 1), depth + 1)
       [] Len(n.kids) = 3 -> Make("field_compare", as_str(Kid(n, 2)),
                                  <<Leaf("field", build_field_access(Kid(n, 1))), build_value(Kid(n, 3))>>)
       [] OTHER -> Make("field_exists", <<>>, <<Leaf("field", build_field_access(Kid(n, 1)))>>)

build_condition_not(n, depth) == Negated(n, build_condition_atom(Kid(n, 1), depth))

build_condition_and(n, depth) == Combined("and", Each(LAMBDA c : build_condition_not(c, depth), n.kids))

build_condition_or(n, depth) == Combined("or", Each(LAMBDA c : build_condition_and(c, depth), n.kids))

build_condition(n, depth) == build_condition_or(Kid(n, 1), depth)

---------------------------------------------------------------------------
(* Operations. *)

build_keep_remove(n) ==
  Make(IF n.r = "keep_op" THEN "keep" ELSE "remove", as_str(Kid(n, 1)),
       Flat(Each(LAMBDA c : IF c.r = "where_clause" THEN <<build_filter(Kid(c, 1), 0)>>
                            ELSE IF c.r = "keep_block" /\ c.kids # <<>>
                                 THEN <<build_normalize(Last(c.kids).kids)>> ELSE <<>>, n.kids)))

build_track_ref(n) ==
  Make("query", as_str(Kid(n, 1)), Each(LAMBDA f : build_filter(f, 0), OfRule(n, "filter_expr")))

(* A keep or remove under a condition has no place for a normalize block: it is dropped. *)
WithoutNormalize(op) ==
  IF op = Bad THEN Bad ELSE Make(op.k, op.v, SelectSeq(op.kids, LAMBDA c : c.k # "normalize"))

KeyedAction(key, n) ==
  CASE key \in {"keep", "remove"} -> WithoutNormalize(build_keep_remove(Kid(n, 1)))
    [] key = "skip" -> Leaf("skip", IF n.kids = <<>> THEN <<>> ELSE as_str(Kid(n, 1)))
    [] key \in {"warn", "fail"} -> Leaf(key, parse_string_value(Kid(n, 1)))
    [] key \in {"set_default", "set_forced"} -> Make(key, <<>>, <<build_track_ref(Kid(n, 1))>>)
    [] key = "set_language" ->
         Make(key, <<>>, <<build_track_ref(Kid(n, 1)), parse_set_tag_value(Kid(n, 2))>>)
    [] key = "set_tag" -> Make(key, parse_string_value(Kid(n, 1)), <<parse_set_tag_value(Kid(n, 2))>>)

build_action(n) == KeyedAction(leading_keyword(n), n)

ElseActions(n) == IF OfRule(n, "else_block") = <<>> THEN <<>> ELSE Kid(n, Len(n.kids)).kids

build_when(n) ==
  Make("when", <<>>,
       <<build_condition(Kid(n, 1), 0)>>
         \o Each(LAMBDA b : Make(b[1], <<>>, Each(build_action, b[2])),
                 <<<<"then", OfRule(n, "action")>>, <<"else", ElseActions(n)>>>>))

build_rules(n) ==
  Make("rules", as_str(Kid(n, 1)),
       Each(LAMBDA r : Make("rule", parse_string_value(Kid(r, 1)), <<build_when(Kid(r, 2))>>), Tail(n.kids)))

build_defaults(n) == Make("defaults", <<>>, Each(LAMBDA d : Make("pair", <<leading_keyword(d)>>,
                                                              <<Leaf("ident", as_str(Kid(d, 1)))>>), n.kids))

build_actions(n) ==
  Make("actions", n.text[1].t,
       Each(LAMBDA s : Make("pair", as_str(Kid(s, 1)), <<build_value(Kid(s, 2))>>), n.kids))

build_transcode(n) ==
  LET Setting(c) ==
        CASE c.r = "transcode_kv_pair"  -> Make("pair", as_str(Kid(c, 1)), <<build_value(Kid(c, 2))>>)
          [] c.r = "transcode_fallback" -> Make("pair", <<"fallback">>, <<Make("object", <<>>, build_object(c.kids))>>)
          [] OTHER -> Make("pair", <<"target_vmaf_when">> \o as_str(Kid(c, 1)), <<build_value(Kid(c, 2))>>)
  IN Make("transcode", n.text[2].t,
          <<Leaf("ident", as_str(Kid(n, 1)))>>
            \o (IF Len(n.kids) > 1 THEN Each(Setting, Kid(n, 2).kids) ELSE <<>>))

build_synthesize(n) ==
  LET Setting(c) ==
        LET key == leading_keyword(c)
        IN CASE key \in {"codec", "language"} -> Make(key, <<>>, <<Leaf("ident", as_str(Kid(c, 1)))>>)
             [] key \in {"channels", "position"} -> Make(key, <<>>, <<build_value(Kid(c, 1))>>)
             [] key \in {"bitrate", "title"} -> Make(key, <<>>, <<build_value(Kid(c, 1))>>)
             [] key = "source" -> Make(key, <<>>, <<build_filter(Kid(Kid(c, 1), 1), 0)>>)
             [] key = "skip_if_exists" -> Make(key, <<>>, <<build_filter(Kid(c, 1), 0)>>)
             [] key = "create_if" -> Make(key, <<>>, <<build_condition(Kid(c, 1), 0)>>)
             [] key = "normalize" -> build_normalize(c.kids)
  IN Make("synthesize", parse_string_value(Kid(n, 1)), Each(Setting, Tail(n.kids)))

ErrorStrategies == {"abort", "continue", "skip", "quarantine"}

parse_on_error_token(n) ==
  IF as_str(n)[1] \in ErrorStrategies THEN Leaf("on_error", as_str(n)) ELSE Bad

(* Of several statements of a kind the last one counts. *)
LastOf(k, ns) == LET of == SelectSeq(ns, LAMBDA x : x.k = k) IN IF of = <<>> THEN <<>> ELSE <<Last(of)>>

ControlKinds == <<"depends_on", "skip_when", "run_if", "on_error">>

(* A phase of its statements: the last of each control, then the operations. *)
PhaseFrom(n, items) ==
  IF Bad \in ToSet(items) THEN Bad
  ELSE Make("phase", as_str(Kid(n, 1)),
            Each(LAMBDA e : Leaf("extend", <<>>), OfRule(n, "phase_extend"))
              \o Flat(Each(LAMBDA k : LastOf(k, items), ControlKinds))
              \o SelectSeq(items, LAMBDA i : i.k \notin ToSet(ControlKinds)))

build_phase_item(c) ==
  CASE c.r = "skip_when"  -> Make("skip_when", <<>>, <<build_condition(Kid(c, 1), 0)>>)
    [] c.r = "depends_on" -> Make("depends_on", <<>>, build_list(Kid(c, 1)))
    [] c.r = "run_if"     -> Leaf("run_if", as_str(Kid(c, 1)) \o as_str(Kid(c, 2)))
    [] c.r = "on_error"   -> parse_on_error_token(Kid(c, 1))
    [] c.r = "container_op" -> Leaf("container", as_str(Kid(c, 1)))
    [] c.r \in {"keep_op", "remove_op"} -> build_keep_remove(c)
    [] c.r = "order_op"   -> Make("order", <<>>, build_list(Kid(c, 1)))
    [] c.r = "defaults_op" -> build_defaults(c)
    [] c.r = "actions_op" -> build_actions(c)
    [] c.r = "transcode_op" -> build_transcode(c)
    [] c.r = "synthesize_op" -> build_synthesize(c)
    [] c.r = "clear_tags_op" -> Leaf("clear_tags", <<>>)
    [] c.r = "set_tag_op" -> Make("set_tag", parse_string_value(Kid(c, 1)), <<parse_set_tag_value(Kid(c, 2))>>)
    [] c.r = "delete_tag_op" -> Leaf("delete_tag", parse_string_value(Kid(c, 1)))
    [] c.r = "when_block" -> build_when(c)
    [] c.r = "rules_block" -> build_rules(c)
    [] c.r = "verify_op"  -> Leaf("verify", as_str(Kid(c, 1)))

build_phase(n) ==
  PhaseFrom(n, Each(LAMBDA i : build_phase_item(Kid(i, 1)), OfRule(n, "phase_item")))

ConfigOrder == <<"audio", "subtitle", "commentary_patterns", "on_error", "keep_backups">>

(* An empty list of languages or patterns is the same as none. *)
build_config(n) ==
  LET Item(c) ==
        LET key == leading_keyword(c)
        IN CASE key = "languages" -> Make(as_str(Kid(c, 1))[1], <<>>, build_list(Kid(c, 2)))
             [] key = "on_error"  -> parse_on_error_token(Kid(c, 1))
             [] key = "commentary_patterns" -> Make(key, <<>>, build_list(Kid(c, 1)))
             [] key = "keep_backups" -> Leaf(key, as_str(Kid(c, 1)))
      items == Each(Item, n.kids)
      Kept(k) == SelectSeq(LastOf(k, items), LAMBDA i : i.kids # <<>> \/ i.v # <<>>)
  IN IF Bad \in ToSet(items) THEN Bad
     ELSE Make("config", <<>>, Flat(Each(Kept, ConfigOrder)))

MetadataOrder == <<"version", "author", "description", "requires_voom", "requires_tools", "test_fixtures">>

build_metadata(n) ==
  LET Item(c) == IF Kid(c, 1).r = "str" THEN Make(leading_keyword(c), <<>>, <<build_value(Kid(c, 1))>>)
                 ELSE Make(leading_keyword(c), <<"list">>, build_list(Kid(c, 1)))
      items == Each(Item, n.kids)
  IN Make("metadata", <<>>, Flat(Each(LAMBDA k : LastOf(k, items), MetadataOrder)))

build_extends(n) == Leaf("extends", parse_string_value(Kid(n, 1)))

build_policy(n) ==
  Make("policy", parse_string_value(Kid(n, 1)),
       Each(LAMBDA c : CASE c.r = "extends_clause" -> build_extends(c)
                         [] c.r = "metadata" -> build_metadata(c)
                         [] c.r = "config"   -> build_config(c)
                         [] c.r = "phase"    -> build_phase(c), Tail(n.kids)))

(* Nothing may be left after the policy. *)
BuiltFrom(m) == IF m.ok /\ m.rest = <<>> THEN build_policy(m.kids[1]) ELSE Bad
parse_policy(toks) == BuiltFrom(Match(Rule("policy"), toks))

---------------------------------------------------------------------------
(***************************************************************************)
(* The formatter.  A part it writes without quotes is read again as        *)
(* whatever tokens its characters make.                                    *)
(***************************************************************************)
Spelled(ws) == Each(LAMBDA w : IF w \in {"{", "}", "(", ")", "[", "]", ":", ",", ".", "==", "!=", "<", "<=", ">", ">="}
                               THEN Sym(w) ELSE Word(w), ws)
Quoted(s) == <<Token("str", escape_string(s))>>

ClosingQuote(s) == SelectInSubSeq(s, 2, Len(s), LAMBDA c : c = "\"")

RECURSIVE Lex(_)
Lex(s) ==
  IF s = <<>> THEN <<>>
  ELSE CASE Head(s) = " " -> Lex(Tail(s))
         [] Head(s) = "\"" ->
              LET j == ClosingQuote(s)
              IN IF j = 0 THEN <<Token("none", s)>>
                 ELSE <<Token("str", SubSeq(s, 2, j - 1))>> \o Lex(SubSeq(s, j + 1, Len(s)))
         [] Head(s) \in Numerals -> <<Token("num", <<Head(s)>>)>> \o Lex(Tail(s))
         [] OTHER -> Spelled(<<Head(s)>>) \o Lex(Tail(s))

Joined(ss, sep) == Flat([i \in DOMAIN ss |-> IF i = 1 THEN ss[i] ELSE Spelled(<<sep>>) \o ss[i]])
Bracketed(ss) == Spelled(<<"[">>) \o Joined(ss, ",") \o Spelled(<<"]">>)
Block(toks) == Spelled(<<"{">>) \o toks \o Spelled(<<"}">>)
Plain(items) == Bracketed(Each(LAMBDA i : Lex(i.v), items))
QuotedList(items) == Bracketed(Each(LAMBDA i : Quoted(i.v), items))
Path(v) == Joined(Each(LAMBDA w : <<Word(w)>>, v), ".")

RECURSIVE format_value(_)
format_value(x) ==
  CASE x.k = "string" -> Quoted(x.v)
    [] x.k = "number" -> <<Token("num", x.v)>>
    [] x.k \in {"bool", "ident"} -> Spelled(x.v)
    [] x.k = "list"   -> Bracketed(Each(format_value, x.kids))
    [] x.k \in {"object", "call"} ->
         Spelled(IF x.k = "call" THEN x.v \o <<"(">> ELSE <<"{">>)
           \o Joined(Each(LAMBDA p : Lex(p.v) \o Spelled(<<":">>) \o format_value(p.kids[1]), x.kids), ",")
           \o Spelled(IF x.k = "call" THEN <<")">> ELSE <<"}">>)

format_value_or_field(x) == IF x.k = "field" THEN Path(x.v) ELSE format_value(x)

Pairs(ps) == Flat(Each(LAMBDA p : Lex(p.v) \o Spelled(<<":">>) \o format_value(p.kids[1]), ps))

format_normalize(n) == Spelled(<<"normalize", ":">>) \o Lex(n.v) \o (IF n.kids = <<>> THEN <<>> ELSE Block(Pairs(n.kids)))

(* Parentheses go around the children of the kinds that bind less tightly. *)
Wrapped(x, kinds, F(_)) == IF x.k \in kinds THEN Spelled(<<"(">>) \o F(x) \o Spelled(<<")">>) ELSE F(x)

RECURSIVE format_filter(_)

format_filter_and(items) == Joined(Each(LAMBDA i : Wrapped(i, {"or"}, format_filter), items), "and")
format_filter_or(items)  == Joined(Each(format_filter, items), "or")
format_filter_not(inner) == Spelled(<<"not">>) \o Wrapped(inner, {"and", "or"}, format_filter)

format_filter(f) ==
  CASE f.k = "in"      -> Spelled(f.v \o <<"in">>) \o Plain(f.kids)
    [] f.k = "compare" -> Spelled(f.v) \o (IF f.kids[1].k = "field" THEN Path(f.kids[1].v) ELSE Lex(f.kids[1].v))
    [] f.k = "is"      -> Spelled(f.v)
    [] f.k = "title"   -> Spelled(<<"title">> \o f.v) \o Quoted(f.kids[1].v)
    [] f.k = "and"     -> format_filter_and(f.kids)
    [] f.k = "or"      -> format_filter_or(f.kids)
    [] f.k = "not"     -> format_filter_not(f.kids[1])

WhereClause(fs) == IF fs = <<>> THEN <<>> ELSE Spelled(<<"where">>) \o format_filter(fs[1])
format_track_query(q) == Spelled(q.v) \o WhereClause(q.kids)

RECURSIVE format_condition(_)


format_and_condition(items) == Joined(Each(LAMBDA i : Wrapped(i, {"or"}, format_condition), items), "and")
format_or_condition(items)  == Joined(Each(format_condition, items), "or")
format_not_condition(inner) == Spelled(<<"not">>) \o Wrapped(inner, {"and", "or"}, format_condition)

format_condition(c) ==
  CASE c.k = "exists" -> Spelled(<<"exists", "(">>) \o format_track_query(c.kids[1]) \o Spelled(<<")">>)
    [] c.k = "count"  -> Spelled(<<"count", "(">>) \o format_track_query(c.kids[1]) \o Spelled(<<")">> \o c.v)
                           \o format_value(c.kids[2])
    [] c.k = "field_compare" -> Path(c.kids[1].v) \o Spelled(c.v) \o format_value(c.kids[2])
    [] c.k = "field_exists"  -> Path(c.kids[1].v) \o Spelled(<<"exists">>)
    [] c.k = "is"  -> Spelled(c.v)
    [] c.k = "and" -> format_and_condition(c.kids)
    [] c.k = "or"  -> format_or_condition(c.kids)
    [] c.k = "not" -> format_not_condition(c.kids[1])

format_action(a) ==
  CASE a.k \in {"keep", "remove"} -> Spelled(<<a.k>> \o a.v) \o WhereClause(a.kids)
    [] a.k = "skip" -> Spelled(<<"skip">> \o a.v)
    [] a.k \in {"warn", "fail"} -> Spelled(<<a.k>>) \o Quoted(a.v)
    [] a.k \in {"set_default", "set_forced"} -> Spelled(<<a.k>>) \o format_track_query(a.kids[1])
    [] a.k = "set_language" -> Spelled(<<a.k>>) \o format_track_query(a.kids[1]) \o format_value_or_field(a.kids[2])
    [] a.k = "set_tag" -> Spelled(<<a.k>>) \o Quoted(a.v) \o format_value_or_field(a.kids[1])

(* The branch after `then` is always written, the one after `else` when it has an action. *)
format_branch(b) ==
  IF b.k = "else" /\ b.kids = <<>> THEN <<>>
  ELSE Spelled(IF b.k = "else" THEN <<"else">> ELSE <<>>) \o Block(Flat(Each(format_action, b.kids)))

format_when(w) ==
  Spelled(<<"when">>) \o format_condition(w.kids[1])
    \o Flat(Each(format_branch, Tail(w.kids)))

format_rules(r) ==
  Spelled(<<"rules">> \o r.v)
    \o Block(Flat(Each(LAMBDA x : Spelled(<<"rule">>) \o Quoted(x.v) \o Block(format_when(x.kids[1])), r.kids)))

(* A setting named fallback is written as a block whatever its value is. *)
format_transcode_setting(p) ==
  IF p.v = <<"fallback">>
  THEN Spelled(p.v) \o Block(IF p.kids[1].k = "object" THEN Pairs(p.kids[1].kids) ELSE <<>>)
  ELSE Pairs(<<p>>)

format_transcode(o) ==
  Spelled(<<"transcode">> \o o.v \o <<"to">>) \o format_value(o.kids[1])
    \o (IF Len(o.kids) = 1 THEN <<>> ELSE Block(Flat(Each(format_transcode_setting, Tail(o.kids)))))

format_synth_setting(x) ==
  CASE x.k = "normalize" -> format_normalize(x)
    [] x.k = "source" -> Spelled(<<"source", ":", "prefer", "(">>) \o format_filter(x.kids[1]) \o Spelled(<<")">>)
    [] x.k = "skip_if_exists" -> Spelled(<<x.k>>) \o Block(format_filter(x.kids[1]))
    [] x.k = "create_if" -> Spelled(<<x.k>>) \o format_condition(x.kids[1])
    [] OTHER -> Spelled(<<x.k, ":">>) \o format_value(x.kids[1])

format_operation(o) ==
  CASE o.k \in {"container", "verify"} -> Spelled(<<o.k>> \o o.v)
    [] o.k \in {"keep", "remove"} ->
         LET block == SelectSeq(o.kids, LAMBDA c : c.k = "normalize")
         IN Spelled(<<o.k>> \o o.v) \o WhereClause(SelectSeq(o.kids, LAMBDA c : c.k # "normalize"))
              \o (IF block = <<>> THEN <<>> ELSE Block(format_normalize(block[1])))
    [] o.k = "order"      -> Spelled(<<"order", "tracks">>) \o Plain(o.kids)
    [] o.k = "defaults"   -> Spelled(<<o.k>>) \o Block(Pairs(o.kids))
    [] o.k = "actions"    -> Spelled(o.v \o <<o.k>>) \o Block(Pairs(o.kids))
    [] o.k = "transcode"  -> format_transcode(o)
    [] o.k = "synthesize" -> Spelled(<<o.k>>) \o Quoted(o.v) \o Block(Flat(Each(format_synth_setting, o.kids)))
    [] o.k = "clear_tags" -> Spelled(<<o.k>>)
    [] o.k = "set_tag"    -> Spelled(<<o.k>>) \o Quoted(o.v) \o format_value_or_field(o.kids[1])
    [] o.k = "delete_tag" -> Spelled(<<o.k>>) \o Quoted(o.v)
    [] o.k = "when"       -> format_when(o)
    [] o.k = "rules"      -> format_rules(o)

format_phase_item(i) ==
  CASE i.k = "extend"     -> Spelled(<<i.k>>)
    [] i.k = "depends_on" -> Spelled(<<i.k, ":">>) \o Plain(i.kids)
    [] i.k = "skip_when"  -> Spelled(<<"skip", "when">>) \o format_condition(i.kids[1])
    [] i.k = "run_if"     -> Spelled(<<"run_if">>) \o Path(i.v)
    [] i.k = "on_error"   -> Spelled(<<i.k, ":">> \o i.v)
    [] OTHER              -> format_operation(i)

format_phase(p) == Spelled(<<"phase">> \o p.v) \o Block(Flat(Each(format_phase_item, p.kids)))

format_config(c) ==
  LET Item(i) == CASE i.k \in {"audio", "subtitle"} -> Spelled(<<"languages", i.k, ":">>) \o Plain(i.kids)
                   [] i.k = "commentary_patterns" -> Spelled(<<i.k, ":">>) \o QuotedList(i.kids)
                   [] OTHER -> Spelled(<<i.k, ":">> \o i.v)
  IN Spelled(<<"config">>) \o Block(Flat(Each(Item, c.kids)))

format_metadata(m) ==
  LET Item(i) == Spelled(<<i.k, ":">>) \o (IF i.v = <<"list">> THEN QuotedList(i.kids) ELSE format_value(i.kids[1]))
  IN Spelled(<<"metadata">>) \o Block(Flat(Each(Item, m.kids)))

format_extends(x) == Spelled(<<"extends">>) \o Quoted(x.v)

format_part(x) == CASE x.k = "metadata" -> format_metadata(x)
                    [] x.k = "config"   -> format_config(x)
                    [] x.k = "phase"    -> format_phase(x)

format_policy(p) ==
  Spelled(<<"policy">>) \o Quoted(p.v)
    \o Flat(Each(format_extends, SelectSeq(p.kids, LAMBDA x : x.k = "extends")))
    \o Block(Flat(Each(format_part, SelectSeq(p.kids, LAMBDA x : x.k # "extends"))))

---------------------------------------------------------------------------
(***************************************************************************)
(* `voom policy format` replaces the file by its formatted text; a file    *)
(* that does not parse is left as it is.                                   *)
(***************************************************************************)
SyntaxInit ==
  /\ written \in Texts
  /\ file = written
  /\ formats = 0

FormatFile ==
  /\ formats < 2
  /\ \E ast \in {parse_policy(file)} : file' = IF ast = Bad THEN file ELSE format_policy(ast)
  /\ formats' = formats + 1
  /\ UNCHANGED written

SyntaxNext == FormatFile
SyntaxSpec == SyntaxInit /\ [][SyntaxNext]_syntaxVars

---------------------------------------------------------------------------
(* What a tree means: a conjunction in a conjunction is one conjunction, an alternative in an alternative one. *)
RECURSIVE Meaning(_)
Meaning(n) ==
  LET kids == Each(Meaning, n.kids)
      Spread(c) == IF n.k \in {"and", "or"} /\ c.k = n.k THEN c.kids ELSE <<c>>
  IN [n EXCEPT !.kids = Flat(Each(Spread, kids))]


RECURSIVE Within(_, _)
Within(n, k) == (IF n.k = k THEN <<n>> ELSE <<>>) \o Flat(Each(LAMBDA c : Within(c, k), n.kids))
=============================================================================
