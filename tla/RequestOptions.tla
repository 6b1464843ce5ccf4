---------------------------- MODULE RequestOptions --------------------------
(***************************************************************************)
(* What a request says besides the conversation: how hard to think, the    *)
(* format and the length of the answer, the tools and which of them to     *)
(* use (the prepare functions of protocol/responses.rs and anthropic.rs).  *)
(* Sampling parameters are copied from field to field and left out.        *)
(*                                                                         *)
(* The three protocols' fields are one record: thinking and choice.single  *)
(* (disable_parallel_tool_use) are Anthropic's, parallel is not.  A field  *)
(* that is absent is None, a value no protocol knows "unknown".            *)
(***************************************************************************)
EXTENDS Transcript

DefaultMaxTokens == 4096

Options(effort, thinking, format, choice, parallel, limit, tools) ==
  [ effort |-> effort, thinking |-> thinking, format |-> format,
    choice |-> choice, parallel |-> parallel, limit |-> limit, tools |-> tools ]
Choice(type, name, single) == [type |-> type, name |-> name, single |-> single]
NoChoice == Choice(None, None, FALSE)
Tool(type, name) == [type |-> type, name |-> name]

Retyped(tools, from, to) ==
  Each(tools, LAMBDA tool : Unless(tool.type # from, <<Tool(to, tool.name)>>))
Known(value, values) == IF value \in values THEN value ELSE None

Levels == {"low", "medium", "high", "xhigh", "max"}
Efforts == Levels \cup {"none", "minimal"}
Formats == {"json_schema", "json_object", "text"}
ChoiceTypes == {"auto", "none", "required", "function"}

KnownChoice(choice) ==
  IF choice.type \in ChoiceTypes THEN Choice(choice.type, choice.name, FALSE) ELSE NoChoice

\* translate_reasoning, translate_tools and translate_text_format.
OptionsFromResponses(o) ==
  Options(Known(o.effort, Efforts), None, Known(o.format, Formats), KnownChoice(o.choice),
          o.parallel, o.limit, Retyped(o.tools, "function", "function"))

\* A translated request for Responses; an effort is copied as it is.
OptionsToResponses(o) ==
  Options(o.effort, None, Known(o.format, Formats), KnownChoice(o.choice),
          o.parallel, o.limit, Retyped(o.tools, "function", "function"))

ChatChoice ==
  [auto |-> "auto", none |-> "none", any |-> "required", tool |-> "function"]
AnthropicChoice ==
  [auto |-> "auto", none |-> "none", required |-> "any", function |-> "tool"]

\* Anthropic's translate_thinking, translate_output_format and
\* translate_tools.
OptionsFromAnthropic(o) ==
  LET chosen == o.choice.type \in DOMAIN ChatChoice
  IN Options(IF o.thinking = "disabled" THEN "none" ELSE Known(o.effort, Levels), None,
             Known(o.format, {"json_schema"}),
             IF chosen THEN Choice(ChatChoice[o.choice.type], o.choice.name, FALSE)
             ELSE NoChoice,
             IF chosen /\ o.choice.single THEN FALSE ELSE None,
             o.limit, Retyped(o.tools, "custom", "function"))

\* chat_tool_choice_to_anthropic: without a choice, parallel calls alone make
\* the choice "auto".
ChoiceToAnthropic(choice, parallel) ==
  IF choice.type \in DOMAIN AnthropicChoice
  THEN Choice(AnthropicChoice[choice.type], choice.name, parallel = FALSE)
  ELSE IF choice.type = None /\ parallel # None
  THEN Choice("auto", None, parallel = FALSE)
  ELSE NoChoice

OptionsToAnthropic(o) ==
  Options(Known(o.effort, Levels), None, Known(o.format, {"json_schema"}),
          ChoiceToAnthropic(o.choice, o.parallel), None,
          IF o.limit = None THEN DefaultMaxTokens ELSE o.limit,
          Retyped(o.tools, "function", "custom"))

=============================================================================
