-------------------------- MODULE SubProcessSettings --------------------------
(***************************************************************************)
(* SubProcessSettings::Load (sub_process_settings.cpp): one step of the    *)
(* loop over the program's arguments.  What std::stoi and std::stod make   *)
(* of a text is a parameter: a set with one number, or none where they     *)
(* throw an exception.                                                     *)
(***************************************************************************)
EXTENDS Integers, Sequences, FiniteSetsExt

CONSTANTS
  Text,               \* arguments, the names of the options among them
  Stoi, Stod,
  UINT16_MODULUS,     \* 2^16
  UINT32_MODULUS      \* 2^32

Option ==
  [udp_port |-> "--udp", tcp_port |-> "--tcp",
   start_point_latitude |-> "--lat_start",
   start_point_longitude |-> "--long_start", map_radius |-> "--radius",
   map_name |-> "--map", game_id |-> "--id",
   points_to_win |-> "--win_points",
   point_box_spawn_period |-> "--spawn_period"]

Field == DOMAIN Option

ASSUME TextAssumption ==
  /\ {Option[f] : f \in Field} \subseteq Text
  /\ Stoi \in [Text -> SUBSET Int]
  /\ DOMAIN Stod = Text
  /\ {UINT16_MODULUS, UINT32_MODULUS} \subseteq Nat \ {0}

VARIABLES argv, i, settings

settingsVars == <<argv, i, settings>>

-----------------------------------------------------------------------------

\* The initializers of the structure; its doubles are named, not computed.
Defaults ==
  [udp_port |-> 8850 % UINT16_MODULUS, tcp_port |-> 8860 % UINT16_MODULUS,
   start_point_latitude |-> "17.034299", start_point_longitude |-> "51.109385",
   map_radius |-> "1000", map_name |-> "WROCLAW", game_id |-> 0,
   points_to_win |-> 1000, point_box_spawn_period |-> 10]

\* What is stored for a text: the type of the field cuts off high bits.
Reading(f, text) ==
  CASE f \in {"udp_port", "tcp_port", "point_box_spawn_period"} ->
         {n % UINT16_MODULUS : n \in Stoi[text]}
    [] f = "game_id" -> {n % UINT32_MODULUS : n \in Stoi[text]}
    [] f = "points_to_win" -> Stoi[text]
    [] f = "map_name" -> {text}
    [] OTHER -> Stod[text]

LoadBegins(arguments) ==
  /\ argv = arguments
  /\ i = 1
  /\ settings = Defaults

\* Seeded fault: the value of an option is not looked at as an option.
LoadArgumentPair ==
  /\ i < Len(argv)
  /\ settings' = [f \in Field |->
                    IF argv[i] = Option[f] /\ Reading(f, argv[i + 1]) # {}
                    THEN CHOOSE v \in Reading(f, argv[i + 1]) : TRUE
                    ELSE settings[f]]
  /\ i' = IF \E f \in Field : argv[i] = Option[f] THEN i + 2 ELSE i + 1
  /\ UNCHANGED argv

\* The step is always one, also after an option that has taken its value.
LoadArgument ==
  /\ i < Len(argv)
  /\ settings' = [f \in Field |->
                    IF argv[i] = Option[f] /\ Reading(f, argv[i + 1]) # {}
                    THEN CHOOSE v \in Reading(f, argv[i + 1]) : TRUE
                    ELSE settings[f]]
  /\ i' = i + 1
  /\ UNCHANGED argv

\* The first argument is the program's name, whatever it is.
SettingsInit ==
  \E name : \E arguments \in Seq(Text) : LoadBegins(<<name>> \o arguments)

SettingsSpec == SettingsInit /\ [][LoadArgument]_settingsVars

-----------------------------------------------------------------------------
(* Properties.                                                             *)

\* Where the name of an option is followed by a text it can be read from.
Given(f) == {k \in 1 .. Len(argv) - 1 :
               argv[k] = Option[f] /\ Reading(f, argv[k + 1]) # {}}

\* Each setting has the value of its last readable occurrence: a value that
\* cannot be read, a name without a value, or a name that stands where
\* another option expects its value never take a setting away or change
\* another one (the comment of Load: "Load sub-process settings from program
\* arguments.").
LastReadableValueCounts ==
  i >= Len(argv) =>
    \A f \in Field :
      IF Given(f) = {} THEN settings[f] = Defaults[f]
      ELSE settings[f] \in Reading(f, argv[Max(Given(f)) + 1])
=============================================================================
