--------------------------- MODULE MCCronDiscovery ---------------------------
(***************************************************************************)
(* A small instance of CronDiscovery: two hosts that may run the same      *)
(* command, a crontab as the parser expects it, another of another role,   *)
(* and one without a role and with a line that cannot be parsed.           *)
(***************************************************************************)
EXTENDS CronDiscovery

CONSTANTS h1, h2, r1, r2, c1, c2

MCHosts == {h1, h2}
MCRoles == {r1, r2}
MCCommands == {c1, c2}

MCCrontabs ==
    { <<RoleLine(r1), ScriptLine(c1), ScriptLine(c2)>>,
      <<RoleLine(r2), ScriptLine(c2)>>,
      <<ScriptLine(c1), BrokenLine, ScriptLine(c2)>> }
=============================================================================
