-------------------------------- MODULE Modules --------------------------------
(***************************************************************************)
(* The modules that are built into the kernel are registered and loaded      *)
(* during boot, in the order of the build's list.  A module that declares    *)
(* dependencies has them loaded first; what its init function calls without   *)
(* declaring it may not be there yet.  The drivers take interrupt channels,   *)
(* ports and devices, and give none back when their init function fails.      *)
(***************************************************************************)
EXTENDS Integers, Sequences, SequencesExt, FiniteSets

CONSTANTS
  Builds,       \* the sets of modules that a kernel is built with
  Disc          \* the discs that are present, a set of 0 .. 3

AllModules == {"x86_pci", "devfs", "sysfs", "x86_serial_tty", "x86_ps2", "disc_pio", "kbd_pio"}

ModulesAssumption == Builds \subseteq SUBSET AllModules /\ Disc \subseteq 0 .. 3

VARIABLES
  order,        \* the build's list
  position,     \* the next one of it that boot loads
  ps2_works,    \* the controller passes its self test
  k             \* what loading a module changes

vars == <<order, position, ps2_works, k>>

\* The modules of this build.
Module == ToSet(order)

deps(name) ==
  CASE name = "x86_serial_tty" -> <<"devfs", "sysfs">>
    [] name = "x86_ps2" -> <<"devfs">>
    [] OTHER -> <<>>

Channel == {"IC_MOUSE", "IC_KEYBOARD", "IC_COM1", "IC_COM2"}
Nobody == "nobody"

\* available, loaded: the lists of modules.  ready: modules whose lists are set up.
\* handler, ports, devices: what drivers took.  devfs, sysfs: names that are listed.
\* early: calls into a module that came before its init function.
Boot ==
  [available |-> Module, loaded |-> <<>>, ready |-> {}, inits |-> <<>>,
   handler |-> [c \in Channel |-> Nobody], ports |-> {}, devices |-> {},
   devfs |-> {}, sysfs |-> {}, bound |-> FALSE, early |-> {}]

\* All orders in which a module is listed once.
Init ==
  /\ \E build \in Builds:
       order \in {f \in [1 .. Cardinality(build) -> build]: IsInjective(f)}
  /\ position = 1
  /\ ps2_works \in BOOLEAN
  /\ k = Boot

-----------------------------------------------------------------------------
\* A list whose ends are not set up is at the address 0: what is linked into it
\* is lost when they are.
call(s, user, service) ==
  IF service \in s.ready THEN s ELSE [s EXCEPT !.early = @ \cup {<<user, service>>}]

device_create(s, name) == [s EXCEPT !.devices = @ \cup {name}]

devfs_register(s, user, name) == [call(s, user, "devfs") EXCEPT !.devfs = @ \cup {name}]

sysfs_add_entry(s, name) == [call(s, name, "sysfs") EXCEPT !.sysfs = @ \cup {name}]

Ok(s) == [k |-> s, result |-> "ok"]
Error(s) == [k |-> s, result |-> "error"]

\* Bug: a channel that is taken changes hands.
interrupt_registry_register_over(s, channel, user) ==
  Ok([s EXCEPT !.handler[channel] = user])

interrupt_registry_register(s, channel, user) ==
  IF s.handler[channel] # Nobody THEN Error(s) ELSE Ok([s EXCEPT !.handler[channel] = user])

io_arbitrator_reserve(s, port) ==
  IF port \in s.ports THEN Error(s) ELSE Ok([s EXCEPT !.ports = @ \cup {port}])

\* Both steps, the second one if the first one succeeds.
Then(r, step(_)) == IF r.result = "ok" THEN step(r.k) ELSE r

\* Both ports, each with a terminal of the next number.
serial_tty_init(s) ==
  LET port(t, tty, channel) ==
        interrupt_registry_register(
          devfs_register(device_create(t, tty), "x86_serial_tty", tty), channel, "x86_serial_tty")
      com2(t) == port(t, "tty1", "IC_COM2")
  IN  Then(port(s, "tty0", "IC_COM1"), com2)

\* Bug: the device is made when the controller has passed its test.
ps2_init_late(s) ==
  LET keyboard(t) == interrupt_registry_register(t, "IC_KEYBOARD", "x86_ps2")
      test(t) == IF ps2_works
                 THEN Ok(devfs_register(device_create(t, "input0"), "x86_ps2", "input0"))
                 ELSE Error(t)
      rest(t) == Then(keyboard(t), test)
  IN  Then(interrupt_registry_register(s, "IC_MOUSE", "x86_ps2"), rest)

ps2_init(s) ==
  LET keyboard(t) == interrupt_registry_register(t, "IC_KEYBOARD", "x86_ps2")
      device(t) == devfs_register(device_create(t, "input0"), "x86_ps2", "input0")
      test(t) == IF ps2_works THEN Ok(device(t)) ELSE Error(device(t))
      rest(t) == Then(keyboard(t), test)
  IN  Then(interrupt_registry_register(s, "IC_MOUSE", "x86_ps2"), rest)

kbd_pio_init(s) ==
  LET channel(t) == interrupt_registry_register(t, "IC_KEYBOARD", "kbd_pio") IN
  Then(io_arbitrator_reserve(devfs_register(device_create(s, "kbd"), "kbd_pio", "kbd"), "0x60"),
       channel)

DiscNames == {"disc0", "disc1", "disc2", "disc3"}
NthDisc(n) == CASE n = 0 -> "disc0" [] n = 1 -> "disc1" [] n = 2 -> "disc2" [] OTHER -> "disc3"

\* The discs of a channel get the next numbers.
add_ide_devices(s, discs) ==
  LET n == Cardinality(s.devices \cap DiscNames)
      names == {NthDisc(n + i): i \in 0 .. Cardinality(discs) - 1}
      t == [s EXCEPT !.devices = @ \cup names]
  IN  IF discs = {} THEN s ELSE [call(t, "disc_pio", "devfs") EXCEPT !.devfs = @ \cup names]

\* The two channels of the controller; master and slave of each may be present.
pci_probe(s) ==
  LET control(c) == c \o "_control"
      reserve(t, c) == LET second(u) == io_arbitrator_reserve(u, control(c))
                       IN  Then(io_arbitrator_reserve(t, c), second)
      channel(t, c, discs) == LET add(u) == Ok(add_ide_devices(u, discs))
                              IN  Then(reserve(t, c), add)
      secondary(t) == channel(t, "secondary", Disc \cap {2, 3})
  IN  Then(channel(s, "primary", Disc \cap {0, 1}), secondary)

\* pci_watch: the controller, when it was found and no other watcher has it.
disc_pio_init(s) ==
  LET t == call(s, "disc_pio", "x86_pci") IN
  IF "x86_pci" \in s.ready /\ ~s.bound
  THEN LET r == pci_probe(t) IN Ok([r.k EXCEPT !.bound = (r.result = "ok")])
  ELSE Ok(t)

\* The init function of a module.  Those of file systems empty their lists.
init(s, name) ==
  CASE name = "x86_pci" -> Ok([s EXCEPT !.ready = @ \cup {name}, !.bound = FALSE])
    [] name = "devfs" -> Ok([s EXCEPT !.ready = @ \cup {name}, !.devfs = {}])
    [] name = "sysfs" -> Ok([s EXCEPT !.ready = @ \cup {name}, !.sysfs = {}])
    [] name = "x86_serial_tty" -> serial_tty_init(s)
    [] name = "x86_ps2" -> ps2_init(s)
    [] name = "disc_pio" -> disc_pio_init(s)
    [] name = "kbd_pio" -> kbd_pio_init(s)

-----------------------------------------------------------------------------
\* Bug: the entry in sysfs comes first.
load_self_listed(s, name) ==
  LET r == init([sysfs_add_entry(s, name) EXCEPT !.inits = Append(@, name)], name) IN
  IF r.result # "ok" THEN r
  ELSE Ok([r.k EXCEPT !.loaded = Append(@, name), !.available = @ \ {name}])

\* What follows when the dependencies are there: the entry in sysfs is made
\* whether sysfs is ready or not.
load_self(s, name) ==
  LET r == init([s EXCEPT !.inits = Append(@, name)], name) IN
  IF r.result # "ok" THEN r
  ELSE Ok([sysfs_add_entry(r.k, name) EXCEPT !.loaded = Append(@, name),
                                             !.available = @ \ {name}])

RECURSIVE module_load(_, _), load_deps(_, _), module_load_regardless(_, _)

\* Bug: the dependencies are loaded after the module.
module_load_regardless(s, name) ==
  IF Contains(s.loaded, name) THEN [k |-> s, result |-> "MOD_LOADED"]
  ELSE IF name \notin s.available THEN [k |-> s, result |-> "MOD_NONE"]
  ELSE LET rest(t) == load_deps(t, deps(name)) IN Then(load_self(s, name), rest)

module_load(s, name) ==
  IF Contains(s.loaded, name) THEN [k |-> s, result |-> "MOD_LOADED"]
  ELSE IF name \notin s.available THEN [k |-> s, result |-> "MOD_NONE"]
  ELSE LET self(t) == load_self(t, name) IN Then(load_deps(s, deps(name)), self)

load_deps(s, names) ==
  IF names = <<>> THEN Ok(s)
  ELSE LET r == module_load(s, Head(names)) IN
       IF r.result \in {"ok", "MOD_LOADED"} THEN load_deps(r.k, Tail(names)) ELSE r

\* Boot ignores the result.
static_module_init ==
  /\ position =< Len(order)
  /\ k' = module_load(k, order[position]).k
  /\ position' = position + 1
  /\ UNCHANGED <<order, ps2_works>>

Next == static_module_init \/ (position > Len(order) /\ UNCHANGED vars)

Spec == Init /\ [][Next]_vars

-----------------------------------------------------------------------------
Before(m, n, seq) ==
  \E i, j \in 1 .. Len(seq): i < j /\ seq[i] = m /\ seq[j] = n

\* A module is in one of the two lists of modules.
TypeOK ==
  /\ ToSet(k.loaded) \cup k.available = Module
  /\ ToSet(k.loaded) \cap k.available = {}
  /\ IsInjective(k.loaded)

\* A module whose init function ran has all dependencies that it declares in the
\* list of loaded modules, before itself, wherever the build lists them.
DependenciesFirst ==
  \A m \in ToSet(k.inits): \A d \in ToSet(deps(m)):
    Before(d, m, k.inits) /\ Contains(k.loaded, d)

\* No init function runs again once it has succeeded, so that no list is emptied
\* that drivers are in.
InitOnce == \A m \in ToSet(k.loaded): Cardinality({i \in DOMAIN k.inits: k.inits[i] = m}) = 1

\* Calls that reach a module before its init function are those that are not
\* declared: the entry of any module in sysfs, and devfs and x86_pci for drivers
\* that declare no dependencies.
EarlyCalls ==
  k.early \subseteq ({<<m, "sysfs">>: m \in Module \ {"sysfs"}}
                      \cup {<<"disc_pio", "x86_pci">>, <<"disc_pio", "devfs">>,
                            <<"kbd_pio", "devfs">>})

\* Whoever lists the entries of sysfs finds the modules that were loaded from
\* sysfs on, and none of those that were loaded before.
EntriesFromSysfsOn ==
  "sysfs" \in k.ready
    => k.sysfs = {m \in ToSet(k.loaded): m = "sysfs" \/ Before("sysfs", m, k.loaded)}

DeviceOf(driver, channel) ==
  CASE driver = "x86_serial_tty" -> IF channel = "IC_COM1" THEN "tty0" ELSE "tty1"
    [] driver = "x86_ps2" -> "input0"
    [] driver = "kbd_pio" -> "kbd"

\* The handler of an interrupt channel finds the device that it serves, although
\* x86_ps2 takes its channels first, unless two drivers want the keyboard.
HandlersHaveDevice ==
  ~({"x86_ps2", "kbd_pio"} \subseteq Module)
    => \A c \in Channel: k.handler[c] # Nobody => DeviceOf(k.handler[c], c) \in k.devices

\* The keyboard stays with the driver that came first, whoever wants it later.
KeyboardKept ==
  k.handler["IC_KEYBOARD"] = "kbd_pio" /\ ps2_works => ~Before("x86_ps2", "kbd_pio", k.inits)

\* When boot has loaded all modules and looks for its disc in devfs, it is there
\* if one is present and the list has x86_pci and devfs, or a driver that depends
\* on it, before disc_pio.
DiscFound ==
  position > Len(order) /\ Disc # {} /\ Before("x86_pci", "disc_pio", order)
    /\ (\E m \in {"devfs", "x86_serial_tty", "x86_ps2"}: Before(m, "disc_pio", order))
    /\ "devfs" \in Module
    /\ ("sysfs" \in Module \/ ~Before("x86_serial_tty", "disc_pio", order))
      => "disc0" \in k.devfs
=============================================================================
