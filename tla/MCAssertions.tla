----------------------------- MODULE MCAssertions -----------------------------
EXTENDS Assertions, TLC

Thing(kind, type, value, fields, of, home) ==
    [kind |-> kind, type |-> type, value |-> value, fields |-> fields, of |-> of, home |-> home]
Plain(value, of) == Thing("plain", "int", value, {}, of, "primitive")
Object(fields) == Thing("complex", "Counter", "", fields, "", "elsewhere")
Sized(length) == Thing("sized", "Bag", length, {}, "", "elsewhere")
Listed(length) == Thing("sized", "list", length, {}, "", "builtins")

\* A counter with its number, its address, which differs between executions, a bag, a
\* field of its class and one of the module.
Heap(n, address, length) ==
    ("c" :> Object({"c.n", "c.id", "c.bag"})) @@ ("c.n" :> Plain(n, "")) @@ ("c.id" :> Plain(address, ""))
      @@ ("c.bag" :> Sized(length)) @@ ("Counter.last" :> Plain(address, "Counter"))
      @@ ("total" :> Plain("7", "module"))

Step(raises, objects) == [raises |-> raises, objects |-> objects]
Run(steps) == [timeout |-> FALSE, steps |-> steps]
Calls(creates) == [calls |-> TRUE, creates |-> creates]

\* c = Counter(); x = 5; c.up(); l = c.down()        and        b = Bag(); b.fail()
MCTests == <<<<Calls("c"), [calls |-> FALSE, creates |-> "x"], Calls("none"), Calls("l")>>,
             <<Calls("b"), Calls("none")>>>>

Counting(up, down, address) ==
    Run(<<Step("none", Heap("0", address, "0")), Step("none", Heap("0", address, "0")),
          Step("none", Heap(up, address, "1")),
          Step("none", Heap(down, address, "1") @@ ("l" :> Listed("3")))>>)
BagOf(length) == ("b" :> Sized(length)) @@ ("total" :> Plain("7", "module"))
Failing(raises) == Run(<<Step("none", BagOf("0")), Step(raises, BagOf("0"))>>)
Wrong == Run(<<Step("none", BagOf("9")), Step("KeyError", BagOf("9"))>>)
Broken == Run(<<Step("TypeError", << >>), Step("none", << >>), Step("none", << >>), Step("none", << >>)>>)

\* Addresses differ, or the test times out; the second test raises sometimes nothing.
MCRuns == <<{Counting("1", "0", "a"), Counting("1", "0", "b"), NoRun}, {Failing("ValueError"), Failing("none")}>>

\* The same; one that does not count; none; one that fails at once or
\* times out in the first test and has another number in the second.
MCMutants == <<<<{Counting("1", "0", "a")}, {Failing("ValueError")}>>,
               <<{Counting("0", "0", "a")}, {Failing("ValueError")}>>,
               "invalid",
               <<{Broken, NoRun}, {Wrong}>>>>
=============================================================================
