---------------------------- MODULE MCCommandLine ----------------------------
EXTENDS CommandLine

Device == "iio:device0@data.bin"
NoColon == "device1@data.bin"

Drive == "C:/pluto.xml"

\* Bounds: five arguments, of a few; the second of the sets has what the first
\* has not, with four arguments.
Lines(arguments, length) == UNION {[1..n -> arguments] : n \in 0..length}
MCArgvs == Lines({"generic", "pluto.xml", Drive, "1234", "-p", "-v", Device, NoColon}, 5)
               \cup Lines({"generic", "adalm2000", "pluto.xml", Drive, "1234", "30431", "70000",
                           "-p", "-v", "-h", "-x", Device, NoColon}, 4)

MCWithColon == {Device, Drive}
MCWithAt == {Device, NoColon}
MCPortOf == [n \in Numerals |-> CASE n = "1234" -> 1234 [] n = "30431" -> 30431
                                  [] n = "70000" -> 70000]
=============================================================================
