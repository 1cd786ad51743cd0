-------------------------- MODULE MCEndpointCalls --------------------------
(* Instances of EndpointCalls for TLC.  A Long has 7 bits and a double 5 of *)
(* precision: it holds the integers up to 32 and the even ones up to 64.    *)
(* A second is 2 milliseconds or 4 microseconds; a number from 8 on counts  *)
(* in milliseconds, one from 16 on in microseconds, and a double of seconds *)
(* loses the odd microseconds from 33 on.                                   *)
EXTENDS EndpointCalls

(* At and around each boundary. *)
Longs == {-64, -33, -31, -30, 0, 30, 31, 33, 63}

Doublings == {1, 2, 4, 8, 16, 32, 64, 128, 256, 512, 1024}

Earliest == -30

MCSamples(annotation) ==
    LET type == WithoutNone(annotation)
    IN  CASE type = Long ->
                {Integer(n) : n \in Longs \cup {-65, 64}}
                \cup {Bool(TRUE), Decimal(5, 0), Str("integer", 5)}
          [] type = Plain("int") -> {Integer(1)}
          [] type = Plain("Decimal") -> {Decimal(4, 0), Decimal(20, 1), Decimal(-15, 1), NotANumber}
          [] type = Plain("date") -> {Date(20240229)}
          [] type = Plain("str") -> {Blank, Str("words", 1), Str("integer", 7)}
          [] type = ListOf(Long) ->
                {List(<<>>), List(<<Integer(63), Integer(-31)>>), List(<<Integer(1), Integer(64)>>)}
          [] type = ListOf(Plain("datetime")) -> {List(<<Datetime(9), Midnight(20240301)>>)}

MCGoodData(type) ==
    LET t == WithoutNone(type)
    IN  {None} \cup
        CASE t = Long -> {Integer(n) : n \in Longs} \cup {Str("integer", n) : n \in Longs}
          [] t = Plain("int") -> {Integer(0), Integer(9), Decimal(20, 1)}
          [] t = Plain("Decimal") -> {Integer(5), Decimal(-15, 1), Str("real", 15), Str("loose", 5)}
          [] t = Plain("datetime") ->
                Epochs \cup {Str("datetime", MillisFrom * Thousand), Str("date", 20240301)}
          [] t = Plain("date") -> {Str("date", 20240229),
                                   List(<<Integer(2024), Integer(2), Decimal(290, 1)>>)}
          [] t = Plain("str") -> {Str("words", 1), Str("integer", 7)}
          [] t = ListOf(Plain("str")) -> {List(<<>>), List(<<Str("words", 1), None>>)}

MCBadData ==
    {Bool(TRUE), NotANumber, Integer(64), Integer(-65), Integer(8), Integer(33), Integer(-30),
     Integer(-31), Decimal(5, 1), Decimal(-15, 1), Decimal(351, 1), Str("integer", 64), Str("minus zero", 0), Str("other digits", 4), Str("midnight", 20240301),
     Str("words", 1), Dict(<<>>), List(<<>>), List(<<Dict(<<>>), Integer(3)>>),
     List(<<Integer(2023), Integer(2), Integer(29)>>)}
============================================================================
