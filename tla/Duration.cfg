SPECIFICATION AgeSpec
CONSTANTS
    Years = {2000, 2001, 2023, 2024}
    Times = {107999}
    Ages = {0, 119, 120, 121, 599, 600, 659, 10799, 10800, 28799, 28800,
        32399, 172799, 172800, 691199, 691200, 777599, 63071999, 63072000,
        252287999, 252288000, 283823999}
INVARIANTS
    TimeIsCalendar
    AgeIsTrue
