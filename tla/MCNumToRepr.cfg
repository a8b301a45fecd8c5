CONSTANTS
    Types = {"u8", "i8", "u16", "i16", "u32", "i32", "u64", "i64"}
    Values <- SomeValues
    MaxInlineSize = 16
    NarrowU = "u32"
SPECIFICATION Spec
INVARIANTS BackwardsFill WritesDecimal
CHECK_DEADLOCK FALSE
