SPECIFICATION Spec
CONSTANTS
    None = None
    NonReusable = NonReusable
INVARIANTS Trusted ChannelsRight
PROPERTIES FailClosed WaitsEnd
